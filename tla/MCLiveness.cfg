CONSTANTS
  EndorsementDelay = 1
  MinDelay = 2
  DelayStep = 1
  MaxDelay = 3
  MAX_TIMER_ITERS = 2
  MaxTip = 3
  MaxTime = 9
  g = g
  a1 = a1
  b2 = b2
  c3 = c3
  f2 = f2
  p2 = p2
  kb = kb
  None = None
SPECIFICATION LiveSpec
INVARIANTS NoSkipWhilePending TimerDoesNotDrift BandwidthIsLimited
PROPERTIES MatchesUntimed EndorsementsGetResolved BlocksGetStored GarbageGetsCollected ReceiptsGetThrough
CHECK_DEADLOCK FALSE

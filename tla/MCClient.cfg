CONSTANTS
  x = x
  y = y
  z = z
  g = g
  p = p
  q = q
  r = r
  s = s
  u = u
  v = v
  None = None
  Accounts = {x, y, z}
  Blocks = {g, p, q, r, u, v}
  Genesis = g
  BlockHeight <- MCBlockHeight
  Parent <- MCParent
  Own <- MCOwn
  Requestable = {q}
  Mine <- MCMine
  Approvers <- MCApprovers
  StakeThisEpoch <- MCStakeThisEpoch
  StakeNextEpoch <- MCStakeNextEpoch
  Targets = {3}
  MaxTime = 2
  MAX_HEIGHTS_AHEAD_TO_STORE_APPROVALS = 3
  MAX_HEIGHTS_BEFORE_TO_STORE_APPROVALS = 1
  PendingCapacity = 2
  ChunkWait = 0
SPECIFICATION ClientsSpec
INVARIANTS ProducedBlocksAreApproved WitnessesAreApprovers PendingLacksBlock
INVARIANTS NobodyWaitsInVain BlocksAreInOnePlace ChunksAreCompleted
PROPERTY ProducedHeightsAreFresh
CHECK_DEADLOCK FALSE

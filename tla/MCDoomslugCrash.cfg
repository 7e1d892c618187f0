CONSTANTS
  a = a
  b = b
  byz = byz
  Validators = {a, b}
  Faulty = {}
  StakeThisEpoch <- MCStakeThisEpoch
  StakeNextEpoch <- MCStakeNextEpoch
  Producer <- MCProducerHonest
  Tags <- MCTags
  GenesisHeight = 0
  MaxHeight = 3
  Unreliable = {a, b}
  MAX_TIMER_ITERS = 2
  NUM_PARENTS_TO_CHECK_FINALITY = 20
SPECIFICATION Spec
INVARIANTS NoConflictingApprovals OneBlockPerHonestHeight LatestKnownCoversHead
CHECK_DEADLOCK FALSE

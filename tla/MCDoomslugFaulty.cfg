CONSTANTS
  a = a
  b = b
  byz = byz
  Validators = {a, b, byz}
  Faulty = {byz}
  StakeThisEpoch <- MCStakeThisEpoch
  StakeNextEpoch <- MCStakeNextEpoch
  Producer <- MCProducerFaulty
  Tags <- MCTags
  GenesisHeight = 0
  MaxHeight = 3
  Unreliable = {}
  MAX_TIMER_ITERS = 2
  NUM_PARENTS_TO_CHECK_FINALITY = 20
SPECIFICATION Spec
INVARIANTS FinalitySafety HeadsExtendFinalHeads
CHECK_DEADLOCK FALSE

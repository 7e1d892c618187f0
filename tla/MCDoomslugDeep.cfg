CONSTANTS
  a = a
  b = b
  byz = byz
  Validators = {a, byz}
  Faulty = {byz}
  StakeThisEpoch <- MCStakeOneHonest
  StakeNextEpoch <- MCStakeNextEpoch
  Producer <- MCProducerFaulty
  Tags <- MCOneTag
  GenesisHeight = 0
  MaxHeight = 4
  Unreliable = {a}
  MAX_TIMER_ITERS = 2
  NUM_PARENTS_TO_CHECK_FINALITY = 20
SPECIFICATION Spec
INVARIANT IndInv
PROPERTY FinalHeadOnlyExtends
CHECK_DEADLOCK FALSE

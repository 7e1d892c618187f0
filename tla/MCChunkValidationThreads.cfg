CONSTANTS
  Actors = {"t1", "t2"}
  ChainBlocks = {"a", "b", "c"}
  FirstBlock = "a"
  ParentOf <- MCParentOf
  BlockAt <- MCBlockAt
  FinalBlockOf <- MCFinalBlockOf
  Witnesses = {"u", "v"}
  WitnessOn <- MCWitnessOn
  WitnessAt <- MCWitnessAt
  ORPHAN_DISTANCE = {2, 3, 4, 5}
  OrphanCapacity = 2
  NoTask = NoTask
SPECIFICATION ValidationSpec
INVARIANT OrphansLackTheirBlock
CHECK_DEADLOCK FALSE

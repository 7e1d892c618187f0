CONSTANTS
  ManagedBlocks = {"g", "a", "b", "x", "d"}
  RootBlock = "g"
  ParentBlock <- MCParentBlock
  HeightOf <- MCHeightOf
  NewChunks <- MCNewChunks
  ManagedChunks = {"cx", "cd"}
  ChunkOn <- MCChunkOn
  ChunkAt <- MCChunkAt
  ChunkIn <- MCChunkIn
  CaredShards = {0}
  Fault <- MCFault
  OtherEpoch = {}
  PartOrds = {0, 1}
  OwnParts = {0}
  NUM_DATA_PARTS = 2
  HEIGHT_HORIZON = 1
  HEIGHTS_AHEAD = 2
SPECIFICATION ManagerSpec
INVARIANT WaitedForChunksAreCompleted
CHECK_DEADLOCK FALSE

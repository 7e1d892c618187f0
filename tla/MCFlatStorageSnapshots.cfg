SPECIFICATION FlatSpec
CONSTANTS
  FlatBlocks <- MCFlatBlocks
  Start = "g"
  PrevBlock <- MCPrevBlock
  FlatHeight <- MCFlatHeight
  LastFinalBlock <- MCLastFinalBlock
  ChunkPrevHash <- MCChunkPrevHash
  Changed <- MCChanged
  Keys = {"j", "k"}
  SyncPrevBlocks = {"d", "x"}
  MaxRequests = 2
  Nil = Nil
INVARIANT SnapshotsReachTheirHead
CHECK_DEADLOCK FALSE

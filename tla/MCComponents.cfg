CONSTANTS
  OrphanBlocks <- MCOrphanBlocks
  Hashes <- MCHashes
  Height <- MCHeight
  Prev <- MCPrev
  MAX_ORPHAN_SIZE = 2
  MAX_ORPHAN_AGE = 2
  MAX_ORPHAN_MISSING_CHUNKS = 1
  NUM_ORPHAN_ANCESTORS_CHECK = 3
  MaxPoolTime = 3
  MaxListed = 3
  ChunkedBlocks <- MCChunkedBlocks
  Chunks <- MCChunks
  ChunksOf <- MCChunksOf
  ChunkedHeight <- MCChunkedHeight
  MAX_BLOCKS_MISSING_CHUNKS = 3
  NoOpt = NoOpt
  OptBlocks <- MCOptBlocks
  OptChunks <- MCOptChunks
  Shards = {"s0", "s1"}
  FinalHeights = {1, 2, 3}
  PrevHashes = {"g", "f"}
  OptHeight <- MCOptHeight
  PrevOf <- MCPrevOf
  ShardOf <- MCShardOf
  HeightCreated <- MCHeightCreated
  None = None
  Accounts <- MCAccounts
  Blocks <- MCParents
  Genesis = "g"
  BlockHeight <- MCParentHeight
  Approvers <- MCApprovers
  StakeThisEpoch <- MCStakeThisEpoch
  StakeNextEpoch <- MCStakeNextEpoch
  Targets = {2, 3}
  MaxTime = 2
  MAX_HEIGHTS_AHEAD_TO_STORE_APPROVALS = 2
  MAX_HEIGHTS_BEFORE_TO_STORE_APPROVALS = 1
  FlatBlocks <- FBlocks
  Start = "g"
  PrevBlock <- FPrev
  FlatHeight <- FHeight
  LastFinalBlock <- FLastFinal
  ChunkPrevHash <- FChunkPrevHash
  Changed <- FChanged
  Keys = {"j", "k"}
  SyncPrevBlocks = {"d", "x"}
  MaxRequests = 2
  Nil = None
SPECIFICATION ComponentsSpec
INVARIANTS OrphanInv MCPInv OptimisticPoolIsSound
INVARIANTS FlatReadsAreRight FlatHeadGetsUnlocked EpochStatisticsAreRight
INVARIANTS WitnessesGoOutOnce OrphansLackTheirBlock
INVARIANTS TrackersAreCurrent ReadyIsConsidered
PROPERTIES EvictsFromTheTop RefinesMissingChunksSpec
CHECK_DEADLOCK FALSE

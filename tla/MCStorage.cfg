CONSTANTS
  StoreBlocks <- MCBlocks
  Produced <- MCProduced
  Root = "g0"
  Parent <- MCParent
  HeightOf <- MCHeightOf
  LastFinalOf <- MCLastFinalOf
  EpochFirst <- MCEpochFirst
  ShardIds = {"s0", "s1"}
  TrackedAt <- MCTrackedAt
  ChunkHeightAt <- MCChunkHeightAt
  TrieNodes = {"n0", "n1", "n2"}
  StateAfter <- MCStateAfter
  GC_NUM_EPOCHS_TO_KEEP = 3
  GC_BLOCKS_LIMIT = 2
  GC_FORK_CLEAN_STEP = 3
  MaxProcessing = 2
  ApplyLag = 3
  Nothing = Nothing
SPECIFICATION StoreSpec
INVARIANTS NoStorageError RefcountsCountChildren StoredBlocksAreReadable OneTail TransitionsAreKept ArchiveIsComplete
CHECK_DEADLOCK FALSE

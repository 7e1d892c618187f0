CONSTANTS
  g = g
  u = u
  v = v
  w = w
  y = y
  OrphanBlocks = {u, v, w, y}
  Hashes = {g, u, v, w, y}
  Height <- MCHeight
  Prev <- MCPrev
  MAX_ORPHAN_SIZE = 2
  MAX_ORPHAN_AGE = 2
  MAX_ORPHAN_MISSING_CHUNKS = 1
  NUM_ORPHAN_ANCESTORS_CHECK = 3
  MaxPoolTime = 2
  MaxListed = 3
SPECIFICATION OrphanSpec
INVARIANT PrevHashIdxListsOrphans
CHECK_DEADLOCK FALSE

SPECIFICATION MemorySpec
CONSTANTS
  h1 = h1
  h2 = h2
  l1 = l1
  l2 = l2
  t1 = t1
  t2 = t2
  PAGE_SIZE = 16
  MP_ALIGNMENT = 2
  PoolSize = 3
  NodeSize = 4
  LargeNodeSize = 3
  MaxFailed = 0
  MaxScan = 1
  QuoteMod = 32
  Garbage <- MCGarbage
  Handles <- MCHandles
  LargeBlocks <- MCLargeBlocks
  Sizes <- MCSizes
  MaxBlocks = 3
  Null = Null
  Threads <- MCThreads
SYMMETRY Symmetric
INVARIANTS TypeOK Disjoint QuoteCounts LargeOwned
CHECK_DEADLOCK FALSE

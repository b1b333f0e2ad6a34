SPECIFICATION FairSpec
CONSTANTS
  HEAP_SIZE = 30
  HEAP_MIN_BLOCK_SIZE = 4
  HEAP_MAX_BLOCK_SIZE = 15
  ObjectSizes <- MCObjectSizes
INVARIANTS
  TypeOK
  Tiling
  HeaderInArray
  NothingFreeBefore
  GrayIsPending
  PurgeCursor
PROPERTIES
  PurgeCoalesces
  StoreSpec
  PurgeEnds
CHECK_DEADLOCK FALSE

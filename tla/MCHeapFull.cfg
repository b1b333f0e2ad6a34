SPECIFICATION Spec
CONSTANTS
  HEAP_SIZE = 30
  HEAP_MIN_BLOCK_SIZE = 4
  HEAP_MAX_BLOCK_SIZE = 15
  ObjectSizes <- MCObjectSizes
INVARIANTS
  ExhaustionIsReported
CHECK_DEADLOCK FALSE

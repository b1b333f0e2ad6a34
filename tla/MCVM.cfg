SPECIFICATION Spec
CONSTANTS
  NIL = NIL
  FALSEVALUE = FALSEVALUE
  LUA_NAT_SETMETATABLE = LUA_NAT_SETMETATABLE
  LUA_NAT_TYPE = LUA_NAT_TYPE
  ADD_KEY = ADD_KEY
  one = one
  name1 = name1
  name2 = name2
  name3 = name3
  name4 = name4
  name5 = name5
  Scalars <- MCScalars
  Numbers <- MCNumbers
  STACK_SIZE = 10
  HEAP_OBJECTS = 10
  Proto <- MCProto
  Chunks <- MCChunks
CONSTRAINT SmallFamily
INVARIANTS
  OpenList
  OneUpvaluePerSlot
  NothingLiveFreed
  NoFreedBlockMarked
  TestsCloseUpvalues
PROPERTIES
  CallersUndisturbed
  TestsCloseOwnUpvalues
  MissingResultsAreNil
CHECK_DEADLOCK FALSE

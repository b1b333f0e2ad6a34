SPECIFICATION Spec
CONSTANTS
  NULL = NULL
  order = 4
  Inputs <- Sessions
INVARIANTS
  EveryKeyIsFound
  LeavesAreChained
  ParentsAgree
  Balanced
PROPERTIES
  MapSpec
CHECK_DEADLOCK FALSE

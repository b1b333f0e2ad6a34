SPECIFICATION Spec
CONSTANTS
  NULL = NULL
  order = 4
  Inputs <- DeepSessions
INVARIANTS
  NothingStops
CHECK_DEADLOCK FALSE

SPECIFICATION Spec
CONSTANTS
  NULL = NULL
  order = 4
  Inputs <- SameValueSessions
PROPERTIES
  OtherRecordsKept
CHECK_DEADLOCK FALSE

SPECIFICATION Spec
CONSTANTS
  NIL = NIL
  float = float
  text = text
  v1 = v1
  LLONG_MAX = 7
  Operands <- MCOperands
  Floats <- MCFloats
  Assigned <- MCAssigned
  FillLoops <- MCFillLoops
  TableKeys <- MCTableKeys
  TableValues <- MCTableValues
  LFIELDS_PER_FLUSH = 2
  MaxElements = 3
  MaxEntries = 3
INVARIANTS
  VisitsTheRange
  EachKeyOnce
  ConstructorFills
  FilledIsTraversed
PROPERTIES
  DocumentedSpec
  LoopEnds
  TraversalEnds
CHECK_DEADLOCK FALSE

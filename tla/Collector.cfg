SPECIFICATION FairSpec
CONSTANTS
  NUM_OBJECTS = 3
INVARIANTS
  TypeOK
  NoDanglingReference
  TriColour
  CleanSlate
PROPERTIES
  ReclaimerSpec
  CollectionEnds
CHECK_DEADLOCK FALSE

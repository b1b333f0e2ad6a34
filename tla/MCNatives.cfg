CONSTANTS
  NL = NL
  Chars = {NL, "1", "a", "b", "c"}
  Paths = {"p"}
  Stored <- StoredFiles
  Texts <- TextsWritten
  MAX_LINE_LENGTH = 3
  MaxFiles = 2
  MaxLength = 3
SPECIFICATION Spec
INVARIANTS OuterGetsResults LinesComeBack
CHECK_DEADLOCK FALSE
VIEW Relevant

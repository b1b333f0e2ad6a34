CONSTANTS
  Chunks <- AllChunks
  Formats <- AllFormats
  LONG_SIZE = 3
  BUFFER_SIZE = 300
  NULL = NULL
  NUL = NUL

SPECIFICATION Spec

INVARIANT LoadsWhatWasCompiled
PROPERTY FilesAreLoadedOrTurnedDown

CHECK_DEADLOCK FALSE

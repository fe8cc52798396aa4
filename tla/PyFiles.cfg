CONSTANTS
  f = f
  g = g
  h = h
  a = a
  b = b
  None = None
  Names = {f, g, h}
  Bytes = {a, b}
  Chunks <- MCChunks
  MaxCalls = 4
SPECIFICATION Spec
CHECK_DEADLOCK FALSE
INVARIANTS
  CacheCoherent
  FilesHold
  ReturnsComplete
PROPERTIES
  ImplementsFileLog

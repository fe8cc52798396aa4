CONSTANTS
  f = f
  g = g
  a = a
  b = b
  None = None
  Names = {f, g}
  Bytes = {a, b}
  Contents <- MCContents
  BufferSize = 3
  UseCustomWrite = TRUE
  WriteToFile = TRUE
  UseCustomLine = TRUE
  MaxCalls = 5
SPECIFICATION Spec
CHECK_DEADLOCK FALSE
INVARIANTS
  TypeOK
  WriterInv
  LinesAreFiles
PROPERTIES
  ImplementsCustomLog
  ImplementsDiskLog

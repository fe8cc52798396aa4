CONSTANTS
  x = x
  Newline = Newline
  Bytes = {x, Newline}
  Inputs <- MCInputs
  InputBufferSize = 3
  InitialCapacity = 1
SPECIFICATION FairSpec
INVARIANTS
  TypeOK
  BufferInv
PROPERTIES
  ImplementsLineSource
  ReadsAll

CONSTANTS
  Lines <- MCLines
  StringSize = 2
  MaxSize = 8
  Junk = Junk
SPECIFICATION Spec
CHECK_DEADLOCK FALSE
INVARIANTS
  Fits
  Recognised
  LineDecoded
  EndedLinesAreUtf8
  LengthWithin

CONSTANTS
  Chars <- MCChars
  Lines <- MCLines
  DateColumns = {2}
SPECIFICATION Spec
CHECK_DEADLOCK FALSE
INVARIANTS
  TypeOK
  InPlace
  FieldsRead
  RowReadsBack
  DiesOfOneQuote

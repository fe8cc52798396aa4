CONSTANTS
  H = H
  A = A
  AI = AI
  U = U
  B = B
  E = E
  new = new
  old = old
  None = None
  Header = Header
  Forms <- MCForms
  Begins <- MCBegins
  Versions = {new, old}
  Fields <- MCFields
  FirstLines <- MCFirst
  InputLines <- MCLines
  IncludeFilingId = TRUE
  Continues <- F99UpToSeven
SPECIFICATION FairSpec
CHECK_DEADLOCK FALSE
INVARIANTS
  TypeOK
  CacheTrue
  RowsMatchHeader
  RowsKeepPrefix
  RowsWhole
  LinesAreFiles
  LinesHandled
  TextQuoted
PROPERTIES
  ParseEnds

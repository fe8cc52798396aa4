CONSTANTS
  H = H
  A = A
  AI = AI
  U = U
  B = B
  E = E
  new = new
  old = old
  None = None
  Header = Header
  Forms <- MCForms
  Begins <- MCBegins
  Versions = {new, old}
  Fields <- MCFields
  FirstLines <- Plain
  InputLines <- RowLines
  IncludeFilingId = FALSE
  Continues <- UpToFour
SPECIFICATION Spec
CHECK_DEADLOCK FALSE
INVARIANTS
  RowsEnded

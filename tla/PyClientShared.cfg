CONSTANTS
  g1 = g1
  g2 = g2
  A = A
  B = B
  None = None
  Gens = {g1, g2}
  Forms = {A, B}
  Filings <- MCPairs
SPECIFICATION Spec
CHECK_DEADLOCK FALSE
INVARIANTS
  RowsAreOwn

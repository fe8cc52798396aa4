CONSTANTS
  g1 = g1
  g2 = g2
  A = A
  B = B
  None = None
  Gens = {g1, g2}
  Forms = {A, B}
  Filings <- MCFilings
SPECIFICATION FairSpec
CHECK_DEADLOCK FALSE
INVARIANTS
  TypeOK
  Handshake
  SingleThreaded
  RowsInOrder
PROPERTIES
  NoUseAfterFree
  NextReturns

CONSTANTS
  num = num
  file = file
  bare = bare
  seven = seven
  dir = dir
  dirSlash = dirSlash
  empty = empty
  slash = slash
  other = other
  None = None
  Default = Default
  Texts <- MCTexts
  Numeric = {num, seven}
  NumberOf <- MCNumberOf
  WithSeparators <- MCSeparators
  FlagLists <- MCFlagLists
  TextLists <- MCTextLists
  Junks <- MCJunks
SPECIFICATION Spec
CHECK_DEADLOCK FALSE
INVARIANTS
  
  StoredBeforeUse

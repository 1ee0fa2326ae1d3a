CONSTANTS
  NPROC = 3
  List = {l1, l2}
SPECIFICATION PartsSpec
VIEW PartsView
INVARIANTS
  ListsRepresented
  PagesExact
  LocksSafe
  InputReadable
  NoStuckModifier
  TrueDate
  LinesCarriedOut
  ParsesAsGrammar
  HeapSound
  PrintsMatches
  
PROPERTY Edits
CHECK_DEADLOCK FALSE

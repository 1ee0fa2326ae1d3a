SPECIFICATION Spec
CONSTANTS
  p1 = p1
  p2 = p2
  g1 = g1
  None = None
  Proc = {p1, p2}
  Page = {g1}
  Value = {0, 1}
  Messages <- MCMessages
  PIPESIZE = 2
  WRAP = 4
  NFILE = 2
  NOFILE = 2
INVARIANTS
  FilesExact
  PipesSafe
  
PROPERTY InOrder
SYMMETRY Perms
CHECK_DEADLOCK FALSE

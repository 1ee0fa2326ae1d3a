CONSTANTS
  Proc = {p1, p2, p3}
  Block = {b1, b2, b3}
  NoBlock = none
  Value = {v1}
  MAXOPBLOCKS = 1
  LOGSIZE = 3
  LogBlocks = 3
  OpBlocks = 1
  MaxCrash = 0
SPECIFICATION Spec
INVARIANT NoLogPanic

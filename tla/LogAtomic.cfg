CONSTANTS
  Proc = {p1, p2, p3}
  Block = {b1, b2}
  NoBlock = none
  Value = {v1, v2}
  MAXOPBLOCKS = 2
  LOGSIZE = 4
  LogBlocks = 4
  OpBlocks = 2
  MaxCrash = 2
SPECIFICATION Spec
SYMMETRY Perms
INVARIANTS
  Durable
PROPERTY CrashAtomic

CONSTANTS
  Proc = {p1, p2, p3}
  Block = {b1, b2, b3}
  NoBlock = none
  Value = {v1}
  MAXOPBLOCKS = 2
  LOGSIZE = 4
  LogBlocks = 4
  OpBlocks = 1
  MaxCrash = 1
SPECIFICATION BothFairSpec
 
PROPERTIES
  WaiterWoken
  CommitEnds
  SleepEnds

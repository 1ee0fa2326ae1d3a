CONSTANTS
  p1 = p1
  p2 = p2
  Proc = {p1, p2}
  Name <- MCName
  Requests <- MCRequests
  NINODES = 3
  NINODE = 3
  MaxLeak = 1
INIT FsInit
NEXT FsNext
INVARIANTS
  CacheExact
  
  NobodyStuck
  BlocksExact
  FilesReadBack
  
CHECK_DEADLOCK FALSE

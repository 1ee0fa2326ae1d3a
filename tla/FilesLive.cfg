SPECIFICATION FairSpec
CONSTANTS
  p1 = p1
  p2 = p2
  g1 = g1
  None = None
  Proc = {p1, p2}
  Page = {g1}
  Value = {0}
  Messages <- LongMessage
  PIPESIZE = 1
  WRAP = 2
  NFILE = 2
  NOFILE = 2
PROPERTIES CallsEnd PagesReturned
CHECK_DEADLOCK FALSE

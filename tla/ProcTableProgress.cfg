CONSTANTS
  NPROC = 2
  NCPU = 1
  MAXPRIO = 1
  BUDGET = 1
  TICKS_TO_PROMOTE = 1
  SCHED_INTERVAL = 1
  TickMod = 2
  SleepArgs <- ShortNaps
  Syscalls = {"fork", "exit", "wait", "kill", "sleep"}
SPECIFICATION FairSpec
PROPERTIES
  RunnableRuns
  KilledExits
  WaitReturns

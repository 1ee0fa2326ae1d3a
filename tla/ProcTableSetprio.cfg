CONSTANTS
  NPROC = 2
  NCPU = 1
  MAXPRIO = 1
  BUDGET = 2
  TICKS_TO_PROMOTE = 2
  SCHED_INTERVAL = 1
  TickMod = 4
  SleepArgs <- NoArgs
  Syscalls = {"fork", "exit", "wait", "setpriority"}
SPECIFICATION Spec
INVARIANT NoListPanic

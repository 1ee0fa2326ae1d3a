CONSTANTS
  NPROC = 3
  NCPU = 2
  MAXPRIO = 0
  BUDGET = 1
  TICKS_TO_PROMOTE = 1
  SCHED_INTERVAL = 1
  TickMod = 2
  SleepArgs <- NoArgs
  Syscalls = {"fork", "exit", "wait", "kill", "setpriority"}
SPECIFICATION Spec
INVARIANTS
  ListsSound
  ParentAlive
  WaitSound
  EmbryoOwned

CONSTANTS
  NPROC = 2
  NCPU = 1
  MAXPRIO = 2
  BUDGET = 2
  TICKS_TO_PROMOTE = 2
  SCHED_INTERVAL = 1
  TickMod = 4
  SleepArgs <- ShortNaps
  Syscalls = {"fork", "exit", "wait", "kill", "sleep", "io", "fault"}
SPECIFICATION Spec
INVARIANTS
  QueuesSound

--------------------------- MODULE ProcTableSteps ---------------------------
(***************************************************************************)
(* The invariant of the process table is preserved by the operations that  *)
(* end a process's turn on its CPU, or leave the lists alone: yield(),     *)
(* sleep(), exit(), wait() and the steps around them.                      *)
(***************************************************************************)
EXTENDS ProcTableLemmas

(* The steps of a system call that move only the process itself.           *)
LEMMA LocalStepsInv ==
  ASSUME Inv, NEW c \in CPU,
         SysWait(c) \/ SysSleep(c) \/ SleepCheck(c) \/ IoEnter(c) \/ IoReturn(c)
  PROVE  Inv'
<1> DEFINE p == cur[c]
<1>1. /\ p # NoProc /\ lock # c
      /\ kpc[p] \in {"user", "slpchk", "io"}
      /\ UNCHANGED <<lists, state, parent, killed, chan, mlfq, ticks, lock, crit,
                     wch, cur, irq, child, panicked>>
  BY DEF SysWait, SysSleep, SleepCheck, IoEnter, IoReturn, Calls, At
<1>2. p \in Proc
  BY <1>1, CurRuns
<1>3. \E k \in {"user", "wait", "slpchk", "slpgo", "io"} :
        kpc' = [kpc EXCEPT ![p] = k]
  BY DEF SysWait, SysSleep, SleepCheck, IoEnter, IoReturn
<1>4. nap' \in [Proc -> [t0 : Tick, n : Nat]]
  <2>1. nap \in [Proc -> [t0 : Tick, n : Nat]] /\ ticks \in Tick
    BY DEF Inv, TypeOK
  <2>2. CASE SysSleep(c)
    <3>1. PICK n \in SleepArgs : nap' = [nap EXCEPT ![p] = [t0 |-> ticks, n |-> n]]
      BY <2>2 DEF SysSleep
    <3>2. [t0 |-> ticks, n |-> n] \in [t0 : Tick, n : Nat]
      BY <2>1, ConstantsAssumption
    <3> QED BY <1>2, <2>1, <3>1, <3>2
  <2>3. CASE SleepCheck(c)
    <3>1. nap' = nap \/ nap' = [nap EXCEPT ![p] = NoNap]
      BY <2>3 DEF SleepCheck
    <3>2. NoNap \in [t0 : Tick, n : Nat]
      BY TickRange DEF NoNap
    <3> QED BY <1>2, <2>1, <3>1, <3>2
  <2>4. CASE SysWait(c) \/ IoEnter(c) \/ IoReturn(c)
    BY <2>1, <2>4 DEF SysWait, IoEnter, IoReturn
  <2> QED BY <2>2, <2>3, <2>4
<1>5. PICK k \in KernelPoint \ Forking : kpc' = [kpc EXCEPT ![p] = k]
  BY <1>3 DEF KernelPoint, Forking
<1>6. TypeOK'
  BY <1>1, <1>2, <1>4, <1>5 DEF Inv, TypeOK, lists, mlfq
<1>7. kpc[p] \notin Forking
  BY <1>1 DEF Forking
<1> QED
  BY <1>1, <1>5, <1>6, <1>7, LocalInv DEF mlfq

(* SysExit and KilledExit: init panics, any other process leaves for good. *)
LEMMA ExitEnterInv ==
  ASSUME Inv, NEW c \in CPU, SysExit(c) \/ KilledExit(c)
  PROVE  Inv'
<1> DEFINE p == cur[c]
<1>1. /\ p # NoProc /\ lock # c /\ kpc[p] = "user" /\ ExitEnter(c)
  BY DEF SysExit, KilledExit, Calls, At
<1>2. CASE p = initproc
  BY <1>1, <1>2, PanicInv DEF ExitEnter
<1>3. CASE p # initproc
  <2>1. /\ kpc' = [kpc EXCEPT ![p] = "exiting"]
        /\ irq' = IF c = BootCPU THEN "none" ELSE irq
        /\ UNCHANGED <<lists, state, parent, killed, chan, mlfq, ticks, lock,
                       crit, wch, cur, child, nap, panicked>>
    BY <1>1, <1>3 DEF ExitEnter
  <2>2. "exiting" \in KernelPoint \ Forking /\ kpc[p] \notin Forking
    BY <1>1 DEF KernelPoint, Forking
  <2>3. p \in Proc
    BY <1>1, CurRuns
  <2>4. TypeOK'
    BY <2>1, <2>2, <2>3 DEF Inv, TypeOK, lists, mlfq
  <2> QED BY <1>1, <2>1, <2>2, <2>4, LocalInv DEF mlfq
<1> QED
  BY <1>2, <1>3

(* The clock, the start and the end of a critical section.                 *)
LEMMA LockStepsInv ==
  ASSUME Inv, NEW c \in CPU,
         \/ TimerTick \/ TimerWakeup \/ IoWakeup(c)
         \/ WakeupEnd(c) \/ SchedulerIdle(c) \/ ExitLock(c) \/ WaitLock(c)
  PROVE  Inv'
<1>1. UNCHANGED <<lists, state, parent, killed, chan, mlfq, cur, locals, panicked>>
  BY DEF TimerTick, TimerWakeup, IoWakeup, WakeupBegin, WakeupEnd, SchedulerIdle,
         ExitLock, WaitLock
<1>2. ticks' \in Tick
  <2>1. ticks \in Tick /\ ticks + 1 \in Int
    BY TickRange DEF Inv, TypeOK
  <2> QED BY <2>1, TickRange
          DEF TimerTick, TimerWakeup, IoWakeup, WakeupBegin, WakeupEnd,
              SchedulerIdle, ExitLock, WaitLock
<1>3. irq' \in {"none", "wake", "yield"}
  BY DEF Inv, TypeOK, TimerTick, TimerWakeup, IoWakeup, WakeupBegin, WakeupEnd,
         SchedulerIdle, ExitLock, WaitLock
<1>4. wch' \in Chan
  <2>1. ASSUME ExitLock(c) PROVE wch' \in Chan
    <3>1. wch' = parent[cur[c]] /\ cur[c] \in Proc
      BY <2>1, CurRuns DEF ExitLock, At
    <3>2. parent[cur[c]] \in Proc \cup {NoProc}
      BY <3>1 DEF Inv, TypeOK
    <3> QED BY <3>1, <3>2, ConstantsAssumption DEF Chan, Proc, NoProc
  <2>2. NoChan \in Chan /\ TicksChan \in Chan /\ IoChan \in Chan
    BY ConstantsAssumption DEF Chan, NoChan, TicksChan, IoChan
  <2> QED BY <2>1, <2>2
          DEF Inv, TypeOK, TimerTick, TimerWakeup, IoWakeup, WakeupBegin,
              WakeupEnd, SchedulerIdle, WaitLock
<1>5. BootCPU \in CPU /\ NoCPU \notin CPU
  BY ConstantsAssumption DEF BootCPU, CPU, NoCPU
<1>6. \/ lock' = lock /\ crit' = crit
      \/ lock' = NoCPU /\ crit' = "none"
      \/ lock' \in CPU /\ crit' = "wakeup"
      \/ lock' = c /\ crit' = "exit_parent" /\ At(c, "exiting")
      \/ lock' = c /\ crit' = "wait" /\ At(c, "wait")
  BY <1>5 DEF TimerTick, TimerWakeup, IoWakeup, WakeupBegin, WakeupEnd,
              SchedulerIdle, ExitLock, WaitLock, Acquire, Release
<1>7. TypeOK'
  BY <1>1, <1>2, <1>3, <1>4, <1>6 DEF Inv, TypeOK, Critical, lists, mlfq, locals
<1>8. HolderOK'
  BY <1>1, <1>5, <1>6 DEF Inv, HolderOK, At, locals
<1> QED
  BY <1>1, <1>7, <1>8, FrameInv DEF mlfq, locals

(* The process picked takes over the lock from scheduler().                *)
LEMMA ResumeInv ==
  ASSUME Inv, NEW c \in CPU, Resume(c)
  PROVE  Inv'
<1> DEFINE p == cur[c]
<1>1. /\ lock = c /\ crit = "resume"
      /\ chan' = [chan EXCEPT ![p] = NoChan]
      /\ UNCHANGED <<lists, state, parent, killed, mlfq, ticks, wch, cur, irq,
                     locals, panicked>>
  BY DEF Resume, Holds
<1>2. \/ kpc[p] = "waitslp" /\ crit' = "wait" /\ lock' = lock
      \/ lock' = NoCPU /\ crit' = "none"
  BY DEF Resume, Release
<1>3. p # NoProc /\ p \in Proc
  BY <1>1, CurRuns DEF Inv, HolderOK
<1>4. NoChan \in Chan /\ NoCPU \notin CPU
  BY ConstantsAssumption DEF Chan, NoChan, CPU, NoCPU
<1>5. TypeOK'
  BY <1>1, <1>2, <1>3, <1>4 DEF Inv, TypeOK, Critical, lists, mlfq, locals
<1>6. HolderOK'
  BY <1>1, <1>2, <1>3, <1>4 DEF Inv, HolderOK, locals
<1> QED
  BY <1>1, <1>5, <1>6, FrameInv DEF mlfq, locals

(* exit() passes its children to init.                                     *)
LEMMA ExitReparentInv ==
  ASSUME Inv, NEW c \in CPU, ExitReparent(c)
  PROVE  Inv'
<1> DEFINE p == cur[c]
<1>1. /\ lock = c /\ crit = "exit_parent"
      /\ parent' = [q \in Proc |-> NewParent(p, q)]
      /\ wch' = InitToWake(p)
      /\ crit' = "exit_init"
      /\ UNCHANGED <<lists, state, killed, chan, mlfq, ticks, lock, cur, irq,
                     locals, panicked>>
  BY DEF ExitReparent, Holds
<1>2. initproc \in Proc /\ initproc \in Chan /\ NoChan \in Chan
  BY ConstantsAssumption DEF initproc, Proc, Chan, NoChan
<1>3. parent' \in [Proc -> Proc \cup {NoProc}]
  BY <1>1, <1>2 DEF Inv, TypeOK, NewParent
<1>4. wch' \in Chan
  BY <1>1, <1>2 DEF InitToWake
<1>5. TypeOK'
  BY <1>1, <1>3, <1>4 DEF Inv, TypeOK, Critical, lists, mlfq, locals
<1>6. HolderOK'
  BY <1>1 DEF Inv, HolderOK, locals
<1> QED
  BY <1>1, <1>5, <1>6, FrameInv DEF mlfq, locals

(* wait() gives up: no child, or the caller was killed.                    *)
LEMMA WaitReturnInv ==
  ASSUME Inv, NEW c \in CPU, WaitReturn(c)
  PROVE  Inv'
<1> DEFINE p == cur[c]
<1>1. /\ lock = c /\ crit = "wait"
      /\ kpc' = [kpc EXCEPT ![p] = "user"]
      /\ lock' = NoCPU /\ crit' = "none"
      /\ UNCHANGED <<lists, state, parent, killed, chan, mlfq, ticks, wch, cur,
                     irq, child, nap, panicked>>
  BY DEF WaitReturn, Holds, Release
<1>2. /\ p \in Proc /\ state[p] = "RUNNING"
      /\ kpc[p] \in {"wait", "waitslp"}
  BY <1>1, CurRuns DEF Inv, HolderOK
<1>3. TypeOK'
  BY <1>1, <1>2 DEF Inv, TypeOK, Critical, KernelPoint, lists, mlfq
<1>4. ListsMatchState' /\ RunningOnOneCpu'
  BY <1>1 DEF Inv, ListsMatchState, IsListOf, AreReadyLists, RunningOnOneCpu, lists
<1>5. ReadyMatchesPriority' /\ NoListPanic'
  BY <1>1 DEF Inv, ReadyMatchesPriority, NoListPanic, lists, mlfq
<1>6. \A q \in Proc : kpc'[q] = IF q = p THEN "user" ELSE kpc[q]
  BY <1>1 DEF Inv, TypeOK
<1>7. ForkOK'
  <2>1. "user" \notin Forking
    BY DEF Forking
  <2>2. \A q \in Proc : kpc'[q] \in Forking => kpc[q] \in Forking
    BY <1>6, <2>1
  <2>3. ASSUME NEW q \in Proc
        PROVE  /\ state'[q] \in {"UNUSED", "EMBRYO"} => kpc'[q] = "user"
               /\ state'[q] = "ZOMBIE" => kpc'[q] = "exiting"
               /\ state'[q] = "SLEEPING" => kpc'[q] \notin Forking
               /\ kpc'[q] \in Forking =>
                    child'[q] \in Proc /\ state'[child'[q]] = "EMBRYO"
    <3>1. /\ state[q] \in {"UNUSED", "EMBRYO"} => kpc[q] = "user"
          /\ state[q] = "ZOMBIE" => kpc[q] = "exiting"
          /\ state[q] = "SLEEPING" => kpc[q] \notin Forking
          /\ kpc[q] \in Forking => child[q] \in Proc /\ state[child[q]] = "EMBRYO"
      BY DEF Inv, ForkOK
    <3> QED BY <1>1, <1>2, <1>6, <2>2, <3>1
  <2>4. ASSUME NEW q \in Proc, NEW r \in Proc, kpc'[q] \in Forking,
               kpc'[r] \in Forking, child'[q] = child'[r]
        PROVE  q = r
    BY <1>1, <2>2, <2>4 DEF Inv, ForkOK
  <2> QED BY <2>3, <2>4 DEF ForkOK
<1>8. HolderOK'
  BY <1>1 DEF HolderOK
<1> QED
  BY <1>3, <1>4, <1>5, <1>7, <1>8 DEF Inv

(* A fault sets proc->killed and nothing else.                             *)
LEMMA UserFaultInv ==
  ASSUME Inv, NEW c \in CPU, UserFault(c)
  PROVE  Inv'
<1>1. /\ killed' = [killed EXCEPT ![cur[c]] = TRUE]
      /\ UNCHANGED <<lists, state, parent, chan, mlfq, ticks, lock, crit, wch,
                     cur, irq, locals, panicked>>
  BY DEF UserFault
<1>2. TypeOK'
  BY <1>1 DEF Inv, TypeOK, lists, mlfq, locals
<1>3. ListsMatchState' /\ RunningOnOneCpu'
  BY <1>1 DEF Inv, ListsMatchState, IsListOf, AreReadyLists, RunningOnOneCpu, lists
<1>4. ReadyMatchesPriority'
  <2>1. \A i \in Prio : Range(ready[i]) \subseteq Proc
    BY RangeSubset DEF Inv, TypeOK
  <2>2. \A q \in Proc : killed[q] => killed'[q]
    BY <1>1 DEF Inv, TypeOK
  <2> QED BY <1>1, <2>1, <2>2 DEF Inv, ReadyMatchesPriority, lists, mlfq
<1>5. NoListPanic' /\ HolderOK' /\ ForkOK'
  BY <1>1 DEF Inv, NoListPanic, HolderOK, ForkOK, locals
<1> QED
  BY <1>2, <1>3, <1>4, <1>5 DEF Inv

(* sleep(), from any of its callers.                                       *)
LEMMA GoToSleepInv ==
  ASSUME Inv, NEW c \in CPU, cur[c] # NoProc, NEW ch \in Chan,
         NEW k \in KernelPoint \ Forking, GoToSleep(c, ch, k)
  PROVE  Inv'
<1> DEFINE p == cur[c]
<1>1. p \in Proc /\ state[p] = "RUNNING" /\ p \in Range(running)
  BY CurRuns
<1>2. /\ chan' = [chan EXCEPT ![p] = ch]
      /\ running' = stateListRemove(running, p)
      /\ state' = [state EXCEPT ![p] = "SLEEPING"]
      /\ sleep' = stateListAdd(sleep, p)
      /\ kpc' = [kpc EXCEPT ![p] = k]
      /\ Sched(c, p)
      /\ lock' = NoCPU /\ crit' = "none"
      /\ UNCHANGED <<free, embryo, ready, zombie, parent, killed, ticks, wch,
                     irq, child, nap, panicked>>
  BY <1>1 DEF GoToSleep, Release
<1>3. /\ {free, embryo, running, sleep, zombie} \subseteq Seq(Proc)
      /\ running' \in Seq(Proc) /\ state' \in [Proc -> State]
      /\ priority' \in [Proc -> Prio] /\ budget' \in [Proc -> Int]
      /\ cpu_ticks_in' \in [Proc -> Tick] /\ PromoteAtTime' \in Tick
      /\ cur' \in [CPU -> Proc \cup {NoProc}]
      /\ IsListOf(free', state', "UNUSED")
      /\ IsListOf(embryo', state', "EMBRYO")
      /\ IsListOf(running', state', "RUNNING")
      /\ RunningOnOneCpu'
      /\ \A q \in Proc \ {p} : priority'[q] = priority[q]
  BY <1>2, SchedOut
<1>4. /\ state \in [Proc -> State] /\ sleep \in Seq(Proc)
      /\ IsListOf(sleep, state, "SLEEPING")
      /\ IsListOf(zombie, state, "ZOMBIE")
      /\ AreReadyLists(ready, state)
      /\ {"SLEEPING", "ZOMBIE", "RUNNABLE"} \subseteq State
  BY DEF Inv, TypeOK, ListsMatchState, State
<1>5. sleep' \in Seq(Proc) /\ IsListOf(sleep', state', "SLEEPING")
  BY <1>1, <1>2, <1>4, ListAdd
<1>6. IsListOf(zombie', state', "ZOMBIE")
  BY <1>1, <1>2, <1>4, ListKept
<1>7. AreReadyLists(ready', state')
  BY <1>1, <1>2, <1>4, ReadyKept
<1>8. ListsMatchState'
  BY <1>3, <1>5, <1>6, <1>7 DEF ListsMatchState
<1>9. TypeOK'
  <2>1. {free, embryo, running, sleep, zombie}' \subseteq Seq(Proc)
    BY <1>2, <1>3, <1>5
  <2>2. ready' \in [Prio -> Seq(Proc)]
    BY <1>2 DEF Inv, TypeOK
  <2>3. /\ state' \in [Proc -> State]
        /\ priority' \in [Proc -> Prio] /\ budget' \in [Proc -> Int]
        /\ cpu_ticks_in' \in [Proc -> Tick] /\ PromoteAtTime' \in Tick
        /\ cur' \in [CPU -> Proc \cup {NoProc}]
    BY <1>3
  <2>4. chan' \in [Proc -> Chan] /\ kpc' \in [Proc -> KernelPoint]
    BY <1>1, <1>2 DEF Inv, TypeOK
  <2>5. /\ parent' \in [Proc -> Proc \cup {NoProc}]
        /\ killed' \in [Proc -> BOOLEAN]
        /\ child' \in [Proc -> Proc \cup {NoProc}]
        /\ nap' \in [Proc -> [t0 : Tick, n : Nat]]
    BY <1>2 DEF Inv, TypeOK
  <2>6. /\ ticks' \in Tick /\ lock' \in CPU \cup {NoCPU} /\ crit' \in Critical
        /\ wch' \in Chan /\ irq' \in {"none", "wake", "yield"} /\ panicked' \in Message
    BY <1>2 DEF Inv, TypeOK, Critical
  <2> QED BY <2>1, <2>2, <2>3, <2>4, <2>5, <2>6 DEF TypeOK
<1>10. ReadyMatchesPriority'
  BY <1>1, <1>2, <1>3, ReadyPrioKept
<1>11. ForkOK'
  <2>1. /\ \A q \in Proc \ {p} : kpc'[q] = kpc[q]
        /\ kpc'[p] \notin Forking
        /\ child' = child
    BY <1>1, <1>2 DEF Inv, TypeOK
  <2>2. /\ "SLEEPING" \in Alive \cup {"ZOMBIE"}
        /\ "SLEEPING" # "ZOMBIE" /\ state[p] # "EMBRYO"
    BY <1>1 DEF Alive
  <2> QED BY <1>1, <1>2, <2>1, <2>2, ForkKept, Zenon
<1>12. HolderOK' /\ NoListPanic'
  BY <1>2 DEF Inv, HolderOK, NoListPanic
<1> QED
  BY <1>3, <1>8, <1>9, <1>10, <1>11, <1>12 DEF Inv

LEMMA SleepStepsInv ==
  ASSUME Inv, NEW c \in CPU, WaitSleep(c) \/ SleepTicks(c) \/ IoSleep(c)
  PROVE  Inv'
<1>1. {"waitslp", "slpchk", "io", "exiting"} \subseteq KernelPoint \ Forking
  BY DEF KernelPoint, Forking
<1>2. TicksChan \in Chan /\ IoChan \in Chan /\ Proc \subseteq Chan
  BY ConstantsAssumption DEF Chan, TicksChan, IoChan, Proc
<1>3. CASE WaitSleep(c)
  <2>1. cur[c] # NoProc /\ GoToSleep(c, cur[c], "waitslp")
    BY <1>3 DEF WaitSleep, Holds, Inv, HolderOK
  <2>2. cur[c] \in Chan
    BY <1>2, <2>1, CurRuns
  <2> QED BY <1>1, <2>1, <2>2, GoToSleepInv
<1>4. CASE SleepTicks(c)
  BY <1>1, <1>2, <1>4, GoToSleepInv DEF SleepTicks, At
<1>5. CASE IoSleep(c)
  <2>1. PICK k \in {"io", "exiting"} : At(c, k) /\ GoToSleep(c, IoChan, k)
    BY <1>5 DEF IoSleep
  <2> QED BY <1>1, <1>2, <2>1, GoToSleepInv DEF At
<1> QED
  BY <1>3, <1>4, <1>5

(* yield(): the process goes to the ready list of its new priority.        *)
LEMMA YieldInv ==
  ASSUME Inv, NEW c \in CPU, Yield(c)
  PROVE  Inv'
<1> DEFINE p == cur[c]
           i == NextPriority(p)
<1>0. p # NoProc /\ lock = NoCPU
  BY DEF Yield
<1>1. p \in Proc /\ state[p] = "RUNNING" /\ p \in Range(running)
  BY <1>0, CurRuns
<1>2. /\ running' = stateListRemove(running, p)
      /\ state' = [state EXCEPT ![p] = "RUNNABLE"]
      /\ ready' = [ready EXCEPT ![i] = stateListAdd(@, p)]
      /\ Sched(c, p)
      /\ irq' = IF c = BootCPU THEN "none" ELSE irq
      /\ UNCHANGED <<free, embryo, sleep, zombie, parent, killed, chan,
                     ticks, lock, crit, wch, locals, panicked>>
  BY <1>1 DEF Yield
<1>3. /\ {free, embryo, running, sleep, zombie} \subseteq Seq(Proc)
      /\ running' \in Seq(Proc) /\ state' \in [Proc -> State]
      /\ priority' \in [Proc -> Prio] /\ budget' \in [Proc -> Int]
      /\ cpu_ticks_in' \in [Proc -> Tick] /\ PromoteAtTime' \in Tick
      /\ cur' \in [CPU -> Proc \cup {NoProc}]
      /\ IsListOf(free', state', "UNUSED")
      /\ IsListOf(embryo', state', "EMBRYO")
      /\ IsListOf(running', state', "RUNNING")
      /\ RunningOnOneCpu'
      /\ priority'[p] = i /\ i \in Prio
      /\ \A q \in Proc \ {p} : priority'[q] = priority[q]
  BY <1>0, <1>2, SchedOut
<1>4. /\ state \in [Proc -> State] /\ ready \in [Prio -> Seq(Proc)]
      /\ IsListOf(sleep, state, "SLEEPING")
      /\ IsListOf(zombie, state, "ZOMBIE")
      /\ AreReadyLists(ready, state)
      /\ {"SLEEPING", "ZOMBIE", "RUNNABLE"} \subseteq State
  BY DEF Inv, TypeOK, ListsMatchState, State
<1>5. IsListOf(sleep', state', "SLEEPING") /\ IsListOf(zombie', state', "ZOMBIE")
  BY <1>1, <1>2, <1>4, ListKept
<1>6. /\ ready' \in [Prio -> Seq(Proc)]
      /\ AreReadyLists(ready', state')
      /\ ReadyMatchesPriority'
  BY <1>1, <1>2, <1>3, BecomesReady
<1>7. ListsMatchState'
  BY <1>3, <1>5, <1>6 DEF ListsMatchState
<1>8. TypeOK'
  <2>1. {free, embryo, running, sleep, zombie}' \subseteq Seq(Proc)
    BY <1>2, <1>3
  <2>2. ready' \in [Prio -> Seq(Proc)]
    BY <1>6
  <2>3. /\ state' \in [Proc -> State]
        /\ priority' \in [Proc -> Prio] /\ budget' \in [Proc -> Int]
        /\ cpu_ticks_in' \in [Proc -> Tick] /\ PromoteAtTime' \in Tick
        /\ cur' \in [CPU -> Proc \cup {NoProc}]
    BY <1>3
  <2>4. /\ parent' \in [Proc -> Proc \cup {NoProc}]
        /\ killed' \in [Proc -> BOOLEAN]
        /\ chan' \in [Proc -> Chan]
        /\ kpc' \in [Proc -> KernelPoint]
        /\ child' \in [Proc -> Proc \cup {NoProc}]
        /\ nap' \in [Proc -> [t0 : Tick, n : Nat]]
    BY <1>2 DEF Inv, TypeOK, locals
  <2>5. /\ ticks' \in Tick /\ lock' \in CPU \cup {NoCPU} /\ crit' \in Critical
        /\ wch' \in Chan /\ irq' \in {"none", "wake", "yield"} /\ panicked' \in Message
    BY <1>2 DEF Inv, TypeOK
  <2> QED BY <2>1, <2>2, <2>3, <2>4, <2>5 DEF TypeOK
<1>9. ForkOK'
  BY <1>1, <1>2, ForkKept DEF Alive, locals
<1>10. HolderOK' /\ NoListPanic'
  BY <1>0, <1>2 DEF Inv, HolderOK, NoListPanic
<1> QED
  BY <1>3, <1>6, <1>7, <1>8, <1>9, <1>10 DEF Inv

(* exit(): the last step, still under the lock.                            *)
LEMMA ExitZombieInv ==
  ASSUME Inv, NEW c \in CPU, ExitZombie(c)
  PROVE  Inv'
<1> DEFINE p == cur[c]
<1>0. /\ lock = c /\ crit = "exit_init"
      /\ p # NoProc /\ kpc[p] = "exiting"
  BY DEF ExitZombie, Holds, Inv, HolderOK
<1>1. p \in Proc /\ state[p] = "RUNNING" /\ p \in Range(running)
  BY <1>0, CurRuns
<1>2. /\ running' = stateListRemove(running, p)
      /\ state' = [state EXCEPT ![p] = "ZOMBIE"]
      /\ zombie' = stateListAdd(zombie, p)
      /\ Sched(c, p)
      /\ lock' = NoCPU /\ crit' = "none"
      /\ wch' = NoChan
      /\ UNCHANGED <<free, embryo, ready, sleep, parent, killed, chan,
                     ticks, irq, locals, panicked>>
  BY <1>1 DEF ExitZombie, Release
<1>3. /\ {free, embryo, running, sleep, zombie} \subseteq Seq(Proc)
      /\ running' \in Seq(Proc) /\ state' \in [Proc -> State]
      /\ priority' \in [Proc -> Prio] /\ budget' \in [Proc -> Int]
      /\ cpu_ticks_in' \in [Proc -> Tick] /\ PromoteAtTime' \in Tick
      /\ cur' \in [CPU -> Proc \cup {NoProc}]
      /\ IsListOf(free', state', "UNUSED")
      /\ IsListOf(embryo', state', "EMBRYO")
      /\ IsListOf(running', state', "RUNNING")
      /\ RunningOnOneCpu'
      /\ \A q \in Proc \ {p} : priority'[q] = priority[q]
  BY <1>0, <1>2, SchedOut
<1>4. /\ state \in [Proc -> State] /\ zombie \in Seq(Proc)
      /\ IsListOf(sleep, state, "SLEEPING")
      /\ IsListOf(zombie, state, "ZOMBIE")
      /\ AreReadyLists(ready, state)
      /\ {"SLEEPING", "ZOMBIE", "RUNNABLE"} \subseteq State
  BY DEF Inv, TypeOK, ListsMatchState, State
<1>5. zombie' \in Seq(Proc) /\ IsListOf(zombie', state', "ZOMBIE")
  BY <1>1, <1>2, <1>4, ListAdd
<1>6. IsListOf(sleep', state', "SLEEPING")
  BY <1>1, <1>2, <1>4, ListKept
<1>7. AreReadyLists(ready', state')
  BY <1>1, <1>2, <1>4, ReadyKept
<1>8. ListsMatchState'
  BY <1>3, <1>5, <1>6, <1>7 DEF ListsMatchState
<1>9. TypeOK'
  <2>0. NoChan \in Chan
    BY ConstantsAssumption DEF Chan, NoChan
  <2>1. {free, embryo, running, sleep, zombie}' \subseteq Seq(Proc)
    BY <1>2, <1>3, <1>5
  <2>2. ready' \in [Prio -> Seq(Proc)]
    BY <1>2 DEF Inv, TypeOK
  <2>3. /\ state' \in [Proc -> State]
        /\ priority' \in [Proc -> Prio] /\ budget' \in [Proc -> Int]
        /\ cpu_ticks_in' \in [Proc -> Tick] /\ PromoteAtTime' \in Tick
        /\ cur' \in [CPU -> Proc \cup {NoProc}]
    BY <1>3
  <2>4. /\ parent' \in [Proc -> Proc \cup {NoProc}]
        /\ killed' \in [Proc -> BOOLEAN]
        /\ chan' \in [Proc -> Chan]
        /\ kpc' \in [Proc -> KernelPoint]
        /\ child' \in [Proc -> Proc \cup {NoProc}]
        /\ nap' \in [Proc -> [t0 : Tick, n : Nat]]
    BY <1>2 DEF Inv, TypeOK, locals
  <2>5. /\ ticks' \in Tick /\ lock' \in CPU \cup {NoCPU} /\ crit' \in Critical
        /\ wch' \in Chan /\ irq' \in {"none", "wake", "yield"} /\ panicked' \in Message
    BY <1>2, <2>0 DEF Inv, TypeOK, Critical
  <2> QED BY <2>1, <2>2, <2>3, <2>4, <2>5 DEF TypeOK
<1>10. ReadyMatchesPriority'
  BY <1>1, <1>2, <1>3, ReadyPrioKept
<1>11. ForkOK'
  BY <1>0, <1>1, <1>2, ForkKept DEF Alive, Forking, locals
<1>12. HolderOK' /\ NoListPanic'
  BY <1>2 DEF Inv, HolderOK, NoListPanic
<1> QED
  BY <1>3, <1>8, <1>9, <1>10, <1>11, <1>12 DEF Inv

(* wait() frees the first zombie child it finds.                           *)
LEMMA WaitReapInv ==
  ASSUME Inv, NEW c \in CPU, WaitReap(c)
  PROVE  Inv'
<1> DEFINE p == cur[c]
<1>1. /\ lock = c /\ crit = "wait" /\ p # NoProc
      /\ kpc[p] \in {"wait", "waitslp"}
  BY DEF WaitReap, Holds, Inv, HolderOK
<1>2. p \in Proc /\ state[p] = "RUNNING"
  BY <1>1, CurRuns
<1>3. PICK i \in DOMAIN zombie :
        LET z == zombie[i] IN
        IF state[z] # "ZOMBIE"
        THEN Panic("Assert State failure")
        ELSE /\ zombie' = stateListRemove(zombie, z)
             /\ state' = [state EXCEPT ![z] = "UNUSED"]
             /\ parent' = [parent EXCEPT ![z] = NoProc]
             /\ killed' = [killed EXCEPT ![z] = FALSE]
             /\ free' = stateListAdd(free, z)
             /\ kpc' = [kpc EXCEPT ![p] = "user", ![z] = "user"]
             /\ Release
             /\ UNCHANGED <<embryo, ready, running, sleep, chan, mlfq,
                            ticks, wch, cur, irq, child, nap, panicked>>
  BY DEF WaitReap
<1> DEFINE z == zombie[i]
<1>4. z \in Proc /\ state[z] = "ZOMBIE"
  <2>1. z \in Range(zombie) /\ z \in Proc
    BY ListFacts DEF Range
  <2> QED BY <2>1, ListFacts DEF IsListOf
<1> HIDE DEF z
<1>5. /\ zombie' = stateListRemove(zombie, z)
      /\ state' = [state EXCEPT ![z] = "UNUSED"]
      /\ parent' = [parent EXCEPT ![z] = NoProc]
      /\ killed' = [killed EXCEPT ![z] = FALSE]
      /\ free' = stateListAdd(free, z)
      /\ kpc' = [kpc EXCEPT ![p] = "user", ![z] = "user"]
      /\ lock' = NoCPU /\ crit' = "none"
      /\ UNCHANGED <<embryo, ready, running, sleep, chan>>
      /\ UNCHANGED <<priority, budget, cpu_ticks_in, PromoteAtTime, ticks>>
      /\ UNCHANGED <<wch, cur, irq, child, nap, panicked>>
  BY <1>3, <1>4 DEF z, Release, mlfq
<1>6. zombie' \in Seq(Proc) /\ IsListOf(zombie', state', "ZOMBIE")
  <2>1. "UNUSED" # "ZOMBIE"
    OBVIOUS
  <2> QED BY <1>4, <1>5, <2>1, ListFacts, ListRemove, Zenon
<1>7. free' \in Seq(Proc) /\ IsListOf(free', state', "UNUSED")
  BY <1>4, <1>5, ListFacts, ListAdd
<1>8. /\ IsListOf(embryo', state', "EMBRYO")
      /\ IsListOf(running', state', "RUNNING")
      /\ IsListOf(sleep', state', "SLEEPING")
  BY <1>4, <1>5, ListFacts, ListKept
<1>9. AreReadyLists(ready', state')
  BY <1>4, <1>5, ListFacts, ReadyKept
<1>10. ListsMatchState'
  BY <1>6, <1>7, <1>8, <1>9 DEF ListsMatchState
<1>11. TypeOK'
  <2>1. {free, embryo, running, sleep, zombie}' \subseteq Seq(Proc)
    BY <1>5, <1>6, <1>7, ListFacts
  <2>2. state' \in [Proc -> State] /\ ready' \in [Prio -> Seq(Proc)]
    BY <1>5, ListFacts
  <2>3. /\ parent' \in [Proc -> Proc \cup {NoProc}]
        /\ killed' \in [Proc -> BOOLEAN]
        /\ kpc' \in [Proc -> KernelPoint]
    BY <1>5 DEF Inv, TypeOK, KernelPoint
  <2>4. /\ chan' \in [Proc -> Chan] /\ priority' \in [Proc -> Prio]
        /\ budget' \in [Proc -> Int]
        /\ cpu_ticks_in' \in [Proc -> Tick]
        /\ PromoteAtTime' \in Tick /\ ticks' \in Tick
    BY <1>5 DEF Inv, TypeOK
  <2>5. /\ lock' \in CPU \cup {NoCPU} /\ crit' \in Critical /\ wch' \in Chan
        /\ cur' \in [CPU -> Proc \cup {NoProc}]
        /\ irq' \in {"none", "wake", "yield"}
        /\ child' \in [Proc -> Proc \cup {NoProc}]
        /\ nap' \in [Proc -> [t0 : Tick, n : Nat]] /\ panicked' \in Message
    BY <1>5 DEF Inv, TypeOK, Critical
  <2> QED BY <2>1, <2>2, <2>3, <2>4, <2>5 DEF TypeOK
<1>12. RunningOnOneCpu'
  <2>1. /\ "UNUSED" \in State \ {"RUNNING"} /\ state[z] # "RUNNING"
        /\ state' = [state EXCEPT ![z] = "UNUSED"] /\ cur' = cur
    BY <1>4, <1>5 DEF State
  <2> QED BY <1>4, <2>1, OneCpuKept, Zenon
<1>13. ReadyMatchesPriority'
  <2>1. \A q \in Proc \ {z} : priority'[q] = priority[q] /\ (killed[q] => killed'[q])
    BY <1>5 DEF Inv, TypeOK
  <2> QED BY <1>4, <1>5, <2>1, ReadyPrioKept
<1>14. ForkOK'
  <2>1. \A q \in Proc :
          /\ state'[q] = IF q = z THEN "UNUSED" ELSE state[q]
          /\ kpc'[q] = IF q \in {p, z} THEN "user" ELSE kpc[q]
          /\ child'[q] = child[q]
    BY <1>5 DEF Inv, TypeOK
  <2>2. "user" \notin Forking
    BY DEF Forking
  <2>3. ASSUME NEW q \in Proc
        PROVE  /\ state'[q] \in {"UNUSED", "EMBRYO"} => kpc'[q] = "user"
               /\ state'[q] = "ZOMBIE" => kpc'[q] = "exiting"
               /\ state'[q] = "SLEEPING" => kpc'[q] \notin Forking
               /\ kpc'[q] \in Forking =>
                    child'[q] \in Proc /\ state'[child'[q]] = "EMBRYO"
    <3>1. /\ state[q] \in {"UNUSED", "EMBRYO"} => kpc[q] = "user"
          /\ state[q] = "ZOMBIE" => kpc[q] = "exiting"
          /\ state[q] = "SLEEPING" => kpc[q] \notin Forking
          /\ kpc[q] \in Forking => child[q] \in Proc /\ state[child[q]] = "EMBRYO"
      BY DEF Inv, ForkOK
    <3>2. kpc[q] \in Forking => child[q] # z
      BY <1>4, <3>1
    <3>3. CASE q = z
      BY <1>4, <2>1, <2>2, <3>3
    <3>4. CASE q = p /\ q # z
      BY <1>2, <1>4, <2>1, <2>2, <3>4
    <3>5. CASE q \notin {p, z}
      BY <2>1, <3>1, <3>2, <3>5
    <3> QED BY <3>3, <3>4, <3>5
  <2>4. ASSUME NEW q \in Proc, NEW r \in Proc, kpc'[q] \in Forking,
               kpc'[r] \in Forking, child'[q] = child'[r]
        PROVE  q = r
    <3>1. kpc[q] \in Forking /\ kpc[r] \in Forking /\ child[q] = child[r]
      BY <2>1, <2>2, <2>4
    <3> QED BY <3>1 DEF Inv, ForkOK
  <2> QED BY <2>3, <2>4 DEF ForkOK
<1>15. HolderOK' /\ NoListPanic'
  BY <1>5 DEF Inv, HolderOK, NoListPanic
<1> QED
  BY <1>10, <1>11, <1>12, <1>13, <1>14, <1>15 DEF Inv

=============================================================================

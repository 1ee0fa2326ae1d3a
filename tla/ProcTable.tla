------------------------------ MODULE ProcTable ------------------------------
(***************************************************************************)
(* The process table of the kernel (proc.c, built with CS333_P1 .. P5):    *)
(* the six kinds of state list, the multi-level feedback queue, and the    *)
(* operations that move a process between lists: allocproc, fork, exit,    *)
(* wait, scheduler, sched, yield, sleep, wakeup, kill, setpriority, with   *)
(* the timer and fault paths of trap.c and sys_sleep.                      *)
(*                                                                         *)
(* Every CPU interleaves with every other.  A critical section of          *)
(* ptable.lock is one step, except where the lock stays held across a loop *)
(* or a context switch: there lock, crit and wch record who holds it and   *)
(* what the holder does next.  Reads and writes the code makes without     *)
(* the lock (ticks, np->parent in fork, the killed test of sys_sleep) are  *)
(* steps of their own.                                                     *)
(*                                                                         *)
(* A state list is the sequence of its processes; StateList relates the    *)
(* sequences to the head, tail and next pointers.  A pid is the slot that  *)
(* holds it: live pids are distinct.                                       *)
(***************************************************************************)
EXTENDS Lists

CONSTANTS
  NPROC,             \* slots of ptable.proc
  NCPU,              \* CPUs that run scheduler()
  MAXPRIO,           \* largest (worst) priority
  BUDGET,            \* ticks a process may use before it is demoted
  TICKS_TO_PROMOTE,  \* ticks between two promotions
  SCHED_INTERVAL,    \* the timer forces a yield every so many ticks
  TickMod,           \* ticks is an unsigned counter modulo TickMod
  SleepArgs,         \* arguments programs pass to sleep()
  Syscalls           \* what the user programs do

AllSyscalls == {"fork", "exit", "wait", "sleep", "kill", "setpriority",
                "io", "fault"}

ASSUME ConstantsAssumption ==
  /\ NPROC \in Nat \ {0}
  /\ NCPU \in Nat \ {0}
  /\ MAXPRIO \in Nat
  /\ BUDGET \in Nat \ {0}
  /\ TickMod \in Nat \ {0}
  /\ TICKS_TO_PROMOTE \in 1 .. TickMod - 1
  /\ SCHED_INTERVAL \in Nat \ {0}
  /\ SleepArgs \subseteq Nat
  /\ Syscalls \subseteq AllSyscalls

VARIABLES
  free, embryo, ready, running, sleep, zombie,  \* ptable.pLists
  state, parent, killed, chan,                  \* struct proc
  priority, budget, cpu_ticks_in,               \* struct proc, scheduling
  PromoteAtTime,                                \* ptable.PromoteAtTime
  ticks,                                        \* the global clock
  lock,      \* the CPU that holds ptable.lock, or NoCPU
  crit,      \* what the holder does next, "none" when the lock is free
  wch,       \* the channel the holder's wakeup1 is walking the list for
  cur,       \* cpu->proc: the process each CPU runs, or NoProc
  irq,       \* the boot CPU's timer handler: "none", "wake" or "yield"
  kpc,       \* where each process is, "user" outside a system call
  child,     \* fork's local np, or NoProc
  nap,       \* sys_sleep's locals: ticks0 and n
  panicked   \* the panic message, or "none"

lists == <<free, embryo, ready, running, sleep, zombie>>
mlfq == <<priority, budget, cpu_ticks_in, PromoteAtTime>>
locals == <<kpc, child, nap>>
vars == <<lists, state, parent, killed, chan, mlfq, ticks, lock, crit, wch,
          cur, irq, locals, panicked>>

-----------------------------------------------------------------------------
(* Addresses.  Slot i is &ptable.proc[i-1]; 0 is the null pointer.         *)
Proc == 1 .. NPROC
NoProc == 0
CPU == 1 .. NCPU
NoCPU == 0
BootCPU == 1
Prio == 0 .. MAXPRIO
Tick == 0 .. TickMod - 1
initproc == 1
NoChan == 0
TicksChan == NPROC + 1   \* &ticks
IoChan == NPROC + 2      \* any other object of the kernel
Chan == 0 .. NPROC + 2
NoNap == [t0 |-> 0, n |-> 0]

State == {"UNUSED", "EMBRYO", "SLEEPING", "RUNNABLE", "RUNNING", "ZOMBIE"}
Alive == {"SLEEPING", "RUNNABLE", "RUNNING"}
Forking == {"kstack", "copy", "publish"}
KernelPoint == Forking \cup {"user", "wait", "waitslp", "slpchk", "slpgo",
                             "io", "exiting"}
Critical == {"none", "pick", "resume", "wait", "wakeup", "exit_parent",
             "exit_init"}
Message == {"none", "init exiting", "Assert State failure", "Sleep", "Yield",
            "exit", "Crazy things happening", "FORK: rc != 0",
            "state list error FORK", "priority != i, scheduler, runnable lists"}

(* Every process on a ready list, and every process wait() looks at for    *)
(* children that have not exited.                                          *)
ReadySet == UNION {Range(ready[i]) : i \in Prio}
Scanned == ReadySet \cup Range(sleep) \cup Range(running) \cup Range(embryo)

-----------------------------------------------------------------------------
(* userinit() has run: the first slot holds the init process, RUNNABLE,    *)
(* and every CPU is in scheduler().                                        *)
Init ==
  /\ free = [i \in 1 .. NPROC - 1 |-> i + 1]
  /\ embryo = <<>>
  /\ ready = [i \in Prio |-> IF i = 0 THEN <<initproc>> ELSE <<>>]
  /\ running = <<>>
  /\ sleep = <<>>
  /\ zombie = <<>>
  /\ state = [p \in Proc |-> IF p = initproc THEN "RUNNABLE" ELSE "UNUSED"]
  /\ parent = [p \in Proc |-> NoProc]
  /\ killed = [p \in Proc |-> FALSE]
  /\ chan = [p \in Proc |-> NoChan]
  /\ priority = [p \in Proc |-> 0]
  /\ budget = [p \in Proc |-> IF p = initproc THEN BUDGET ELSE 0]
  /\ cpu_ticks_in = [p \in Proc |-> 0]
  /\ PromoteAtTime = TICKS_TO_PROMOTE
  /\ ticks = 0
  /\ lock = NoCPU
  /\ crit = "none"
  /\ wch = NoChan
  /\ cur = [c \in CPU |-> NoProc]
  /\ irq = "none"
  /\ kpc = [p \in Proc |-> "user"]
  /\ child = [p \in Proc |-> NoProc]
  /\ nap = [p \in Proc |-> NoNap]
  /\ panicked = "none"

-----------------------------------------------------------------------------
(* Building blocks.                                                        *)

stateListAdd(l, p) == Append(l, p)
(* Faulty variant: only the head is ever unlinked.                         *)
RemoveHeadOnly(l, p) == IF l # <<>> /\ Head(l) = p THEN Tail(l) ELSE l
stateListRemove(l, p) == Without(l, p)

(* panic(): the message is printed and every CPU stops.                    *)
Panic(msg) ==
  /\ panicked' = msg
  /\ UNCHANGED <<lists, state, parent, killed, chan, mlfq, ticks, lock, crit,
                 wch, cur, irq, locals>>

(* The boot CPU is inside the timer handler, with interrupts off.          *)
InIrq(c) == c = BootCPU /\ irq # "none"

(* CPU c runs a process that is at point k and does not hold ptable.lock.  *)
At(c, k) ==
  /\ cur[c] # NoProc
  /\ kpc[cur[c]] = k
  /\ lock # c
  /\ ~InIrq(c)

(* A system call starts: trap() lets a killed process go no further.       *)
Calls(c, s) ==
  /\ s \in Syscalls
  /\ At(c, "user")
  /\ ~killed[cur[c]]

Acquire(c, what) == lock = NoCPU /\ lock' = c /\ crit' = what
Holds(c, what) == lock = c /\ crit = what
Release == lock' = NoCPU /\ crit' = "none"

(* sched(): charge the ticks used since the process got the CPU.           *)
BudgetLeft(p) == budget[p] - ((ticks - cpu_ticks_in[p]) % TickMod)
(* Faulty variant: demotion does not stop at MAXPRIO.                      *)
NextPriorityUnbounded(p) ==
  IF BudgetLeft(p) < 1 THEN priority[p] + 1 ELSE priority[p]
NextPriority(p) ==
  IF BudgetLeft(p) < 1 /\ priority[p] < MAXPRIO
  THEN priority[p] + 1
  ELSE priority[p]
NextBudget(p) == IF BudgetLeft(p) < 1 THEN BUDGET ELSE BudgetLeft(p)

(* sched() and the scheduler's half of the switch: CPU c drops process p   *)
(* and is back in scheduler().  cpu_ticks_in is dead until scheduler()     *)
(* sets it again, which the model records as 0.                            *)
Sched(c, p) ==
  /\ budget' = [budget EXCEPT ![p] = NextBudget(p)]
  /\ priority' = [priority EXCEPT ![p] = NextPriority(p)]
  /\ cpu_ticks_in' = [cpu_ticks_in EXCEPT ![p] = 0]
  /\ cur' = [cur EXCEPT ![c] = NoProc]
  /\ UNCHANGED PromoteAtTime

(* Faulty variant: proc->chan is not set.                                  *)
GoToSleepNoChan(c, ch, resumeAt) ==
  LET p == cur[c] IN
  /\ running' = stateListRemove(running, p)
  /\ state' = [state EXCEPT ![p] = "SLEEPING"]
  /\ sleep' = stateListAdd(sleep, p)
  /\ kpc' = [kpc EXCEPT ![p] = resumeAt]
  /\ Sched(c, p)
  /\ Release
  /\ UNCHANGED <<free, embryo, ready, zombie, parent, killed, chan, ticks, wch,
                 irq, child, nap, panicked>>

(* sleep(): the caller holds ptable.lock, or takes it before it gives up   *)
(* its own lock; either way the switch to the scheduler releases it.       *)
GoToSleep(c, ch, resumeAt) ==
  LET p == cur[c] IN
  IF p \notin Range(running)
  THEN Panic("Sleep")
  ELSE /\ chan' = [chan EXCEPT ![p] = ch]
       /\ running' = stateListRemove(running, p)
       /\ state' = [state EXCEPT ![p] = "SLEEPING"]
       /\ sleep' = stateListAdd(sleep, p)
       /\ kpc' = [kpc EXCEPT ![p] = resumeAt]
       /\ Sched(c, p)
       /\ Release
       /\ UNCHANGED <<free, embryo, ready, zombie, parent, killed, ticks, wch,
                      irq, child, nap, panicked>>

-----------------------------------------------------------------------------
(* scheduler().                                                            *)

(* Faulty variant: the last list is copied up but not emptied.             *)
AboveCopied(i) == IF i < MAXPRIO THEN ready[i + 1] ELSE ready[i]

(* Every ready list moves up one level; list 0 takes list 1 at its end.    *)
Above(i) == IF i < MAXPRIO THEN ready[i + 1] ELSE <<>>
PromotedReady ==
  [i \in Prio |-> IF i = 0 THEN ready[0] \o Above(0) ELSE Above(i)]

Promoted ==
  Range(running) \cup Range(sleep) \cup
  UNION {Range(ready[i]) : i \in Prio \ {0}}

(* Faulty variant: the lists move but curr->priority -= 1 is missing.      *)
PromoteListsOnly ==
  /\ ready' = PromotedReady
  /\ PromoteAtTime' = (PromoteAtTime + TICKS_TO_PROMOTE) % TickMod
  /\ UNCHANGED priority

(* Faulty variant: the deadline moves but no list does.                    *)
PromoteNothing ==
  /\ PromoteAtTime' = (PromoteAtTime + TICKS_TO_PROMOTE) % TickMod
  /\ UNCHANGED <<ready, priority>>

Promote ==
  /\ ready' = PromotedReady
  /\ priority' = [p \in Proc |-> IF p \in Promoted /\ priority[p] > 0
                                 THEN priority[p] - 1
                                 ELSE priority[p]]
  /\ PromoteAtTime' = (PromoteAtTime + TICKS_TO_PROMOTE) % TickMod

(* An idle CPU takes ptable.lock and promotes when the deadline is past.   *)
SchedulerEnter(c) ==
  /\ cur[c] = NoProc
  /\ ~InIrq(c)
  /\ lock = NoCPU
  /\ IF PromoteAtTime > ticks
     THEN /\ Acquire(c, "pick")
          /\ UNCHANGED <<ready, priority, PromoteAtTime, panicked>>
          /\ UNCHANGED <<free, embryo, running, sleep, zombie, state, parent,
                         killed, chan, budget, cpu_ticks_in, ticks, wch, cur,
                         irq, locals>>
     ELSE IF \E i \in Prio \ {0} : \E p \in Range(ready[i]) : priority[p] # i
     THEN Panic("priority != i, scheduler, runnable lists")
     ELSE /\ Acquire(c, "pick")
          /\ Promote
          /\ UNCHANGED <<free, embryo, running, sleep, zombie, state, parent,
                         killed, chan, budget, cpu_ticks_in, ticks, wch, cur,
                         irq, locals, panicked>>

(* Faulty variant: the process is not added to the running list.           *)
PickNoAdd(c) ==
  /\ Holds(c, "pick")
  /\ \E j \in Prio :
       LET p == Head(ready[j]) IN
       /\ ready[j] # <<>>
       /\ \A k \in 0 .. j - 1 : ready[k] = <<>>
       /\ ready' = [ready EXCEPT ![j] = Tail(@)]
       /\ state' = [state EXCEPT ![p] = "RUNNING"]
       /\ cur' = [cur EXCEPT ![c] = p]
       /\ cpu_ticks_in' = [cpu_ticks_in EXCEPT ![p] = ticks]
       /\ crit' = "resume"
       /\ UNCHANGED <<free, embryo, running, sleep, zombie, parent, killed,
                      chan, priority, budget, PromoteAtTime, ticks, lock, wch,
                      irq, locals, panicked>>

(* The head of the first non-empty ready list gets the CPU.  The lock      *)
(* stays held across swtch().                                              *)
SchedulerPick(c) ==
  /\ Holds(c, "pick")
  /\ \E j \in Prio :
       LET p == Head(ready[j]) IN
       /\ ready[j] # <<>>
       /\ \A k \in 0 .. j - 1 : ready[k] = <<>>
       /\ IF state[p] # "RUNNABLE"
          THEN Panic("Assert State failure")
          ELSE /\ ready' = [ready EXCEPT ![j] = Tail(@)]
               /\ state' = [state EXCEPT ![p] = "RUNNING"]
               /\ running' = stateListAdd(running, p)
               /\ cur' = [cur EXCEPT ![c] = p]
               /\ cpu_ticks_in' = [cpu_ticks_in EXCEPT ![p] = ticks]
               /\ crit' = "resume"
               /\ UNCHANGED <<free, embryo, sleep, zombie, parent, killed,
                              chan, priority, budget, PromoteAtTime, ticks,
                              lock, wch, irq, locals, panicked>>

(* No process is ready: release and halt until an interrupt.               *)
SchedulerIdle(c) ==
  /\ Holds(c, "pick")
  /\ ReadySet = {}
  /\ Release
  /\ UNCHANGED <<lists, state, parent, killed, chan, mlfq, ticks, wch, cur,
                 irq, locals, panicked>>

(* The process picked comes out of swtch(): in forkret() or yield() it     *)
(* releases the lock; in sleep() it clears chan first; and a process that  *)
(* slept in wait() keeps the lock and scans its children again.            *)
Resume(c) ==
  LET p == cur[c] IN
  /\ Holds(c, "resume")
  /\ chan' = [chan EXCEPT ![p] = NoChan]
  /\ IF kpc[p] = "waitslp"
     THEN crit' = "wait" /\ UNCHANGED lock
     ELSE Release
  /\ UNCHANGED <<lists, state, parent, killed, mlfq, ticks, wch, cur, irq,
                 locals, panicked>>

(* yield(), from the timer interrupt.  sched() moves a process whose       *)
(* budget is used up to the tail of the next list down.                    *)
Yield(c) ==
  LET p == cur[c] IN
  /\ p # NoProc
  /\ lock = NoCPU
  /\ ticks % SCHED_INTERVAL = 0
  /\ c = BootCPU => irq = "yield"
  /\ ~(killed[p] /\ kpc[p] = "user")
  /\ IF p \notin Range(running)
     THEN Panic("Yield")
     ELSE /\ running' = stateListRemove(running, p)
          /\ state' = [state EXCEPT ![p] = "RUNNABLE"]
          /\ ready' = [ready EXCEPT ![NextPriority(p)] = stateListAdd(@, p)]
          /\ Sched(c, p)
          /\ irq' = IF c = BootCPU THEN "none" ELSE irq
          /\ UNCHANGED <<free, embryo, sleep, zombie, parent, killed, chan,
                         ticks, lock, crit, wch, locals, panicked>>

-----------------------------------------------------------------------------
(* wakeup(), one process per step of wakeup1's walk of the sleep list.     *)

WakeupBegin(c, ch) ==
  /\ Acquire(c, "wakeup")
  /\ wch' = ch
  /\ UNCHANGED <<lists, state, parent, killed, chan, mlfq, ticks, cur, irq,
                 locals, panicked>>

WakeupOne(c) ==
  /\ lock = c
  /\ crit \in {"wakeup", "exit_parent", "exit_init"}
  /\ \E i \in DOMAIN sleep :
       LET p == sleep[i] IN
       /\ chan[p] = wch
       /\ \A j \in 1 .. i - 1 : chan[sleep[j]] # wch
       /\ IF state[p] # "SLEEPING"
          THEN Panic("Assert State failure")
          ELSE /\ sleep' = stateListRemove(sleep, p)
               /\ state' = [state EXCEPT ![p] = "RUNNABLE"]
               /\ ready' = [ready EXCEPT ![priority[p]] = stateListAdd(@, p)]
               /\ UNCHANGED <<free, embryo, running, zombie, parent, killed,
                              chan, mlfq, ticks, lock, crit, wch, cur, irq,
                              locals, panicked>>

NoneToWake == \A p \in Range(sleep) : chan[p] # wch

(* wakeup() returns.  The timer handler then decides whether to yield.     *)
WakeupEnd(c) ==
  /\ Holds(c, "wakeup")
  /\ NoneToWake
  /\ Release
  /\ wch' = NoChan
  /\ irq' = IF ~InIrq(c) THEN irq
            ELSE IF cur[c] # NoProc /\ ticks % SCHED_INTERVAL = 0
            THEN "yield"
            ELSE "none"
  /\ UNCHANGED <<lists, state, parent, killed, chan, mlfq, ticks, cur, locals,
                 panicked>>

(* Timer interrupt of the boot CPU: atom_inc(&ticks), then wakeup(&ticks). *)
TimerTick ==
  /\ irq = "none"
  /\ lock # BootCPU
  /\ ticks' = (ticks + 1) % TickMod
  /\ irq' = "wake"
  /\ UNCHANGED <<lists, state, parent, killed, chan, mlfq, lock, crit, wch,
                 cur, locals, panicked>>

TimerWakeup == irq = "wake" /\ WakeupBegin(BootCPU, TicksChan)

(* A device interrupt, or another process, wakes a channel of the kernel.  *)
IoWakeup(c) == "io" \in Syscalls /\ ~InIrq(c) /\ WakeupBegin(c, IoChan)

-----------------------------------------------------------------------------
(* fork(), with the allocproc() it calls.                                  *)

(* allocproc takes the head of the free list under the lock.  (When the    *)
(* list is empty fork returns -1 and nothing changes.)                     *)
ForkAlloc(c) ==
  LET p == cur[c]
      np == Head(free) IN
  /\ Calls(c, "fork")
  /\ lock = NoCPU
  /\ free # <<>>
  /\ free' = Tail(free)
  /\ state' = [state EXCEPT ![np] = "EMBRYO"]
  /\ budget' = [budget EXCEPT ![np] = BUDGET]
  /\ priority' = [priority EXCEPT ![np] = 0]
  /\ embryo' = stateListAdd(embryo, np)
  /\ child' = [child EXCEPT ![p] = np]
  /\ kpc' = [kpc EXCEPT ![p] = "kstack"]
  /\ UNCHANGED <<ready, running, sleep, zombie, parent, killed, chan,
                 cpu_ticks_in, PromoteAtTime, ticks, lock, crit, wch, cur,
                 irq, nap, panicked>>

(* kalloc() found a page for the kernel stack: the new context is set up   *)
(* to start in forkret().                                                  *)
ForkStack(c) ==
  LET p == cur[c] IN
  /\ At(c, "kstack")
  /\ cpu_ticks_in' = [cpu_ticks_in EXCEPT ![child[p]] = 0]
  /\ kpc' = [kpc EXCEPT ![p] = "copy", ![child[p]] = "user"]
  /\ UNCHANGED <<lists, state, parent, killed, chan, priority, budget,
                 PromoteAtTime, ticks, lock, crit, wch, cur, irq, child, nap,
                 panicked>>

(* Faulty variant: the error path forgets the slot it allocated.           *)
LeakEmbryo(c, msg) ==
  LET p == cur[c] IN
  /\ child' = [child EXCEPT ![p] = NoProc]
  /\ kpc' = [kpc EXCEPT ![p] = "user"]
  /\ UNCHANGED <<lists, state, parent, killed, chan, mlfq, ticks, lock, crit,
                 wch, cur, irq, nap, panicked>>

(* An embryo goes back to the free list; neither killed nor pid is reset.  *)
ReturnEmbryo(c, msg) ==
  LET p == cur[c]
      np == child[p] IN
  /\ lock = NoCPU
  /\ IF np \notin Range(embryo) \/ state[np] # "EMBRYO"
     THEN Panic(msg)
     ELSE /\ embryo' = stateListRemove(embryo, np)
          /\ state' = [state EXCEPT ![np] = "UNUSED"]
          /\ free' = stateListAdd(free, np)
          /\ child' = [child EXCEPT ![p] = NoProc]
          /\ kpc' = [kpc EXCEPT ![p] = "user"]
          /\ UNCHANGED <<ready, running, sleep, zombie, parent, killed, chan,
                         mlfq, ticks, lock, crit, wch, cur, irq, nap,
                         panicked>>

(* kalloc() has no page for the kernel stack.                              *)
ForkNoStack(c) == At(c, "kstack") /\ ReturnEmbryo(c, "Crazy things happening")

(* copyuvm() is out of memory.                                             *)
ForkNoMemory(c) == At(c, "copy") /\ ReturnEmbryo(c, "FORK: rc != 0")

(* copyuvm() succeeded: np->parent is written without the lock.            *)
ForkCopy(c) ==
  LET p == cur[c] IN
  /\ At(c, "copy")
  /\ parent' = [parent EXCEPT ![child[p]] = p]
  /\ kpc' = [kpc EXCEPT ![p] = "publish"]
  /\ UNCHANGED <<lists, state, killed, chan, mlfq, ticks, lock, crit, wch,
                 cur, irq, child, nap, panicked>>

(* Faulty variant: the child is queued before it gets its priority.        *)
ForkPublishEarly(c) ==
  LET p == cur[c]
      np == child[p] IN
  /\ At(c, "publish")
  /\ lock = NoCPU
  /\ embryo' = stateListRemove(embryo, np)
  /\ state' = [state EXCEPT ![np] = "RUNNABLE"]
  /\ ready' = [ready EXCEPT ![priority[np]] = stateListAdd(@, np)]
  /\ priority' = [priority EXCEPT ![np] = priority[p]]
  /\ child' = [child EXCEPT ![p] = NoProc]
  /\ kpc' = [kpc EXCEPT ![p] = "user"]
  /\ UNCHANGED <<free, running, sleep, zombie, parent, killed, chan, budget,
                 cpu_ticks_in, PromoteAtTime, ticks, lock, crit, wch, cur,
                 irq, nap, panicked>>

(* The child becomes RUNNABLE at its parent's priority.                    *)
ForkPublish(c) ==
  LET p == cur[c]
      np == child[p] IN
  /\ At(c, "publish")
  /\ lock = NoCPU
  /\ IF np \notin Range(embryo) \/ state[np] # "EMBRYO"
     THEN Panic("state list error FORK")
     ELSE /\ embryo' = stateListRemove(embryo, np)
          /\ state' = [state EXCEPT ![np] = "RUNNABLE"]
          /\ priority' = [priority EXCEPT ![np] = priority[p]]
          /\ ready' = [ready EXCEPT ![priority[p]] = stateListAdd(@, np)]
          /\ child' = [child EXCEPT ![p] = NoProc]
          /\ kpc' = [kpc EXCEPT ![p] = "user"]
          /\ UNCHANGED <<free, running, sleep, zombie, parent, killed, chan,
                         budget, cpu_ticks_in, PromoteAtTime, ticks, lock,
                         crit, wch, cur, irq, nap, panicked>>

-----------------------------------------------------------------------------
(* exit().                                                                 *)

(* The process leaves user space for good; it closes its files first.      *)
ExitEnter(c) ==
  LET p == cur[c] IN
  IF p = initproc
  THEN Panic("init exiting")
  ELSE /\ kpc' = [kpc EXCEPT ![p] = "exiting"]
       /\ irq' = IF c = BootCPU THEN "none" ELSE irq
       /\ UNCHANGED <<lists, state, parent, killed, chan, mlfq, ticks, lock,
                      crit, wch, cur, child, nap, panicked>>

SysExit(c) == Calls(c, "exit") /\ ExitEnter(c)

(* trap() finds proc->killed set, on a system call or on an interrupt      *)
(* taken in user space.                                                    *)
KilledExit(c) ==
  /\ cur[c] # NoProc
  /\ kpc[cur[c]] = "user"
  /\ killed[cur[c]]
  /\ lock # c
  /\ ~(c = BootCPU /\ irq = "wake")
  /\ ExitEnter(c)

(* A fault in user space: trap() marks the process killed.                 *)
UserFault(c) ==
  /\ "fault" \in Syscalls
  /\ At(c, "user")
  /\ killed' = [killed EXCEPT ![cur[c]] = TRUE]
  /\ UNCHANGED <<lists, state, parent, chan, mlfq, ticks, lock, crit, wch,
                 cur, irq, locals, panicked>>

(* Faulty variant: the parent is not woken.                                *)
ExitNoWakeup(c) ==
  /\ At(c, "exiting")
  /\ Acquire(c, "exit_parent")
  /\ wch' = NoChan
  /\ UNCHANGED <<lists, state, parent, killed, chan, mlfq, ticks, cur, irq,
                 locals, panicked>>

(* Under the lock: wakeup1(proc->parent), which WakeupOne carries out.     *)
ExitLock(c) ==
  /\ At(c, "exiting")
  /\ Acquire(c, "exit_parent")
  /\ wch' = parent[cur[c]]
  /\ UNCHANGED <<lists, state, parent, killed, chan, mlfq, ticks, cur, irq,
                 locals, panicked>>

(* The channel exit() wakes after it has passed its children to init.      *)
InitToWake(p) ==
  IF \E z \in Range(zombie) : parent[z] = p THEN initproc ELSE NoChan

(* Faulty variant: the sleep list is not searched for children.            *)
NewParentNoSleepers(p, q) ==
  IF parent[q] = p /\ q \notin Range(sleep) THEN initproc ELSE parent[q]

NewParent(p, q) ==
  IF parent[q] = p /\ q \in Scanned \cup Range(zombie)
  THEN initproc
  ELSE parent[q]

ExitReparent(c) ==
  LET p == cur[c] IN
  /\ Holds(c, "exit_parent")
  /\ NoneToWake
  /\ parent' = [q \in Proc |-> NewParent(p, q)]
  /\ wch' = InitToWake(p)
  /\ crit' = "exit_init"
  /\ UNCHANGED <<lists, state, killed, chan, mlfq, ticks, lock, cur, irq,
                 locals, panicked>>

ExitZombie(c) ==
  LET p == cur[c] IN
  /\ Holds(c, "exit_init")
  /\ NoneToWake
  /\ IF p \notin Range(running)
     THEN Panic("exit")
     ELSE /\ running' = stateListRemove(running, p)
          /\ state' = [state EXCEPT ![p] = "ZOMBIE"]
          /\ zombie' = stateListAdd(zombie, p)
          /\ Sched(c, p)
          /\ Release
          /\ wch' = NoChan
          /\ UNCHANGED <<free, embryo, ready, sleep, parent, killed, chan,
                         ticks, irq, locals, panicked>>

-----------------------------------------------------------------------------
(* wait().                                                                 *)

SysWait(c) ==
  /\ Calls(c, "wait")
  /\ kpc' = [kpc EXCEPT ![cur[c]] = "wait"]
  /\ UNCHANGED <<lists, state, parent, killed, chan, mlfq, ticks, lock, crit,
                 wch, cur, irq, child, nap, panicked>>

WaitLock(c) ==
  /\ At(c, "wait")
  /\ Acquire(c, "wait")
  /\ UNCHANGED <<lists, state, parent, killed, chan, mlfq, ticks, wch, cur,
                 irq, locals, panicked>>

(* The first zombie child on the list is reaped, its kernel stack freed.   *)
WaitReap(c) ==
  LET p == cur[c] IN
  /\ Holds(c, "wait")
  /\ \E i \in DOMAIN zombie :
       LET z == zombie[i] IN
       /\ parent[z] = p
       /\ \A j \in 1 .. i - 1 : parent[zombie[j]] # p
       /\ IF state[z] # "ZOMBIE"
          THEN Panic("Assert State failure")
          ELSE /\ zombie' = stateListRemove(zombie, z)
               /\ state' = [state EXCEPT ![z] = "UNUSED"]
               /\ parent' = [parent EXCEPT ![z] = NoProc]
               /\ killed' = [killed EXCEPT ![z] = FALSE]
               /\ free' = stateListAdd(free, z)
               /\ kpc' = [kpc EXCEPT ![p] = "user", ![z] = "user"]
               /\ Release
               /\ UNCHANGED <<embryo, ready, running, sleep, chan, mlfq,
                              ticks, wch, cur, irq, child, nap, panicked>>

NoZombieChild(p) == \A z \in Range(zombie) : parent[z] # p
HasKids(p) == \E q \in Scanned : parent[q] = p

(* The test curr->parent->pid == proc->pid on a process without a parent   *)
(* reads the word a null struct proc pointer leads to, which may be equal  *)
(* to any pid.                                                             *)
MayReadNull == \E q \in Scanned : parent[q] = NoProc

(* Faulty variant: the test of proc->killed comes too late.                *)
WaitSleepKilled(c) ==
  LET p == cur[c] IN
  /\ Holds(c, "wait")
  /\ NoZombieChild(p)
  /\ kpc[p] = "waitslp" \/ HasKids(p) \/ MayReadNull
  /\ GoToSleep(c, p, "waitslp")

(* havekids is cleared only on entry: a process that has slept once in     *)
(* this call has it set.                                                   *)
WaitReturn(c) ==
  LET p == cur[c] IN
  /\ Holds(c, "wait")
  /\ NoZombieChild(p)
  /\ killed[p] \/ (kpc[p] = "wait" /\ ~HasKids(p))
  /\ kpc' = [kpc EXCEPT ![p] = "user"]
  /\ Release
  /\ UNCHANGED <<lists, state, parent, killed, chan, mlfq, ticks, wch, cur,
                 irq, child, nap, panicked>>

WaitSleep(c) ==
  LET p == cur[c] IN
  /\ Holds(c, "wait")
  /\ NoZombieChild(p)
  /\ ~killed[p]
  /\ kpc[p] = "waitslp" \/ HasKids(p) \/ MayReadNull
  /\ GoToSleep(c, p, "waitslp")

-----------------------------------------------------------------------------
(* sys_sleep(): the clock and the killed flag are read without a lock.     *)

SysSleep(c) ==
  /\ Calls(c, "sleep")
  /\ \E n \in SleepArgs :
       nap' = [nap EXCEPT ![cur[c]] = [t0 |-> ticks, n |-> n]]
  /\ kpc' = [kpc EXCEPT ![cur[c]] = "slpchk"]
  /\ UNCHANGED <<lists, state, parent, killed, chan, mlfq, ticks, lock, crit,
                 wch, cur, irq, child, panicked>>

Elapsed(p) == (ticks - nap[p].t0) % TickMod

SleepCheck(c) ==
  LET p == cur[c] IN
  /\ At(c, "slpchk")
  /\ IF Elapsed(p) < nap[p].n /\ ~killed[p]
     THEN /\ kpc' = [kpc EXCEPT ![p] = "slpgo"]
          /\ UNCHANGED nap
     ELSE /\ kpc' = [kpc EXCEPT ![p] = "user"]
          /\ nap' = [nap EXCEPT ![p] = NoNap]
  /\ UNCHANGED <<lists, state, parent, killed, chan, mlfq, ticks, lock, crit,
                 wch, cur, irq, child, panicked>>

SleepTicks(c) ==
  /\ At(c, "slpgo")
  /\ lock = NoCPU
  /\ GoToSleep(c, TicksChan, "slpchk")

-----------------------------------------------------------------------------
(* Every other caller of sleep(): the buffer cache, the log, the disk      *)
(* driver, pipes and the console wait in a loop for a condition.           *)

IoEnter(c) ==
  /\ Calls(c, "io")
  /\ kpc' = [kpc EXCEPT ![cur[c]] = "io"]
  /\ UNCHANGED <<lists, state, parent, killed, chan, mlfq, ticks, lock, crit,
                 wch, cur, irq, child, nap, panicked>>

IoSleep(c) ==
  /\ "io" \in Syscalls
  /\ lock = NoCPU
  /\ \E k \in {"io", "exiting"} : At(c, k) /\ GoToSleep(c, IoChan, k)

IoReturn(c) ==
  /\ At(c, "io")
  /\ kpc' = [kpc EXCEPT ![cur[c]] = "user"]
  /\ UNCHANGED <<lists, state, parent, killed, chan, mlfq, ticks, lock, crit,
                 wch, cur, irq, child, nap, panicked>>

-----------------------------------------------------------------------------
(* Faulty variant: any victim is made ready, asleep or not.                *)
KillAnyState(c, t) ==
  /\ Calls(c, "kill")
  /\ lock = NoCPU
  /\ t \in Range(running) \cup Range(sleep)
  /\ killed' = [killed EXCEPT ![t] = TRUE]
  /\ running' = stateListRemove(running, t)
  /\ sleep' = stateListRemove(sleep, t)
  /\ state' = [state EXCEPT ![t] = "RUNNABLE"]
  /\ ready' = [ready EXCEPT ![0] = stateListAdd(@, t)]
  /\ UNCHANGED <<free, embryo, zombie, parent, chan, mlfq, ticks, lock, crit,
                 wch, cur, irq, locals, panicked>>

(* Faulty variant: a sleeping victim is marked and left asleep.            *)
KillNoWake(c, t) ==
  /\ Calls(c, "kill")
  /\ lock = NoCPU
  /\ t \in Scanned \cup Range(zombie)
  /\ killed' = [killed EXCEPT ![t] = TRUE]
  /\ UNCHANGED <<lists, state, parent, chan, mlfq, ticks, lock, crit, wch,
                 cur, irq, locals, panicked>>

(* kill(pid): a sleeping process is made ready in list 0, whatever its     *)
(* priority.  (With no such process nothing changes.)                      *)
Kill(c, t) ==
  /\ Calls(c, "kill")
  /\ lock = NoCPU
  /\ t \in Scanned \cup Range(zombie)
  /\ killed' = [killed EXCEPT ![t] = TRUE]
  /\ IF t \notin Range(sleep)
     THEN UNCHANGED <<sleep, ready, state>>
     ELSE /\ sleep' = stateListRemove(sleep, t)
          /\ state' = [state EXCEPT ![t] = "RUNNABLE"]
          /\ ready' = [ready EXCEPT ![0] = stateListAdd(@, t)]
  /\ UNCHANGED <<free, embryo, running, zombie, parent, chan, mlfq, ticks,
                 lock, crit, wch, cur, irq, locals, panicked>>

(* setpriority(pid, priority).  A running process with another priority is *)
(* taken off the running list and put on a ready list, still RUNNING.      *)
(* (With no such process, or a zombie or an embryo, nothing changes.)      *)
SetPriority(c, t, prio) ==
  /\ Calls(c, "setpriority")
  /\ lock = NoCPU
  /\ t \in Range(running) \cup ReadySet \cup Range(sleep)
  /\ IF t \in ReadySet /\ priority[t] # prio /\ state[t] # "RUNNABLE"
     THEN Panic("Assert State failure")
     ELSE /\ budget' = [budget EXCEPT ![t] = BUDGET]
          /\ priority' = [priority EXCEPT ![t] = prio]
          /\ IF priority[t] = prio \/ t \in Range(sleep)
             THEN UNCHANGED <<running, ready>>
             ELSE /\ running' = stateListRemove(running, t)
                  /\ ready' = [i \in Prio |->
                       IF i = prio
                       THEN stateListAdd(stateListRemove(ready[i], t), t)
                       ELSE stateListRemove(ready[i], t)]
          /\ UNCHANGED <<free, embryo, sleep, zombie, state, parent, killed,
                         chan, cpu_ticks_in, PromoteAtTime, ticks, lock, crit,
                         wch, cur, irq, locals, panicked>>

-----------------------------------------------------------------------------
(* After a panic the machine stays as it is.                               *)
Frozen == panicked # "none" /\ UNCHANGED vars

CpuStep(c) ==
  \/ SchedulerEnter(c)
  \/ SchedulerPick(c)
  \/ SchedulerIdle(c)
  \/ Resume(c)
  \/ Yield(c)
  \/ WakeupOne(c)
  \/ WakeupEnd(c)
  \/ IoWakeup(c)
  \/ ForkAlloc(c)
  \/ ForkStack(c)
  \/ ForkNoStack(c)
  \/ ForkNoMemory(c)
  \/ ForkCopy(c)
  \/ ForkPublish(c)
  \/ SysExit(c)
  \/ KilledExit(c)
  \/ UserFault(c)
  \/ ExitLock(c)
  \/ ExitReparent(c)
  \/ ExitZombie(c)
  \/ SysWait(c)
  \/ WaitLock(c)
  \/ WaitReap(c)
  \/ WaitReturn(c)
  \/ WaitSleep(c)
  \/ SysSleep(c)
  \/ SleepCheck(c)
  \/ SleepTicks(c)
  \/ IoEnter(c)
  \/ IoSleep(c)
  \/ IoReturn(c)
  \/ \E t \in Proc : Kill(c, t)
  \/ \E t \in Proc, prio \in Prio : SetPriority(c, t, prio)

Next ==
  \/ /\ panicked = "none"
     /\ \/ TimerTick
        \/ TimerWakeup
        \/ \E c \in CPU : CpuStep(c)
  \/ Frozen

Spec == Init /\ [][Next]_vars

(* What a CPU does for the process it runs without being asked to: go on   *)
(* with a system call or an exit.                                          *)
KernelStep(c) ==
  \/ ForkStack(c)
  \/ ForkNoStack(c)
  \/ ForkNoMemory(c)
  \/ ForkCopy(c)
  \/ ForkPublish(c)
  \/ KilledExit(c)
  \/ ExitLock(c)
  \/ ExitReparent(c)
  \/ ExitZombie(c)
  \/ WaitLock(c)
  \/ WaitReap(c)
  \/ WaitReturn(c)
  \/ WaitSleep(c)
  \/ SleepCheck(c)
  \/ SleepTicks(c)

(* The clock interrupts every CPU again and again and, often enough, at a  *)
(* multiple of SCHED_INTERVAL; a CPU executes its next instruction; the    *)
(* time between two interrupts is long enough for a process to get on.     *)
(* Nothing obliges a process to make a system call, or a device to answer. *)
(* ticks wraps after a few steps here and after 2^32 in the code, so that  *)
(* a scheduler cannot miss every tick past the promotion deadline.         *)
Fairness ==
  /\ SF_vars(TimerTick)
  /\ SF_vars(TimerWakeup)
  /\ \A c \in CPU :
       /\ SF_vars(SchedulerEnter(c))
       /\ SF_vars(PromoteAtTime <= ticks /\ SchedulerEnter(c))
       /\ WF_vars(SchedulerPick(c))
       /\ WF_vars(SchedulerIdle(c))
       /\ WF_vars(Resume(c))
       /\ SF_vars(Yield(c))
       /\ WF_vars(WakeupOne(c))
       /\ WF_vars(WakeupEnd(c))
  /\ \A p \in Proc : SF_vars(\E c \in CPU : cur[c] = p /\ KernelStep(c))

FairSpec == Spec /\ Fairness

-----------------------------------------------------------------------------
(* Properties.                                                             *)

(* Every variable has its type; in particular no priority is outside the   *)
(* bounds of the array pLists.ready.                                       *)
TypeOK ==
  /\ {free, embryo, running, sleep, zombie} \subseteq Seq(Proc)
  /\ ready \in [Prio -> Seq(Proc)]
  /\ state \in [Proc -> State]
  /\ parent \in [Proc -> Proc \cup {NoProc}]
  /\ killed \in [Proc -> BOOLEAN]
  /\ chan \in [Proc -> Chan]
  /\ priority \in [Proc -> Prio]
  /\ budget \in [Proc -> Int]
  /\ cpu_ticks_in \in [Proc -> Tick]
  /\ PromoteAtTime \in Tick
  /\ ticks \in Tick
  /\ lock \in CPU \cup {NoCPU}
  /\ crit \in Critical
  /\ wch \in Chan
  /\ cur \in [CPU -> Proc \cup {NoProc}]
  /\ irq \in {"none", "wake", "yield"}
  /\ kpc \in [Proc -> KernelPoint]
  /\ child \in [Proc -> Proc \cup {NoProc}]
  /\ nap \in [Proc -> [t0 : Tick, n : Nat]]
  /\ panicked \in Message

(* List l holds the processes in state k, each once.                       *)
IsListOf(l, st, k) ==
  IsInjective(l) /\ \A p \in Proc : st[p] = k <=> p \in Range(l)

(* The ready lists r hold the RUNNABLE processes, each once, on one list.  *)
AreReadyLists(r, st) ==
  /\ \A i \in Prio : IsInjective(r[i])
  /\ \A i, j \in Prio : i # j => Range(r[i]) \cap Range(r[j]) = {}
  /\ \A p \in Proc : st[p] = "RUNNABLE" <=> \E i \in Prio : p \in Range(r[i])

(* The lists are a partition of the table that agrees with p->state: what  *)
(* every assertState() and every rc test of proc.c relies on.  No process  *)
(* is on a list twice, on two lists, or on none.                           *)
ListsMatchState ==
  /\ IsListOf(free, state, "UNUSED")
  /\ IsListOf(embryo, state, "EMBRYO")
  /\ IsListOf(running, state, "RUNNING")
  /\ IsListOf(sleep, state, "SLEEPING")
  /\ IsListOf(zombie, state, "ZOMBIE")
  /\ AreReadyLists(ready, state)

(* A process is RUNNING exactly when one CPU runs it, and no two CPUs run  *)
(* the same process, although scheduler() and the process it switches to   *)
(* hand ptable.lock to each other across swtch().                          *)
RunningOnOneCpu ==
  /\ \A p \in Proc : state[p] = "RUNNING" <=> \E c \in CPU : cur[c] = p
  /\ \A c, d \in CPU : cur[c] = cur[d] /\ cur[c] # NoProc => c = d

(* None of the assertions on the lists fails (assertState, the rc tests,   *)
(* "priority != i"); the one panic a program can cause is init's exit.     *)
NoListPanic == panicked \in {"none", "init exiting"}

(* A process on ready list i has priority i, except that kill() puts its   *)
(* victim on list 0.  The promotion loop of scheduler() panics otherwise.  *)
ReadyMatchesPriority ==
  \A i \in Prio : \A p \in Range(ready[i]) :
    priority[p] = i \/ (i = 0 /\ killed[p])

(* The parent of a process that can still exit, or that waits to be        *)
(* reaped, is itself alive: exit() passes every child on before it becomes *)
(* a zombie, so nobody is left that no wait() will ever look for.          *)
ParentAlive ==
  /\ state[initproc] \in Alive
  /\ \A p \in Proc \ {initproc} :
       state[p] \in Alive \cup {"ZOMBIE"} =>
         parent[p] # NoProc /\ state[parent[p]] \in Alive

(* No exit is missed: once ptable.lock is free, a process asleep in wait() *)
(* has no zombie child, its own or one it inherited as init.               *)
NoMissedExit ==
  lock = NoCPU =>
    \A p \in Proc : state[p] = "SLEEPING" /\ kpc[p] = "waitslp" =>
      ~ \E z \in Proc : state[z] = "ZOMBIE" /\ parent[z] = p

(* A killed process never sleeps in wait(): the killed flag is tested      *)
(* under the lock, and kill() makes a sleeper ready.                       *)
KilledNotWaiting ==
  \A p \in Proc : state[p] = "SLEEPING" /\ kpc[p] = "waitslp" => ~killed[p]

(* No slot is lost in a fork: every EMBRYO is the np of exactly one        *)
(* process, which is still inside fork().                                  *)
EmbryoOwned ==
  \A e \in Proc : state[e] = "EMBRYO" =>
    \E p \in Proc :
      /\ child[p] = e
      /\ kpc[p] \in Forking
      /\ state[p] \in {"RUNNABLE", "RUNNING"}
      /\ \A q \in Proc : child[q] = e => q = p

(* A sleeping process waits on the channel that its next wakeup will name: *)
(* in wait() its own slot, in sleep() &ticks, elsewhere the kernel object. *)
(* With any other channel it would sleep for ever.                         *)
SleepersReachable ==
  \A p \in Proc : state[p] = "SLEEPING" =>
    \/ kpc[p] = "waitslp" /\ chan[p] = p
    \/ kpc[p] = "slpchk" /\ chan[p] = TicksChan
    \/ kpc[p] \in {"io", "exiting"} /\ chan[p] = IoChan

(* ptable.lock is held exactly between acquire and release, and the holder *)
(* is where its next step expects it: what the operations rely on when     *)
(* they use proc after a switch.                                           *)
HolderOK ==
  /\ lock = NoCPU <=> crit = "none"
  /\ crit = "pick" => cur[lock] = NoProc
  /\ crit \in {"resume", "wait", "exit_parent", "exit_init"} => cur[lock] # NoProc
  /\ crit = "wait" => kpc[cur[lock]] \in {"wait", "waitslp"}
  /\ crit \in {"exit_parent", "exit_init"} => kpc[cur[lock]] = "exiting"

(* A process in fork() has an embryo of its own, and a slot that is not a  *)
(* live process is in no system call.                                      *)
ForkOK ==
  /\ \A p \in Proc :
       /\ state[p] \in {"UNUSED", "EMBRYO"} => kpc[p] = "user"
       /\ state[p] = "ZOMBIE" => kpc[p] = "exiting"
       /\ state[p] = "SLEEPING" => kpc[p] \notin Forking
       /\ kpc[p] \in Forking => child[p] \in Proc /\ state[child[p]] = "EMBRYO"
  /\ \A p, q \in Proc :
       kpc[p] \in Forking /\ kpc[q] \in Forking /\ child[p] = child[q] => p = q

(* The inductive invariant.                                                *)
Inv ==
  /\ TypeOK
  /\ ListsMatchState
  /\ RunningOnOneCpu
  /\ ReadyMatchesPriority
  /\ NoListPanic
  /\ HolderOK
  /\ ForkOK

(* The state lists are sound: every process is on the list of its state  *)
(* and on no other, a RUNNING one is on exactly one CPU, and none of the *)
(* checks that the scheduler, stateListRemove and their callers make on  *)
(* the lists fails (proc.c:617-763, 1055-1130), also where one CPU holds *)
(* the lock that another process took.                                   *)
ListsSound == ListsMatchState /\ RunningOnOneCpu /\ NoListPanic

(* Every process is where its next event looks for it: on the list of    *)
(* its state, if it is ready in the queue of its priority, which stays   *)
(* in bounds through demotion, promotion and kill(), and if it sleeps on *)
(* the channel its waker names (proc.c:624-705, 813-950).                *)
QueuesSound ==
  TypeOK /\ ListsMatchState /\ NoListPanic /\ ReadyMatchesPriority /\ SleepersReachable

(* wait() sleeps only while it has to: not beside a child that has       *)
(* exited, its own or one it inherited, and not when it has been killed  *)
(* (proc.c:347-420, 540-550).                                            *)
WaitSound == NoMissedExit /\ KilledNotWaiting

(* A slot that is not yet a process is not marked killed: kill() says of   *)
(* itself that it searches "all lists (except free and embryo)".           *)
BornUnkilled ==
  \A p \in Proc : state[p] \in {"UNUSED", "EMBRYO"} => ~killed[p]

(* wait() returns -1 to a process without children, as the comment above   *)
(* it says: a process asleep in wait() has a child.                        *)
WaiterHasChild ==
  \A p \in Proc : state[p] = "SLEEPING" /\ kpc[p] = "waitslp" =>
    \E q \in Proc : parent[q] = p

(* No process starves: a RUNNABLE process gets a CPU, whatever its         *)
(* priority, because promotion brings it to list 0 and lists are FIFO.     *)
RunnableRuns ==
  \A p \in Proc :
    state[p] = "RUNNABLE" ~> state[p] = "RUNNING" \/ panicked # "none"

(* A killed process exits, wherever the kill found it: running, ready, in  *)
(* a fork, asleep in wait() or sleep(), or between the two tests and the   *)
(* sleep of sys_sleep.                                                     *)
KilledExits ==
  \A p \in Proc :
    (killed[p] /\ state[p] \in Alive)
      ~> (state[p] \in {"ZOMBIE", "UNUSED"} \/ panicked # "none")

(* A wait() with a child that has exited returns.                          *)
WaitReturns ==
  \A p \in Proc :
    (kpc[p] \in {"wait", "waitslp"} /\ \E z \in Range(zombie) : parent[z] = p)
      ~> (kpc[p] = "user" \/ panicked # "none")
==============================================================================

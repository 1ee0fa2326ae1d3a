------------------------------ MODULE Spinlock ------------------------------
(***************************************************************************)
(* Spin locks (spinlock.c), and how they meet interrupts and the switch    *)
(* between processes (sched, scheduler, yield, forkret of proc.c, trap of  *)
(* trap.c).  A thread is the code it has still to run; one step is one     *)
(* access to the interrupt flag or to a lock.  An interrupt puts its       *)
(* handler before the code of the thread it meets.  A is a device's lock,  *)
(* which the device's handler takes; P is ptable.lock.                     *)
(***************************************************************************)
EXTENDS Integers, Sequences

CONSTANTS
  Cpu,      \* the processors, 1 .. ncpu
  Process   \* the processes, apart from each processor's scheduler

VARIABLES
  code,      \* each thread's steps still to come; <<>> is user mode
  run,       \* the thread each processor runs
  IF_,       \* FL_IF of each processor's eflags
  ncli, intena,
  locked, owner,   \* lk->locked and lk->cpu
  panicked

lockVars == <<code, run, IF_, ncli, intena, locked, owner, panicked>>

Lock == {"A", "P"}
Thread == Process \cup Cpu   \* a processor's own thread is its scheduler
NoCpu == 0

Op(op) == [op |-> op]
On(op, lk) == [op |-> op, lk |-> lk]

(* pushcli is <<readeflags, cli>>; what readeflags found is kept in cli.    *)
acquire(lk) == <<Op("readeflags"), [op |-> "cli", fl |-> FALSE],
                 On("panic if holding", lk), On("xchg 1", lk), On("cpu = cpu", lk)>>

(* Faulty variant: interrupts come back before the lock is let go.          *)
ReleaseLate(lk) == <<On("panic if not holding", lk), Op("popcli"),
                     On("cpu = 0", lk), On("xchg 0", lk)>>

release(lk) == <<On("panic if not holding", lk), On("cpu = 0", lk),
                 On("xchg 0", lk), Op("popcli")>>

(* The intena sched saves is kept in the step that restores it.             *)
sched == <<Op("sched"), Op("swtch"), [op |-> "intena", fl |-> FALSE]>>

yield == acquire("P") \o sched \o release("P")

(* A system call that waits for the device: sleep(chan, &A).                *)
Sleeping == acquire("A") \o acquire("P") \o release("A") \o sched
              \o release("P") \o acquire("A") \o release("A")

scheduler == <<Op("sti")>> \o acquire("P") \o <<Op("pick")>> \o release("P")
forkret == release("P")

---------------------------------------------------------------------------
(* Thread t, on processor c, is about to do op.                             *)
At(c, op) == panicked = "no" /\ code[run[c]] # <<>> /\ Head(code[run[c]]).op = op

Lk(c) == Head(code[run[c]]).lk
Advance(c) == code' = [code EXCEPT ![run[c]] = Tail(@)]
Panic(msg) == panicked' = msg

(* Advance, and remember fl in the next step op of the thread.              *)
Remember(c, op, fl) ==
  code' = [code EXCEPT ![run[c]] =
    LET rest == Tail(@)
        i == CHOOSE i \in DOMAIN rest : rest[i].op = op /\ \A j \in 1 .. i - 1 : rest[j].op # op
    IN [rest EXCEPT ![i].fl = fl]]

ReadEflags(c) ==
  /\ At(c, "readeflags")
  /\ Remember(c, "cli", IF_[c])
  /\ UNCHANGED <<run, IF_, ncli, intena, locked, owner, panicked>>

pushcli(c) ==
  /\ At(c, "cli")
  /\ IF_' = [IF_ EXCEPT ![c] = FALSE]
  /\ ncli' = [ncli EXCEPT ![c] = @ + 1]
  /\ intena' = IF ncli[c] = 0 THEN [intena EXCEPT ![c] = Head(code[run[c]]).fl] ELSE intena
  /\ Advance(c)
  /\ UNCHANGED <<run, locked, owner, panicked>>

popcli(c) ==
  /\ At(c, "popcli")
  /\ IF IF_[c] THEN Panic("popcli - interruptible")
     ELSE IF ncli[c] = 0 THEN Panic("popcli")
     ELSE UNCHANGED panicked
  /\ ncli' = [ncli EXCEPT ![c] = @ - 1]
  /\ IF_' = [IF_ EXCEPT ![c] = ncli[c] = 1 /\ intena[c]]
  /\ Advance(c)
  /\ UNCHANGED <<run, intena, locked, owner>>

holding(c, lk) == locked[lk] /\ owner[lk] = c

TestAcquire(c) ==
  /\ At(c, "panic if holding")
  /\ IF holding(c, Lk(c)) THEN Panic("acquire") ELSE UNCHANGED panicked
  /\ Advance(c)
  /\ UNCHANGED <<run, IF_, ncli, intena, locked, owner>>

Xchg1(c) ==
  /\ At(c, "xchg 1")
  /\ ~locked[Lk(c)]
  /\ locked' = [locked EXCEPT ![Lk(c)] = TRUE]
  /\ Advance(c)
  /\ UNCHANGED <<run, IF_, ncli, intena, owner, panicked>>

SetCpu(c) ==
  /\ At(c, "cpu = cpu")
  /\ owner' = [owner EXCEPT ![Lk(c)] = c]
  /\ Advance(c)
  /\ UNCHANGED <<run, IF_, ncli, intena, locked, panicked>>

TestRelease(c) ==
  /\ At(c, "panic if not holding")
  /\ IF ~holding(c, Lk(c)) THEN Panic("release") ELSE UNCHANGED panicked
  /\ Advance(c)
  /\ UNCHANGED <<run, IF_, ncli, intena, locked, owner>>

(* Faulty variant: lk->cpu keeps the name of its last holder.               *)
KeepCpu(c) ==
  /\ At(c, "cpu = 0")
  /\ Advance(c)
  /\ UNCHANGED <<run, IF_, ncli, intena, locked, owner, panicked>>

ClearCpu(c) ==
  /\ At(c, "cpu = 0")
  /\ owner' = [owner EXCEPT ![Lk(c)] = NoCpu]
  /\ Advance(c)
  /\ UNCHANGED <<run, IF_, ncli, intena, locked, panicked>>

Xchg0(c) ==
  /\ At(c, "xchg 0")
  /\ locked' = [locked EXCEPT ![Lk(c)] = FALSE]
  /\ Advance(c)
  /\ UNCHANGED <<run, IF_, ncli, intena, owner, panicked>>

---------------------------------------------------------------------------
(* Switching.                                                               *)

Sched(c) ==
  /\ At(c, "sched")
  /\ IF ~holding(c, "P") THEN Panic("sched ptable.lock")
     ELSE IF ncli[c] # 1 THEN Panic("sched locks")
     ELSE IF IF_[c] THEN Panic("sched interruptible")
     ELSE UNCHANGED panicked
  /\ Remember(c, "intena", intena[c])
  /\ UNCHANGED <<run, IF_, ncli, intena, locked, owner>>

(* A process leaves the processor to its scheduler, which goes on after     *)
(* its own swtch; ptable.lock stays locked, for the processor.              *)
Swtch(c) ==
  /\ At(c, "swtch")
  /\ run' = [run EXCEPT ![c] = c]
  /\ Advance(c)
  /\ UNCHANGED <<IF_, ncli, intena, locked, owner, panicked>>

(* Faulty variant: intena stays with the processor.                         *)
KeepIntena(c) ==
  /\ At(c, "intena")
  /\ Advance(c)
  /\ UNCHANGED <<run, IF_, ncli, intena, locked, owner, panicked>>

RestoreIntena(c) ==
  /\ At(c, "intena")
  /\ intena' = [intena EXCEPT ![c] = Head(code[run[c]]).fl]
  /\ Advance(c)
  /\ UNCHANGED <<run, IF_, ncli, locked, owner, panicked>>

(* scheduler: switch to a process that is on no processor, if there is one. *)
Pick(c) ==
  LET waiting == {p \in Process : \A d \in Cpu : run[d] # p}
  IN /\ At(c, "pick")
     /\ \/ waiting = {} /\ UNCHANGED run
        \/ \E p \in waiting : run' = [run EXCEPT ![c] = p]
     /\ Advance(c)
     /\ UNCHANGED <<IF_, ncli, intena, locked, owner, panicked>>

Sti(c) ==
  /\ At(c, "sti")
  /\ IF_' = [IF_ EXCEPT ![c] = TRUE]
  /\ Advance(c)
  /\ UNCHANGED <<run, ncli, intena, locked, owner, panicked>>

SchedulerLoop(c) ==
  /\ panicked = "no"
  /\ run[c] = c /\ code[c] = <<>>
  /\ code' = [code EXCEPT ![c] = scheduler]
  /\ UNCHANGED <<run, IF_, ncli, intena, locked, owner, panicked>>

---------------------------------------------------------------------------
(* trap: a system call leaves interrupts on; an interrupt gate turns them   *)
(* off until iret, the last step of each.                                   *)

Syscall(c) ==
  /\ panicked = "no"
  /\ run[c] \in Process /\ code[run[c]] = <<>>
  /\ code' = [code EXCEPT ![run[c]] = Sleeping \o <<Op("iret")>>]
  /\ UNCHANGED <<run, IF_, ncli, intena, locked, owner, panicked>>

Interrupt(c) ==
  /\ panicked = "no"
  /\ IF_[c]
  /\ IF_' = [IF_ EXCEPT ![c] = FALSE]
  /\ \E handler \in {acquire("A") \o release("A")} \cup (IF run[c] \in Process THEN {yield} ELSE {}) :
       code' = [code EXCEPT ![run[c]] = handler \o <<Op("iret")>> \o @]
  /\ UNCHANGED <<run, ncli, intena, locked, owner, panicked>>

Iret(c) ==
  /\ At(c, "iret")
  /\ IF_' = [IF_ EXCEPT ![c] = TRUE]
  /\ Advance(c)
  /\ UNCHANGED <<run, ncli, intena, locked, owner, panicked>>

LockInit ==
  /\ code = [t \in Thread |-> IF t \in Cpu THEN scheduler ELSE forkret \o <<Op("iret")>>]
  /\ run = [c \in Cpu |-> c]
  /\ IF_ = [c \in Cpu |-> FALSE]
  /\ ncli = [c \in Cpu |-> 0]
  /\ intena = [c \in Cpu |-> FALSE]
  /\ locked = [lk \in Lock |-> FALSE]
  /\ owner = [lk \in Lock |-> NoCpu]
  /\ panicked = "no"

LockNext ==
  \E c \in Cpu :
    \/ ReadEflags(c) \/ pushcli(c) \/ popcli(c)
    \/ TestAcquire(c) \/ Xchg1(c) \/ SetCpu(c)
    \/ TestRelease(c) \/ ClearCpu(c) \/ Xchg0(c)
    \/ Sched(c) \/ Swtch(c) \/ RestoreIntena(c) \/ Pick(c) \/ Sti(c) \/ SchedulerLoop(c)
    \/ Syscall(c) \/ Interrupt(c) \/ Iret(c)

---------------------------------------------------------------------------
(* Properties.                                                              *)

(* None of the checks of acquire, release, popcli and sched fails           *)
(* (spinlock.c:28, 46, 110-113; proc.c:727-734), on whichever processor a   *)
(* process wakes up and however lk->cpu lags behind lk->locked.             *)
NoLockPanic == panicked = "no"

(* A processor that can be interrupted holds no lock and owes no popcli, so *)
(* that a handler never spins for a lock its own processor holds            *)
(* (spinlock.c:27).                                                         *)
InterruptibleUnlocked ==
  \A c \in Cpu : IF_[c] => ncli[c] = 0 /\ \A lk \in Lock : ~holding(c, lk)

(* The handler of an interrupt is never interrupted: a thread is in one     *)
(* handler at most, and a process in one system call besides, which bounds  *)
(* its kernel stack.  A handler may yield in the middle, so it is so only   *)
(* because the intena sched restores is the process's own, not that of the  *)
(* processor it comes back on (proc.c:735).                                 *)
OneHandler ==
  \A t \in Thread :
    Len(SelectSeq(code[t], LAMBDA s : s.op = "iret")) <= IF t \in Process THEN 2 ELSE 1

(* Locks and interrupts go together: whichever instruction an interrupt   *)
(* meets and on whichever processor a process comes back, no check of     *)
(* acquire, release, popcli or sched fails, no handler can meet a lock    *)
(* its own processor holds, and no handler is interrupted                 *)
(* (spinlock.c:24-116, proc.c:722-763).                                   *)
LocksSafe == NoLockPanic /\ InterruptibleUnlocked /\ OneHandler
=============================================================================

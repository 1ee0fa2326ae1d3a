--------------------------------- MODULE Log ---------------------------------
(***************************************************************************)
(* log.c: the redo log through which all file system calls write, with the *)
(* buffer cache and the disk as far as the log relies on them.  Several    *)
(* calls share a transaction; the last one to end commits it.  A disk      *)
(* block is one sector, so its write is one step, and the machine may      *)
(* crash between any two steps, those of the recovery included.            *)
(***************************************************************************)
EXTENDS Integers, Sequences, FiniteSets

CONSTANTS
  Proc,         \* the processes that make file system calls
  Block,        \* the blocks outside the log
  NoBlock,      \* not a block: no buffer is held
  Value,        \* contents of a block
  MAXOPBLOCKS,  \* blocks begin_op() reserves for a call
  LOGSIZE,      \* entries of the log header
  LogBlocks,    \* log.size: the blocks of the log on disk, header included
  OpBlocks,     \* the most blocks a call really writes
  MaxCrash      \* bound on the number of crashes

ASSUME LogAssumption ==
  /\ MAXOPBLOCKS \in Nat \ {0}
  /\ LOGSIZE \in Nat \ {0}
  /\ MAXOPBLOCKS <= LOGSIZE
  /\ LogBlocks \in Nat \ {0}
  /\ OpBlocks \in Nat
  /\ MaxCrash \in Nat
  /\ IsFiniteSet(Proc)
  /\ NoBlock \notin Block

VARIABLES
  home, hdr, body,  \* on disk: the blocks, the log's header and its blocks
  cache,            \* what bread() returns for a block
  dirty,            \* the blocks pinned in the cache by B_DIRTY
  lh,               \* log.lh: the blocks of the transaction
  outstanding, committing,  \* the fields of log
  tail,             \* the loop counter of write_log() and install_trans()
  pc,               \* where each process is
  buf,              \* the block whose buffer a process holds
  wrote,            \* the blocks each call has written
  mode,             \* "run", or the step of recover_from_log()
  crashes,          \* bounded by MaxCrash
  panicked

disk == <<home, hdr, body>>
counts == <<outstanding, committing>>
calls == <<buf, wrote>>
vars == <<disk, cache, dirty, lh, counts, tail, pc, calls, mode, crashes, panicked>>

InOp == {"op", "check", "record"}
Committing == {"wlog", "whead", "install", "clear", "done"}

InLog(b, s) == \E i \in 1 .. Len(s) : s[i] = b

(* The disk as recover_from_log() would leave it.                          *)
Recovered(h, s, d) ==
  [b \in Block |-> IF InLog(b, s)
                   THEN d[CHOOSE i \in 1 .. Len(s) : s[i] = b]
                   ELSE h[b]]

Init ==
  \E v \in Value :
    /\ home = [b \in Block |-> v]
    /\ hdr = <<>>
    /\ body = [i \in 1 .. LOGSIZE |-> v]
    /\ cache = home
    /\ dirty = {}
    /\ lh = <<>>
    /\ outstanding = 0
    /\ committing = FALSE
    /\ tail = 1
    /\ pc = [p \in Proc |-> "idle"]
    /\ buf = [p \in Proc |-> NoBlock]
    /\ wrote = [p \in Proc |-> {}]
    /\ mode = "run"
    /\ crashes = 0
    /\ panicked = "none"

Running == mode = "run" /\ panicked = "none"

Panic(msg) ==
  /\ panicked' = msg
  /\ UNCHANGED <<disk, cache, dirty, lh, counts, tail, pc, calls, mode, crashes>>

-----------------------------------------------------------------------------

(* One turn of begin_op()'s loop: sleep on &log, or start the call.        *)
BeginOp(p) ==
  /\ Running
  /\ pc[p] \in {"idle", "begin"}
  /\ IF committing \/ Len(lh) + (outstanding + 1) * MAXOPBLOCKS > LOGSIZE
     THEN /\ pc' = [pc EXCEPT ![p] = "sleep"]
          /\ UNCHANGED <<outstanding, wrote>>
     ELSE /\ outstanding' = outstanding + 1
          /\ wrote' = [wrote EXCEPT ![p] = {}]
          /\ pc' = [pc EXCEPT ![p] = "op"]
  /\ UNCHANGED <<disk, cache, dirty, lh, committing, tail, buf, mode, crashes, panicked>>

(* The call has bread() a block and modifies its contents.                 *)
Modify(p, b, v) ==
  /\ Running
  /\ pc[p] = "op"
  /\ \A q \in Proc : buf[q] # b
  /\ Cardinality(wrote[p] \cup {b}) <= OpBlocks
  /\ cache' = [cache EXCEPT ![b] = v]
  /\ buf' = [buf EXCEPT ![p] = b]
  /\ wrote' = [wrote EXCEPT ![p] = @ \cup {b}]
  /\ pc' = [pc EXCEPT ![p] = "check"]
  /\ UNCHANGED <<disk, dirty, lh, counts, tail, mode, crashes, panicked>>

(* log_write(): its checks are made before it takes the lock.              *)
LogWriteCheck(p) ==
  /\ Running
  /\ pc[p] = "check"
  /\ IF Len(lh) >= LOGSIZE \/ Len(lh) >= LogBlocks - 1
     THEN Panic("too big a transaction")
     ELSE IF outstanding < 1
     THEN Panic("log_write outside of trans")
     ELSE /\ pc' = [pc EXCEPT ![p] = "record"]
          /\ UNCHANGED <<disk, cache, dirty, lh, counts, tail, calls, mode, crashes, panicked>>

(* Faulty variant: the buffer is not pinned.                               *)
LogWriteUnpinned(p) ==
  /\ Running
  /\ pc[p] = "record"
  /\ lh' = IF InLog(buf[p], lh) THEN lh ELSE Append(lh, buf[p])
  /\ buf' = [buf EXCEPT ![p] = NoBlock]
  /\ pc' = [pc EXCEPT ![p] = "op"]
  /\ UNCHANGED <<disk, cache, dirty, counts, tail, wrote, mode, crashes, panicked>>

(* log_write(), under the lock: absorb or append, and pin.  Then brelse(). *)
LogWrite(p) ==
  /\ Running
  /\ pc[p] = "record"
  /\ lh' = IF InLog(buf[p], lh) THEN lh ELSE Append(lh, buf[p])
  /\ dirty' = dirty \cup {buf[p]}
  /\ buf' = [buf EXCEPT ![p] = NoBlock]
  /\ pc' = [pc EXCEPT ![p] = "op"]
  /\ UNCHANGED <<disk, cache, counts, tail, wrote, mode, crashes, panicked>>

(* wakeup(&log)                                                            *)
Woken(f) == [q \in Proc |-> IF f[q] = "sleep" THEN "begin" ELSE f[q]]

(* Faulty variant: every call commits, while others are still running.     *)
EndOpAlone(p) ==
  /\ Running
  /\ pc[p] = "op"
  /\ IF committing
     THEN Panic("log.committing")
     ELSE /\ outstanding' = outstanding - 1
          /\ committing' = TRUE
          /\ tail' = 1
          /\ pc' = [pc EXCEPT ![p] = IF lh = <<>> THEN "done" ELSE "wlog"]
          /\ UNCHANGED <<disk, cache, dirty, lh, calls, mode, crashes, panicked>>

(* Faulty variant: off by one in commit(), a single block is not written.  *)
EndOpOffByOne(p) ==
  /\ Running
  /\ pc[p] = "op"
  /\ outstanding' = outstanding - 1
  /\ IF outstanding = 1
     THEN /\ committing' = TRUE
          /\ tail' = 1
          /\ pc' = [pc EXCEPT ![p] = IF Len(lh) <= 1 THEN "done" ELSE "wlog"]
     ELSE /\ pc' = Woken([pc EXCEPT ![p] = "idle"])
          /\ UNCHANGED <<committing, tail>>
  /\ UNCHANGED <<disk, cache, dirty, lh, calls, mode, crashes, panicked>>

(* end_op(): the last call goes on to commit(), which has nothing to do    *)
(* when nothing was written.                                               *)
EndOp(p) ==
  /\ Running
  /\ pc[p] = "op"
  /\ IF committing
     THEN Panic("log.committing")
     ELSE /\ outstanding' = outstanding - 1
          /\ IF outstanding = 1
             THEN /\ committing' = TRUE
                  /\ tail' = 1
                  /\ pc' = [pc EXCEPT ![p] = IF lh = <<>> THEN "done" ELSE "wlog"]
             ELSE /\ pc' = Woken([pc EXCEPT ![p] = "idle"])
                  /\ UNCHANGED <<committing, tail>>
          /\ UNCHANGED <<disk, cache, dirty, lh, calls, mode, crashes, panicked>>

-----------------------------------------------------------------------------
(* The loops of write_log() and install_trans() write one block per step.  *)
Advance(p, there, next) ==
  IF tail = Len(lh)
  THEN /\ pc' = [pc EXCEPT ![p] = next]
       /\ tail' = 1
  ELSE /\ pc' = [pc EXCEPT ![p] = there]
       /\ tail' = tail + 1

WriteLog(p) ==
  /\ Running
  /\ pc[p] = "wlog"
  /\ body' = [body EXCEPT ![tail] = cache[lh[tail]]]
  /\ Advance(p, "wlog", "whead")
  /\ UNCHANGED <<home, hdr, cache, dirty, lh, counts, calls, mode, crashes, panicked>>

(* write_head(): "the true point at which the current transaction commits".*)
WriteHead(p) ==
  /\ Running
  /\ pc[p] = "whead"
  /\ hdr' = lh
  /\ pc' = [pc EXCEPT ![p] = "install"]
  /\ UNCHANGED <<home, body, cache, dirty, lh, counts, tail, calls, mode, crashes, panicked>>

(* install_trans(): the write to the home location clears B_DIRTY.         *)
InstallBlock ==
  /\ home' = [home EXCEPT ![lh[tail]] = body[tail]]
  /\ cache' = [cache EXCEPT ![lh[tail]] = body[tail]]
  /\ dirty' = dirty \ {lh[tail]}
  /\ UNCHANGED <<hdr, body>>

InstallTrans(p) ==
  /\ Running
  /\ pc[p] = "install"
  /\ InstallBlock
  /\ Advance(p, "install", "clear")
  /\ UNCHANGED <<lh, counts, calls, mode, crashes, panicked>>

(* log.lh.n = 0 and the second write_head().                               *)
ClearHead(p) ==
  /\ Running
  /\ pc[p] = "clear"
  /\ lh' = <<>>
  /\ hdr' = <<>>
  /\ pc' = [pc EXCEPT ![p] = "done"]
  /\ UNCHANGED <<home, body, cache, dirty, counts, tail, calls, mode, crashes, panicked>>

(* Faulty variant: the end of a commit wakes nobody.                       *)
CommitDoneNoWakeup(p) ==
  /\ Running
  /\ pc[p] = "done"
  /\ committing' = FALSE
  /\ pc' = [pc EXCEPT ![p] = "idle"]
  /\ UNCHANGED <<disk, cache, dirty, lh, outstanding, tail, calls, mode, crashes, panicked>>

(* The end of end_op() after a commit.                                     *)
CommitDone(p) ==
  /\ Running
  /\ pc[p] = "done"
  /\ committing' = FALSE
  /\ pc' = Woken([pc EXCEPT ![p] = "idle"])
  /\ UNCHANGED <<disk, cache, dirty, lh, outstanding, tail, calls, mode, crashes, panicked>>

(* bget() recycles a buffer that is neither busy nor dirty; the next       *)
(* bread() of its block reads the disk.                                    *)
Evict(b) ==
  /\ Running
  /\ b \notin dirty
  /\ \A p \in Proc : buf[p] # b
  /\ cache' = [cache EXCEPT ![b] = home[b]]
  /\ UNCHANGED <<disk, dirty, lh, counts, tail, pc, calls, mode, crashes, panicked>>

-----------------------------------------------------------------------------
(* A power failure, or a reboot after a panic: the memory is lost.         *)
Crash ==
  /\ crashes < MaxCrash
  /\ crashes' = crashes + 1
  /\ cache' = home
  /\ dirty' = {}
  /\ lh' = <<>>
  /\ outstanding' = 0
  /\ committing' = FALSE
  /\ tail' = 1
  /\ pc' = [p \in Proc |-> "idle"]
  /\ buf' = [p \in Proc |-> NoBlock]
  /\ wrote' = [p \in Proc |-> {}]
  /\ mode' = "read_head"
  /\ panicked' = "none"
  /\ UNCHANGED disk

(* initlog() runs recover_from_log() before the first process uses files.  *)
RecoverRead ==
  /\ mode = "read_head"
  /\ lh' = hdr
  /\ mode' = IF hdr = <<>> THEN "clear" ELSE "install"
  /\ UNCHANGED <<disk, cache, dirty, counts, tail, pc, calls, crashes, panicked>>

RecoverInstall ==
  /\ mode = "install"
  /\ InstallBlock
  /\ IF tail = Len(lh)
     THEN mode' = "clear" /\ tail' = 1
     ELSE tail' = tail + 1 /\ UNCHANGED mode
  /\ UNCHANGED <<lh, counts, pc, calls, crashes, panicked>>

(* Faulty variant: the recovery leaves the header it has installed.        *)
RecoverNoClear ==
  /\ mode = "clear"
  /\ lh' = <<>>
  /\ mode' = "run"
  /\ UNCHANGED <<disk, cache, dirty, counts, tail, pc, calls, crashes, panicked>>

RecoverClear ==
  /\ mode = "clear"
  /\ lh' = <<>>
  /\ hdr' = <<>>
  /\ mode' = "run"
  /\ UNCHANGED <<home, body, cache, dirty, counts, tail, pc, calls, crashes, panicked>>

-----------------------------------------------------------------------------
ProcStep(p) ==
  \/ BeginOp(p)
  \/ LogWriteCheck(p)
  \/ LogWrite(p)
  \/ EndOp(p)
  \/ WriteLog(p)
  \/ WriteHead(p)
  \/ InstallTrans(p)
  \/ ClearHead(p)
  \/ CommitDone(p)

Recover == RecoverRead \/ RecoverInstall \/ RecoverClear

Next ==
  \/ \E p \in Proc : ProcStep(p)
  \/ \E p \in Proc, b \in Block, v \in Value : Modify(p, b, v)
  \/ \E b \in Block : Evict(b)
  \/ Crash
  \/ Recover

Spec == Init /\ [][Next]_vars

(* A process that is inside begin_op(), a call or end_op() is scheduled    *)
(* again and again and its call ends; one that is asleep, or not in a file *)
(* system call, owes nothing.  A machine that has crashed is restarted.    *)
FairSpec ==
  /\ Spec
  /\ \A p \in Proc : WF_vars(pc[p] # "idle" /\ ProcStep(p)) /\ SF_vars(EndOp(p))
  /\ WF_vars(Recover)

-----------------------------------------------------------------------------
TypeOK ==
  /\ home \in [Block -> Value]
  /\ hdr \in Seq(Block)
  /\ body \in [1 .. LOGSIZE -> Value]
  /\ cache \in [Block -> Value]
  /\ dirty \in SUBSET Block
  /\ lh \in Seq(Block)
  /\ outstanding \in Int
  /\ committing \in BOOLEAN
  /\ tail \in Nat \ {0}
  /\ pc \in [Proc -> {"idle", "begin", "sleep"} \cup InOp \cup Committing]
  /\ buf \in [Proc -> Block \cup {NoBlock}]
  /\ wrote \in [Proc -> SUBSET Block]
  /\ mode \in {"run", "read_head", "install", "clear"}
  /\ crashes \in 0 .. MaxCrash
  /\ panicked \in {"none", "too big a transaction", "log_write outside of trans",
                    "log.committing"}

(* The log implements the atomic disk: a crash leaves what the recovery    *)
(* will make of the disk, a commit happens when the header is written.     *)
stableBar == Recovered(home, hdr, body)
volatileBar == IF mode = "run" THEN cache ELSE stableBar
opsBar == {p \in Proc : pc[p] \in InOp}

Abstract == INSTANCE AtomicDisk
              WITH stable <- stableBar, volatile <- volatileBar, ops <- opsBar

(* Whatever crashes happen, at whatever point of a call, of a commit or of *)
(* a recovery, the calls' writes reach the disk together or not at all.    *)
CrashAtomic == Abstract!Spec

(* Once no call is running and no commit is under way, nothing would be    *)
(* lost in a crash.                                                        *)
Durable ==
  Running /\ outstanding = 0 /\ ~committing => cache = stableBar

(* The reservation of begin_op() is enough: log_write() never finds the    *)
(* log full, although it looks before it takes the lock.                   *)
NoLogPanic == panicked = "none"

(* A process that waits for log space or for a commit is woken.            *)
WaiterWoken == \A p \in Proc : pc[p] = "sleep" ~> pc[p] # "sleep"

(* A transaction that has begun to commit is durable in the end, if the    *)
(* machine does not crash before its header is written.                    *)
CommitEnds ==
  (\E p \in Proc : pc[p] \in Committing) ~> (mode = "run" /\ hdr = <<>> /\ ~committing)
==============================================================================

------------------------------- MODULE BufCache -------------------------------
(***************************************************************************)
(* The buffer cache of bio.c and the disk driver of ide.c.  Processes read *)
(* a block, may change it, write it to the disk or leave it pinned for the *)
(* log, and release it; the disk's interrupt handler runs in between.      *)
(* Sections under bcache.lock and idelock are single steps.  sleep() gives *)
(* its lock up atomically (see ProcTable), and both bget() and iderw()     *)
(* sleep on the buffer itself, so every wakeup of it reaches both.         *)
(***************************************************************************)
EXTENDS Integers, Sequences, SequencesExt, FiniteSets

CONSTANTS
  Proc,
  Block,
  NoBlock,     \* b->dev = -1: the buffer holds nothing
  Value,
  NBUF,        \* buffers in the cache
  MaxPinned,   \* bound: blocks the log keeps pinned
  DiskErrors   \* whether a read may fail

ASSUME BufAssumption ==
  /\ NoBlock \notin Block
  /\ NBUF \in Nat \ {0}
  /\ MaxPinned \in Nat
  /\ DiskErrors \in BOOLEAN

VARIABLES
  lru,         \* bcache.head's list, most recently used first
  blockno, busy, valid, dirty, data,  \* the fields of each buffer
  idequeue,
  disk,        \* the contents of the disk
  pc,          \* where each process is
  want,        \* the block it asks bget() for
  mine,        \* the buffer it holds or sleeps on
  panicked

flags == <<busy, valid, dirty>>
vars == <<lru, blockno, flags, data, idequeue, disk, pc, want, mine, panicked>>

Buf == 1 .. NBUF
NoBuf == 0

(* Where a process has the buffer to itself.                               *)
Holding == {"got", "iosleep", "iowake", "hold", "changed"}

Init ==
  \E v \in Value :
    /\ lru = [i \in Buf |-> NBUF + 1 - i]
    /\ blockno = [x \in Buf |-> NoBlock]
    /\ busy = [x \in Buf |-> FALSE]
    /\ valid = [x \in Buf |-> FALSE]
    /\ dirty = [x \in Buf |-> FALSE]
    /\ data = [x \in Buf |-> v]
    /\ idequeue = <<>>
    /\ disk \in [Block -> Value]
    /\ pc = [p \in Proc |-> "idle"]
    /\ want = [p \in Proc |-> NoBlock]
    /\ mine = [p \in Proc |-> NoBuf]
    /\ panicked = "none"

Panic(msg) ==
  /\ panicked' = msg
  /\ UNCHANGED <<lru, blockno, flags, data, idequeue, disk, pc, want, mine>>

-----------------------------------------------------------------------------
Call(p, b) ==
  /\ pc[p] = "idle"
  /\ pc' = [pc EXCEPT ![p] = "bget"]
  /\ want' = [want EXCEPT ![p] = b]
  /\ UNCHANGED <<lru, blockno, flags, data, idequeue, disk, mine, panicked>>

Cached(b) == {x \in Buf : blockno[x] = b}

(* bget(): the block is cached, and free or in use.                        *)
BgetCached(p) ==
  /\ pc[p] = "bget"
  /\ \E x \in Cached(want[p]) :
       /\ mine' = [mine EXCEPT ![p] = x]
       /\ IF busy[x]
          THEN /\ pc' = [pc EXCEPT ![p] = "bsleep"]
               /\ UNCHANGED busy
          ELSE /\ pc' = [pc EXCEPT ![p] = "got"]
               /\ busy' = [busy EXCEPT ![x] = TRUE]
  /\ UNCHANGED <<lru, blockno, valid, dirty, data, idequeue, disk, want, panicked>>

(* Faulty variant: a buffer that the log still needs counts as free.       *)
RecyclableDirty(x) == ~busy[x]

Recyclable(x) == ~busy[x] /\ ~dirty[x]

(* The least recently used buffer that can be recycled.                    *)
Victim ==
  lru[CHOOSE i \in Buf :
        Recyclable(lru[i]) /\ \A j \in Buf : Recyclable(lru[j]) => j <= i]

(* Faulty variant: the flags of the recycled buffer are kept.              *)
BgetRecycleStale(p) ==
  /\ pc[p] = "bget"
  /\ Cached(want[p]) = {}
  /\ IF \E x \in Buf : Recyclable(x)
     THEN LET x == Victim IN
          /\ blockno' = [blockno EXCEPT ![x] = want[p]]
          /\ busy' = [busy EXCEPT ![x] = TRUE]
          /\ mine' = [mine EXCEPT ![p] = x]
          /\ pc' = [pc EXCEPT ![p] = "got"]
          /\ UNCHANGED <<lru, valid, dirty, data, idequeue, disk, want, panicked>>
     ELSE Panic("bget: no buffers")

(* Faulty variant: only the last buffer of the list is tried.              *)
BgetRecycleLast(p) ==
  /\ pc[p] = "bget"
  /\ Cached(want[p]) = {}
  /\ IF Recyclable(lru[NBUF])
     THEN LET x == lru[NBUF] IN
          /\ blockno' = [blockno EXCEPT ![x] = want[p]]
          /\ busy' = [busy EXCEPT ![x] = TRUE]
          /\ valid' = [valid EXCEPT ![x] = FALSE]
          /\ mine' = [mine EXCEPT ![p] = x]
          /\ pc' = [pc EXCEPT ![p] = "got"]
          /\ UNCHANGED <<lru, dirty, data, idequeue, disk, want, panicked>>
     ELSE Panic("bget: no buffers")

(* bget(): the block is not cached; recycle the least recently used buffer *)
(* that is neither busy nor dirty.                                         *)
BgetRecycle(p) ==
  /\ pc[p] = "bget"
  /\ Cached(want[p]) = {}
  /\ IF \E x \in Buf : Recyclable(x)
     THEN LET x == Victim IN
          /\ blockno' = [blockno EXCEPT ![x] = want[p]]
          /\ busy' = [busy EXCEPT ![x] = TRUE]
          /\ valid' = [valid EXCEPT ![x] = FALSE]
          /\ dirty' = [dirty EXCEPT ![x] = FALSE]
          /\ mine' = [mine EXCEPT ![p] = x]
          /\ pc' = [pc EXCEPT ![p] = "got"]
          /\ UNCHANGED <<lru, data, idequeue, disk, want, panicked>>
     ELSE Panic("bget: no buffers")

-----------------------------------------------------------------------------
(* iderw(): put the buffer, whose dirty flag is d, on the queue and sleep. *)
Iderw(p, x, d) ==
  IF ~busy[x]
  THEN Panic("iderw: buf not busy")
  ELSE IF valid[x] /\ ~d
  THEN Panic("iderw: nothing to do")
  ELSE /\ dirty' = [dirty EXCEPT ![x] = d]
       /\ idequeue' = Append(idequeue, x)
       /\ pc' = [pc EXCEPT ![p] = "iosleep"]
       /\ UNCHANGED <<lru, blockno, busy, valid, data, disk, want, mine, panicked>>

(* bread(): after bget(), read the block unless the buffer is valid.       *)
Bread(p) ==
  LET x == mine[p] IN
  /\ pc[p] = "got"
  /\ IF valid[x]
     THEN /\ pc' = [pc EXCEPT ![p] = "hold"]
          /\ UNCHANGED <<lru, blockno, flags, data, idequeue, disk, want, mine, panicked>>
     ELSE Iderw(p, x, dirty[x])

(* The rest of iderw()'s loop, once woken.                                 *)
IderwLoop(p) ==
  LET x == mine[p] IN
  /\ pc[p] = "iowake"
  /\ pc' = [pc EXCEPT ![p] = IF valid[x] /\ ~dirty[x] THEN "hold" ELSE "iosleep"]
  /\ UNCHANGED <<lru, blockno, flags, data, idequeue, disk, want, mine, panicked>>

(* The holder changes the block.                                           *)
Change(p, v) ==
  /\ pc[p] = "hold"
  /\ data' = [data EXCEPT ![mine[p]] = v]
  /\ pc' = [pc EXCEPT ![p] = "changed"]
  /\ UNCHANGED <<lru, blockno, flags, idequeue, disk, want, mine, panicked>>

(* bwrite(), also of a block that is only pinned (the log installs it).    *)
Bwrite(p) ==
  /\ pc[p] \in {"hold", "changed"}
  /\ IF ~busy[mine[p]] THEN Panic("bwrite") ELSE Iderw(p, mine[p], TRUE)

(* log_write() sets B_DIRTY and leaves the disk write to the commit.       *)
Pin(p) ==
  LET x == mine[p] IN
  /\ pc[p] = "changed"
  /\ dirty[x] \/ Cardinality({y \in Buf : dirty[y]}) < MaxPinned
  /\ dirty' = [dirty EXCEPT ![x] = TRUE]
  /\ pc' = [pc EXCEPT ![p] = "hold"]
  /\ UNCHANGED <<lru, blockno, busy, valid, data, idequeue, disk, want, mine, panicked>>

(* wakeup(x): bget() and iderw() both look again.                          *)
Woken(f, x) ==
  [q \in Proc |-> IF mine[q] = x /\ f[q] = "bsleep" THEN "bget"
                  ELSE IF mine[q] = x /\ f[q] = "iosleep" THEN "iowake"
                  ELSE f[q]]


(* brelse(): the buffer moves to the front of the list.                    *)
Brelse(p) ==
  LET x == mine[p] IN
  /\ pc[p] = "hold"
  /\ IF ~busy[x]
     THEN Panic("brelse")
     ELSE /\ lru' = <<x>> \o RemoveFirst(lru, x)
          /\ busy' = [busy EXCEPT ![x] = FALSE]
          /\ pc' = Woken([pc EXCEPT ![p] = "idle"], x)
          /\ mine' = [mine EXCEPT ![p] = NoBuf]
          /\ want' = [want EXCEPT ![p] = NoBlock]
          /\ UNCHANGED <<blockno, valid, dirty, data, idequeue, disk, panicked>>

-----------------------------------------------------------------------------
(* Faulty variant: the handler drops the queue behind the finished buffer. *)
IdeIntrDropsQueue ==
  LET x == Head(idequeue) IN
  /\ idequeue # <<>>
  /\ idequeue' = <<>>
  /\ IF dirty[x]
     THEN disk' = [disk EXCEPT ![blockno[x]] = data[x]] /\ UNCHANGED data
     ELSE data' = [data EXCEPT ![x] = disk[blockno[x]]] /\ UNCHANGED disk
  /\ valid' = [valid EXCEPT ![x] = TRUE]
  /\ dirty' = [dirty EXCEPT ![x] = FALSE]
  /\ pc' = Woken(pc, x)
  /\ UNCHANGED <<lru, blockno, busy, want, mine, panicked>>

(* ideintr(): the first buffer of the queue is done.  A read that fails    *)
(* leaves its data as it was; B_VALID is set all the same.                 *)
IdeIntr ==
  LET x == Head(idequeue) IN
  /\ idequeue # <<>>
  /\ idequeue' = Tail(idequeue)
  /\ \/ /\ dirty[x]
        /\ disk' = [disk EXCEPT ![blockno[x]] = data[x]]
        /\ UNCHANGED data
     \/ /\ ~dirty[x]
        /\ \E got \in {disk[blockno[x]]} \cup (IF DiskErrors THEN {data[x]} ELSE {}) :
             data' = [data EXCEPT ![x] = got]
        /\ UNCHANGED disk
  /\ valid' = [valid EXCEPT ![x] = TRUE]
  /\ dirty' = [dirty EXCEPT ![x] = FALSE]
  /\ pc' = Woken(pc, x)
  /\ UNCHANGED <<lru, blockno, busy, want, mine, panicked>>

-----------------------------------------------------------------------------
ProcStep(p) ==
  \/ BgetCached(p)
  \/ BgetRecycle(p)
  \/ Bread(p)
  \/ IderwLoop(p)
  \/ Bwrite(p)
  \/ Pin(p)
  \/ Brelse(p)

Next ==
  /\ panicked = "none"
  /\ \/ \E p \in Proc : ProcStep(p)
     \/ \E p \in Proc, b \in Block : Call(p, b)
     \/ \E p \in Proc, v \in Value : Change(p, v)
     \/ IdeIntr

Spec == Init /\ [][Next]_vars

(* The disk answers, processes are scheduled, and whoever holds a block    *)
(* releases it in the end.                                                 *)
FairSpec ==
  /\ Spec
  /\ WF_vars(panicked = "none" /\ IdeIntr)
  /\ \A p \in Proc : /\ WF_vars(panicked = "none" /\ ProcStep(p))
                     /\ SF_vars(panicked = "none" /\ Brelse(p))

-----------------------------------------------------------------------------
TypeOK ==
  /\ lru \in [Buf -> Buf]
  /\ blockno \in [Buf -> Block \cup {NoBlock}]
  /\ {busy, valid, dirty} \subseteq [Buf -> BOOLEAN]
  /\ data \in [Buf -> Value]
  /\ idequeue \in Seq(Buf)
  /\ disk \in [Block -> Value]
  /\ pc \in [Proc -> Holding \cup {"idle", "bget", "bsleep"}]
  /\ want \in [Proc -> Block \cup {NoBlock}]
  /\ mine \in [Proc -> Buf \cup {NoBuf}]

(* The cache implements the block store: a block's contents are those of   *)
(* its valid buffer if it has one, and the disk's otherwise.               *)
storeBar ==
  [b \in Block |-> IF \E x \in Cached(b) : valid[x]
                   THEN data[CHOOSE x \in Cached(b) : valid[x]]
                   ELSE disk[b]]
holderBar == [b \in Block |-> {p \in Proc : pc[p] \in Holding /\ want[p] = b}]

Abstract == INSTANCE BlockStore WITH store <- storeBar, holder <- holderBar

(* However reads, writes, recycling and interrupts interleave, a block has *)
(* one holder at a time, who sees what the last one left.                  *)
Serial == Abstract!Spec

(* A valid buffer that is neither dirty nor being changed has what is on   *)
(* the disk (the comment on B_VALID in bio.c).                             *)
ValidMatchesDisk ==
  \A x \in Buf :
    /\ valid[x]
    /\ ~dirty[x]
    /\ ~ \E p \in Proc : mine[p] = x /\ pc[p] = "changed"
    => data[x] = disk[blockno[x]]

(* No assertion of bio.c or ide.c fails, and bget() finds a buffer.        *)
NoBufPanic == panicked = "none"

(* Whoever sleeps will be woken: the buffer that bget() waits for is held  *)
(* by someone, the one that iderw() waits for is on the disk's queue.      *)
NoLostWakeup ==
  \A p \in Proc :
    /\ pc[p] = "bsleep" => busy[mine[p]]
    /\ pc[p] = "iosleep" => mine[p] \in Range(idequeue)


(* Every sleep of bget() and of iderw() ends.                              *)
SleepEnds ==
  \A p \in Proc : pc[p] \in {"bsleep", "iosleep"} ~> pc[p] \notin {"bsleep", "iosleep"}
==============================================================================

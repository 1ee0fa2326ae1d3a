-------------------------------- MODULE Pipe --------------------------------
(***************************************************************************)
(* Pipes (pipe.c): a ring of PIPESIZE bytes between two counters, in a     *)
(* page of its own, with the sleeps and wakeups of readers and writers.    *)
(* A critical section of the pipe's lock is one step, except that the lock *)
(* stays held between the test of a condition and the sleep, where kill()  *)
(* can still run.  Module FileTable opens and closes the ends.             *)
(***************************************************************************)
EXTENDS Integers, Sequences, FiniteSets

CONSTANTS
  Proc,       \* processes
  Page,       \* pages that kalloc() hands out for pipes
  None,       \* no process, no page, no file
  Value,      \* bytes
  Messages,   \* what processes write
  PIPESIZE,   \* bytes in a pipe
  WRAP        \* nread and nwrite count modulo WRAP (2^32 in the code)

ASSUME RingAssumption ==
  /\ PIPESIZE \in Nat \ {0}
  /\ WRAP \in Nat \ {0} /\ WRAP % PIPESIZE = 0 /\ WRAP > PIPESIZE
  /\ Messages \subseteq Seq(Value)

VARIABLES
  pipe,    \* struct pipe in each page
  pc,      \* where each process is in the kernel
  page,    \* the pipe it reads or writes
  pend,    \* bytes it has still to write
  size,    \* bytes it wants to read
  killed,  \* p->killed
  out      \* bytes that the last step copied to a reader

transfer == <<page, pend, size, killed>>
pipeVars == <<pipe, pc, transfer>>

Min2(a, b) == IF a < b THEN a ELSE b

Used(b) == (b.nwrite - b.nread + WRAP) % WRAP

(* The place of the byte with number n.                                    *)
Slot(n) == (n % WRAP) % PIPESIZE

(* The bytes written and not yet read.                                     *)
Contents(b) == [j \in 1 .. Used(b) |-> b.data[Slot(b.nread + j - 1)]]

InPipe == {"pipewrite", "wtest", "wsleep", "piperead", "rtest", "rsleep"}

(* A page that holds no pipe.                                              *)
NoPipe ==
  [alive |-> FALSE, data |-> [x \in 0 .. PIPESIZE - 1 |-> CHOOSE v \in Value : TRUE],
   nread |-> 0, nwrite |-> 0, readopen |-> FALSE, writeopen |-> FALSE, lock |-> None]

(* pipealloc() from kalloc() on.                                           *)
NewPipe == [NoPipe EXCEPT !.alive = TRUE, !.readopen = TRUE, !.writeopen = TRUE]

PipeInit ==
  /\ pipe = [g \in Page |-> NoPipe]
  /\ pc = [p \in Proc |-> "user"]
  /\ page = [p \in Proc |-> None]
  /\ pend = [p \in Proc |-> <<>>]
  /\ size = [p \in Proc |-> 0]
  /\ killed = [p \in Proc |-> FALSE]
  /\ out = <<>>

-----------------------------------------------------------------------------
(* wakeup(&p->nread) and wakeup(&p->nwrite): those asleep there go back to *)
(* the test of their loop.                                                 *)
WakeReaders(pcs, g) ==
  [p \in Proc |-> IF pcs[p] = "rsleep" /\ page[p] = g THEN "piperead" ELSE pcs[p]]


WakeWriters(pcs, g) ==
  [p \in Proc |-> IF pcs[p] = "wsleep" /\ page[p] = g THEN "pipewrite" ELSE pcs[p]]

(* filewrite() and fileread() on a pipe.                                   *)
StartWrite(p, g, m) ==
  /\ pc' = [pc EXCEPT ![p] = "pipewrite"]
  /\ page' = [page EXCEPT ![p] = g]
  /\ pend' = [pend EXCEPT ![p] = m]
  /\ UNCHANGED <<pipe, size, killed>>

StartRead(p, g, n) ==
  /\ pc' = [pc EXCEPT ![p] = "piperead"]
  /\ page' = [page EXCEPT ![p] = g]
  /\ size' = [size EXCEPT ![p] = n]
  /\ UNCHANGED <<pipe, pend, killed>>

(* Faulty variant: the counter moves before the byte is stored.            *)
StoredLate(b, s, k) ==
  [b EXCEPT !.nwrite = (b.nwrite + k) % WRAP,
            !.data = [x \in DOMAIN b.data |->
               IF \E j \in 1 .. k : Slot(b.nwrite + j) = x
               THEN s[CHOOSE j \in 1 .. k : Slot(b.nwrite + j) = x]
               ELSE b.data[x]]]

(* The ring after k bytes of s are put into it.                            *)
Stored(b, s, k) ==
  [b EXCEPT !.nwrite = (b.nwrite + k) % WRAP,
            !.data = [x \in DOMAIN b.data |->
               IF \E j \in 1 .. k : Slot(b.nwrite + j - 1) = x
               THEN s[CHOOSE j \in 1 .. k : Slot(b.nwrite + j - 1) = x]
               ELSE b.data[x]]]

(* Faulty variant: the ring takes one byte too many.                       *)
RoomOffByOne(b) == PIPESIZE + 1 - Used(b)

(* The room pipewrite() sees before its test "nwrite == nread + PIPESIZE". *)
Room(b) == PIPESIZE - Used(b)

(* pipewrite(): it writes until it is done or finds the ring full.         *)
PipeWrite(p) ==
  LET g == page[p]
      b == pipe[g]
      s == pend[p]
      k == Min2(Room(b), Len(s))
      full == k < Len(s)
      stop == full /\ (~b.readopen \/ killed[p])
  IN
  /\ pc[p] = "pipewrite"
  /\ b.lock = None
  /\ pend' = [pend EXCEPT ![p] = IF stop THEN <<>> ELSE SubSeq(s, k + 1, Len(s))]
  /\ \/ /\ ~full
        /\ pipe' = [pipe EXCEPT ![g] = Stored(b, s, k)]
        /\ pc' = WakeReaders([pc EXCEPT ![p] = "user"], g)
     \/ /\ stop
        /\ pipe' = [pipe EXCEPT ![g] = Stored(b, s, k)]
        /\ pc' = [pc EXCEPT ![p] = "user"]
     \/ /\ full /\ ~stop
        /\ pipe' = [pipe EXCEPT ![g] = [Stored(b, s, k) EXCEPT !.lock = p]]
        /\ pc' = WakeReaders([pc EXCEPT ![p] = "wtest"], g)
  /\ page' = [page EXCEPT ![p] = IF full /\ ~stop THEN g ELSE None]
  /\ UNCHANGED <<size, killed>>

(* The locals of a read that returns.                                      *)
EndRead(p) == page' = [page EXCEPT ![p] = None] /\ size' = [size EXCEPT ![p] = 0]

(* piperead(): it waits for a byte or for the end of the stream, then      *)
(* takes what there is.                                                    *)
PipeRead(p) ==
  LET g == page[p]
      b == pipe[g]
      c == Contents(b)
      k == Min2(size[p], Len(c))
      empty == c = <<>> /\ b.writeopen
  IN
  /\ pc[p] = "piperead"
  /\ b.lock = None
  /\ \/ /\ empty /\ ~killed[p]
        /\ pipe' = [pipe EXCEPT ![g].lock = p]
        /\ pc' = [pc EXCEPT ![p] = "rtest"]
        /\ out' = <<>>
        /\ UNCHANGED <<page, size>>
     \/ /\ empty /\ killed[p]
        /\ pc' = [pc EXCEPT ![p] = "user"]
        /\ out' = <<>>
        /\ EndRead(p)
        /\ UNCHANGED pipe
     \/ /\ ~empty
        /\ out' = SubSeq(c, 1, k)
        /\ EndRead(p)
        /\ pipe' = [pipe EXCEPT ![g].nread = (@ + k) % WRAP]
        /\ pc' = WakeWriters([pc EXCEPT ![p] = "user"], g)
  /\ UNCHANGED <<pend, killed>>

(* Faulty variant: the process sleeps with the lock held.                  *)
PipeSleepLocked(p) ==
  /\ pc[p] \in {"wtest", "rtest"}
  /\ pc' = [pc EXCEPT ![p] = IF @ = "wtest" THEN "wsleep" ELSE "rsleep"]
  /\ UNCHANGED <<pipe, page, pend, size, killed>>

(* sleep(): the process is asleep once the pipe's lock is free again.      *)
PipeSleep(p) ==
  /\ pc[p] \in {"wtest", "rtest"}
  /\ pc' = [pc EXCEPT ![p] = IF @ = "wtest" THEN "wsleep" ELSE "rsleep"]
  /\ pipe' = [pipe EXCEPT ![page[p]].lock = None]
  /\ UNCHANGED <<page, pend, size, killed>>

(* kill(): the victim is marked, and woken if it is asleep.  It takes the  *)
(* process table's lock and not the pipe's.                                *)
Kill(p) ==
  /\ ~killed[p]
  /\ killed' = [killed EXCEPT ![p] = TRUE]
  /\ pc' = [pc EXCEPT ![p] = CASE @ = "wsleep" -> "pipewrite"
                               [] @ = "rsleep" -> "piperead"
                               [] OTHER -> @]
  /\ UNCHANGED <<pipe, page, pend, size>>

(* Faulty variants: either end frees the page; bytes nobody read keep it.  *)
EitherEnd(b) == ~b.readopen \/ ~b.writeopen
BothEndsAndEmpty(b) == ~b.readopen /\ ~b.writeopen /\ Used(b) = 0

BothEnds(b) == ~b.readopen /\ ~b.writeopen

(* pipeclose(), after which p goes on at next: the second of the two ends  *)
(* to close frees the page.                                                *)
PipeClose(p, g, writable, next) ==
  LET b == IF writable THEN [pipe[g] EXCEPT !.writeopen = FALSE]
                       ELSE [pipe[g] EXCEPT !.readopen = FALSE]
  IN
  /\ pipe[g].lock = None
  /\ pipe' = [pipe EXCEPT ![g] = IF BothEnds(b) THEN NoPipe ELSE b]
  /\ LET pcs == [pc EXCEPT ![p] = next] IN
     pc' = IF writable THEN WakeReaders(pcs, g) ELSE WakeWriters(pcs, g)
==============================================================================

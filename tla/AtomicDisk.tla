------------------------------ MODULE AtomicDisk ------------------------------
(***************************************************************************)
(* What log.c promises to the file system calls: a disk of blocks on which *)
(* the writes of a call made between begin_op() and end_op() survive a     *)
(* crash together or not at all.                                           *)
(***************************************************************************)
CONSTANTS Proc, Block, Value

VARIABLES
  stable,    \* the blocks as a crash would leave them
  volatile,  \* the blocks as the running system reads them
  ops        \* the processes between begin_op() and end_op()

vars == <<stable, volatile, ops>>

Init ==
  /\ stable \in [Block -> Value]
  /\ volatile = stable
  /\ ops = {}

Begin(p) ==
  /\ p \notin ops
  /\ ops' = ops \cup {p}
  /\ UNCHANGED <<stable, volatile>>

Write(p, b, v) ==
  /\ p \in ops
  /\ volatile' = [volatile EXCEPT ![b] = v]
  /\ UNCHANGED <<stable, ops>>

End(p) ==
  /\ p \in ops
  /\ ops' = ops \ {p}
  /\ UNCHANGED <<stable, volatile>>

(* All calls that have ended become durable at once, and no call that is   *)
(* still running does so in part.                                          *)
Commit ==
  /\ ops = {}
  /\ stable' = volatile
  /\ UNCHANGED <<volatile, ops>>

Crash ==
  /\ volatile' = stable
  /\ ops' = {}
  /\ UNCHANGED stable

Next ==
  \/ \E p \in Proc : Begin(p) \/ End(p)
  \/ \E p \in Proc, b \in Block, v \in Value : Write(p, b, v)
  \/ Commit
  \/ Crash

Spec == Init /\ [][Next]_vars
==============================================================================

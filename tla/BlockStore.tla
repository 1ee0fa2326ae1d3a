------------------------------ MODULE BlockStore ------------------------------
(***************************************************************************)
(* What bio.c promises: bread() hands out a block to one process at a time *)
(* and shows it the contents that the last one left there, wherever they   *)
(* are (cache or disk).                                                    *)
(***************************************************************************)
CONSTANTS Proc, Block, Value

VARIABLES
  store,   \* contents of each block
  holder   \* the processes that hold each block

vars == <<store, holder>>

Init ==
  /\ store \in [Block -> Value]
  /\ holder = [b \in Block |-> {}]

Get(p, b) ==
  /\ holder[b] = {}
  /\ holder' = [holder EXCEPT ![b] = {p}]
  /\ UNCHANGED store

Put(p, b, v) ==
  /\ holder[b] = {p}
  /\ store' = [store EXCEPT ![b] = v]
  /\ UNCHANGED holder

Release(p, b) ==
  /\ holder[b] = {p}
  /\ holder' = [holder EXCEPT ![b] = {}]
  /\ UNCHANGED store

Next ==
  \E p \in Proc, b \in Block :
    \/ Get(p, b)
    \/ \E v \in Value : Put(p, b, v)
    \/ Release(p, b)

Spec == Init /\ [][Next]_vars
==============================================================================

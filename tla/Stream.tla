------------------------------- MODULE Stream -------------------------------
(***************************************************************************)
(* What a pipe promises: the bytes a process sends enter the stream in     *)
(* order, and leave it in the order they entered.  A send may stop early   *)
(* and what it has not sent is dropped; a stream that nobody reads or      *)
(* writes any more is emptied.                                             *)
(***************************************************************************)
EXTENDS Naturals, Sequences

CONSTANTS Proc, Page, Value, Capacity

VARIABLES
  q,     \* the bytes in each stream
  pend,  \* what each process has still to send
  out    \* what the last step delivered

vars == <<q, pend, out>>

Init ==
  /\ q = [g \in Page |-> <<>>]
  /\ pend = [p \in Proc |-> <<>>]
  /\ out = <<>>

(* A process starts to send.                                               *)
Start(p) ==
  /\ pend[p] = <<>>
  /\ pend'[p] \in Seq(Value)
  /\ pend' = [pend EXCEPT ![p] = pend'[p]]
  /\ out' = <<>>
  /\ UNCHANGED q

(* Some bytes enter the stream; the sender goes on or gives up.            *)
Send(p, g) ==
  \E k \in 0 .. Len(pend[p]) :
    LET rest == SubSeq(pend[p], k + 1, Len(pend[p])) IN
    /\ Len(q[g]) + k <= Capacity
    /\ q' = [q EXCEPT ![g] = @ \o SubSeq(pend[p], 1, k)]
    /\ \E left \in {rest, <<>>} : pend' = [pend EXCEPT ![p] = left]
    /\ out' = <<>>

(* A reader receives the oldest bytes.                                    *)
Receive(g) ==
  \E k \in 0 .. Len(q[g]) :
    /\ out' = SubSeq(q[g], 1, k)
    /\ q' = [q EXCEPT ![g] = SubSeq(@, k + 1, Len(@))]
    /\ UNCHANGED pend

Discard(g) == q' = [q EXCEPT ![g] = <<>>] /\ out' = <<>> /\ UNCHANGED pend

(* A step that concerns no stream.                                         *)
Other == out' = <<>> /\ UNCHANGED <<q, pend>>

Next ==
  \/ \E p \in Proc : Start(p)
  \/ \E p \in Proc, g \in Page : Send(p, g)
  \/ \E g \in Page : Receive(g) \/ Discard(g)
  \/ Other

Spec == Init /\ [][Next]_vars
==============================================================================

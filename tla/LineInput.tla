----------------------------- MODULE LineInput -----------------------------
(***************************************************************************)
(* What the console promises its readers: typed characters form a line     *)
(* that can be edited until it is ended; characters of ended lines are     *)
(* delivered once each, in the order they were typed, whoever reads; an    *)
(* end-of-file mark is consumed only by a call that delivers nothing else. *)
(***************************************************************************)
EXTENDS Naturals, Sequences

CONSTANTS Proc, Char, Newline, EOF, Capacity

VARIABLES
  line,   \* ended and not yet delivered
  pend,   \* typed and not yet ended
  got     \* how many characters each process's call has been delivered

vars == <<line, pend, got>>

Init == line = <<>> /\ pend = <<>> /\ got = [p \in Proc |-> 0]

Ends(c) == c \in {Newline, EOF} \/ Len(line) + Len(pend) + 1 = Capacity

Type(c) ==
  /\ Len(line) + Len(pend) < Capacity
  /\ line' = IF Ends(c) THEN line \o Append(pend, c) ELSE line
  /\ pend' = IF Ends(c) THEN <<>> ELSE Append(pend, c)
  /\ UNCHANGED got

Erase ==
  /\ pend # <<>>
  /\ pend' = SubSeq(pend, 1, Len(pend) - 1)
  /\ UNCHANGED <<line, got>>

Kill == pend' = <<>> /\ UNCHANGED <<line, got>>

Deliver(p) ==
  /\ line # <<>> /\ Head(line) # EOF
  /\ line' = Tail(line)
  /\ got' = [got EXCEPT ![p] = @ + 1]
  /\ UNCHANGED pend

EndOfFile(p) ==
  /\ line # <<>> /\ Head(line) = EOF
  /\ got[p] = 0
  /\ line' = Tail(line)
  /\ UNCHANGED <<pend, got>>

Return(p) == got' = [got EXCEPT ![p] = 0] /\ UNCHANGED <<line, pend>>

Next ==
  \/ \E c \in Char : Type(c)
  \/ Erase
  \/ Kill
  \/ \E p \in Proc : Deliver(p) \/ EndOfFile(p) \/ Return(p)

Spec == Init /\ [][Next]_vars
=============================================================================

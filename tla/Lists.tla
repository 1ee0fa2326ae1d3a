-------------------------------- MODULE Lists --------------------------------
(* Sequences as the state lists of proc.c use them.                        *)
EXTENDS Integers, Sequences, Functions

(* The sequence s without the first e in it, or s itself.                  *)
Without(s, e) ==
  LET k == CHOOSE i \in 1 .. Len(s) : s[i] = e /\ \A j \in 1 .. i - 1 : s[j] # e
  IN  IF \E i \in 1 .. Len(s) : s[i] = e
      THEN [j \in 1 .. Len(s) - 1 |-> IF j < k THEN s[j] ELSE s[j + 1]]
      ELSE s
==============================================================================

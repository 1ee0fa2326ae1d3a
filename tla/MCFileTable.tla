---------------------------- MODULE MCFileTable -----------------------------
(***************************************************************************)
(* FileTable for TLC: two processes, one page, a ring of two bytes.  The   *)
(* counters wrap after four bytes and a message is longer than the ring.   *)
(***************************************************************************)
EXTENDS FileTable, TLC

LongMessage == {<<0, 0>>}
Perms == Permutations(Proc)
MCMessages == {<<0>>, <<1, 0, 1>>}
==============================================================================

-------------------------------- MODULE MCLog --------------------------------
(* Log on a few processes, blocks and contents.                            *)
EXTENDS Log, TLC

Perms == Permutations(Proc) \cup Permutations(Block)
==============================================================================

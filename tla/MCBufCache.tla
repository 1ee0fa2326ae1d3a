------------------------------ MODULE MCBufCache ------------------------------
(* BufCache on a few processes, blocks and buffers.                        *)
EXTENDS BufCache

Perms == Permutations(Proc) \cup Permutations(Block) \cup Permutations(Value)
==============================================================================

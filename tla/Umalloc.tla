------------------------------- MODULE Umalloc -------------------------------
(* The user-level allocator (umalloc.c) of one process.  Memory is counted in *)
(* Header units: a block is a header and the units after it.  base lies below *)
(* the heap; the program may call sbrk itself, so that what morecore gets     *)
(* need not follow what it got before.                                        *)
EXTENDS Integers, FiniteSets

CONSTANTS
  HeapEnd,     \* bound: sbrk fails beyond this unit
  NALLOC,      \* the units morecore asks for at least (4096)
  HEADER,      \* sizeof(Header), in bytes
  Requests     \* the byte counts the program allocates

VARIABLES
  hdr,     \* the headers in use: base's, and those of free and given blocks
  freep,   \* where the next search starts; 0 is NULL
  brk,     \* the end of the process's memory
  given,   \* the blocks the program holds, and the bytes it asked for
  core     \* the units the allocator has had from sbrk

heapVars == <<hdr, freep, brk, given, core>>

base == 1
HeapStart == 3
Without(f, x) == [y \in DOMAIN f \ {x} |-> f[y]]
With(f, x, v) == [y \in DOMAIN f \cup {x} |-> IF y = x THEN v ELSE f[y]]

(* The allocator's own state, for operators that change it several times.   *)
Heap(h, f, b, c) == [hdr |-> h, freep |-> f, brk |-> b, core |-> c]

(* Where free links bp in: between p and its successor, or at the end of    *)
(* the address order.                                                       *)
RECURSIVE Place(_, _, _)
Place(h, p, bp) ==
  LET next == h[p].ptr
  IN IF \/ bp > p /\ bp < next
        \/ p >= next /\ (bp > p \/ bp < next)
     THEN p
     ELSE Place(h, next, bp)

(* a takes in the block b that begins where it ends.                        *)
Merged(h, a, b) ==
  Without([h EXCEPT ![a] = [ptr |-> h[b].ptr, size |-> h[a].size + h[b].size]], b)

JoinUpper(h, bp, next) ==
  IF bp + h[bp].size = next THEN Merged(h, bp, next) ELSE [h EXCEPT ![bp].ptr = next]

(* Faulty variant: a block is not merged with the one below it.             *)
NoJoin(h, p, bp) == [h EXCEPT ![p].ptr = bp]

JoinLower(h, p, bp) ==
  IF p + h[p].size = bp THEN Merged(h, p, bp) ELSE [h EXCEPT ![p].ptr = bp]

free(s, bp) ==
  LET p == Place(s.hdr, s.freep, bp)
  IN Heap(JoinLower(JoinUpper(s.hdr, bp, s.hdr[p].ptr), p, bp), p, s.brk, s.core)

(* Room for nu units: the heap with the new block freed, freep 0 if none.   *)
morecore(s, nu) ==
  LET n == IF nu < NALLOC THEN NALLOC ELSE nu
      grown == Heap(With(s.hdr, s.brk, [ptr |-> 0, size |-> n]), s.freep, s.brk + n,
                    s.core \cup (s.brk .. s.brk + n - 1))
  IN IF s.brk + n > HeapEnd THEN [s EXCEPT !.freep = 0] ELSE free(grown, s.brk)

(* Faulty variant: the block that is split keeps its size.                  *)
SplitWhole(h, p, n) == With(h, p + h[p].size - n, [ptr |-> 0, size |-> n])

(* The last n units of p become a block.                                    *)
Split(h, p, n) == With([h EXCEPT ![p].size = @ - n], p + h[p].size - n, [ptr |-> 0, size |-> n])

(* The first block of n units or more, from p on: the heap and the block.   *)
RECURSIVE Search(_, _, _, _)
Search(s, prevp, p, n) ==
  LET b == s.hdr[p]
      more == morecore(s, n)
  IN IF b.size = n
     THEN [s |-> [s EXCEPT !.hdr[prevp].ptr = b.ptr, !.freep = prevp], p |-> p]
     ELSE IF b.size > n
     THEN [s |-> [s EXCEPT !.hdr = Split(s.hdr, p, n), !.freep = prevp], p |-> p + b.size - n]
     ELSE IF p # s.freep THEN Search(s, p, b.ptr, n)
     ELSE IF more.freep = 0 THEN [s |-> s, p |-> 0]
     ELSE Search(more, more.freep, more.hdr[more.freep].ptr, n)

(* Faulty variant: no unit for the header.                                  *)
UnitsNoHeader(nbytes) == (nbytes + HEADER - 1) \div HEADER

Units(nbytes) == (nbytes + HEADER - 1) \div HEADER + 1

malloc(nbytes) ==
  LET s == IF freep # 0 THEN Heap(hdr, freep, brk, core)
           ELSE Heap(With(hdr, base, [ptr |-> base, size |-> 0]), base, brk, core)
      r == Search(s, s.freep, s.hdr[s.freep].ptr, Units(nbytes))
  IN /\ hdr' = r.s.hdr /\ freep' = r.s.freep /\ brk' = r.s.brk /\ core' = r.s.core
     /\ given' = IF r.p = 0 THEN given ELSE With(given, r.p, nbytes)

Free(bp) ==
  LET s == free(Heap(hdr, freep, brk, core), bp)
  IN /\ bp \in DOMAIN given
     /\ hdr' = s.hdr /\ freep' = s.freep
     /\ given' = Without(given, bp)
     /\ UNCHANGED <<brk, core>>

(* The program takes a unit from sbrk for itself.                           *)
Sbrk ==
  /\ brk < HeapEnd
  /\ brk' = brk + 1
  /\ UNCHANGED <<hdr, freep, given, core>>

HeapInit ==
  /\ hdr = [x \in {} |-> 0]
  /\ freep = 0
  /\ brk = HeapStart
  /\ given = [x \in {} |-> 0]
  /\ core = {}

HeapNext ==
  \/ \E n \in Requests : malloc(n)
  \/ \E bp \in DOMAIN given : Free(bp)
  \/ Sbrk

---------------------------------------------------------------------------
(* Properties.                                                              *)

Block(a) == a .. a + hdr[a].size - 1

(* The blocks on the free list: every header the program does not hold.     *)
FreeList == DOMAIN hdr \ (DOMAIN given \cup {base})

(* Every unit got from sbrk is in exactly one block, given or free: no unit *)
(* is given twice or lost (umalloc.c:33-42, 76-82).                         *)
HeapTiled ==
  /\ core = UNION {Block(a) : a \in DOMAIN hdr \ {base}}
  /\ \A a, b \in DOMAIN hdr : a # b => Block(a) \cap Block(b) = {}

(* The free list is one cycle through base and all the free blocks, in      *)
(* address order and with no two of them adjacent: the searches of malloc   *)
(* and free end, and memory freed in pieces can be given whole again        *)
(* (umalloc.c:30-43).                                                       *)
Coalesced ==
  freep # 0 =>
    /\ freep \in FreeList \cup {base}
    /\ \A a \in FreeList \cup {base} :
         LET later == {b \in FreeList : b > a}
         IN /\ hdr[a].ptr = IF later = {} THEN base
                            ELSE CHOOSE b \in later : \A c \in later : b <= c
            /\ a # base => a + hdr[a].size # hdr[a].ptr

(* A block the program holds has room for all it asked for, besides the     *)
(* header free will need (umalloc.c:69).                                    *)
RoomEnough == \A a \in DOMAIN given : (hdr[a].size - 1) * HEADER >= given[a]

(* The heap is sound after any sequence of calls: its blocks tile what    *)
(* sbrk gave, the free ones are one ordered and coalesced cycle, and the  *)
(* given ones are large enough (umalloc.c:22-90).                         *)
HeapSound == HeapTiled /\ Coalesced /\ RoomEnough
=============================================================================

--------------------------- MODULE StateListProofs ---------------------------
(***************************************************************************)
(* Proofs about the linked lists of proc.c, for any number of slots and    *)
(* lists: the pointers always represent the lists that ProcTable works     *)
(* with, no process is lost or listed twice, and a walk that moves         *)
(* processes misses none.                                                  *)
(***************************************************************************)
EXTENDS StateList, ListLemmas

(* A list is untouched by writes to the next fields of other processes.    *)
LEMMA PointersFrame ==
  ASSUME NEW h, NEW t, NEW n, NEW m, NEW s \in Seq(Proc),
         PointersAre(h, t, n, s),
         \A p \in Range(s) : m[p] = n[p]
  PROVE  PointersAre(h, t, m, s)
<1>1. \A i \in 1 .. Len(s) : s[i] \in Range(s)
  BY RangeIs
<1> QED
  BY <1>1 DEF PointersAre

(* stateListRemove's head case: the head becomes the second process.       *)
LEMMA PointersTail ==
  ASSUME NEW h \in Proc, NEW t, NEW n, NEW s \in Seq(Proc),
         PointersAre(h, t, n, s)
  PROVE  /\ s # <<>>
         /\ h = Head(s)
         /\ PointersAre(n[h], t, n, Tail(s))
<1>1. s # <<>> /\ Len(s) \in Nat /\ Len(s) >= 1 /\ h = s[1]
  BY ListAssumption DEF PointersAre, PtrAt, Proc, Null
<1>2. /\ Head(s) = s[1]
      /\ Tail(s) \in Seq(Proc)
      /\ Len(Tail(s)) = Len(s) - 1
      /\ \A i \in 1 .. Len(s) - 1 : Tail(s)[i] = s[i + 1]
  BY <1>1
<1> DEFINE u == Tail(s)
<1> HIDE DEF u
<1>3. n[h] = PtrAt(u, 1)
  BY <1>1, <1>2 DEF PointersAre, PtrAt, u
<1>4. u # <<>> => t = u[Len(u)]
  BY <1>1, <1>2 DEF PointersAre, u
<1>5. ASSUME NEW i \in 1 .. Len(u) PROVE n[u[i]] = PtrAt(u, i + 1)
  <2>1. i + 1 \in 1 .. Len(s) /\ u[i] = s[i + 1]
    BY <1>1, <1>2 DEF u
  <2>2. n[s[i + 1]] = PtrAt(s, (i + 1) + 1)
    BY <2>1 DEF PointersAre
  <2>3. PtrAt(s, (i + 1) + 1) = PtrAt(u, i + 1)
    BY <1>1, <1>2, <2>1 DEF PtrAt, u
  <2> QED BY <2>1, <2>2, <2>3
<1> QED
  BY <1>1, <1>2, <1>3, <1>4, <1>5 DEF PointersAre, u

(* stateListRemove's other case: p is at place k > 1, behind q.            *)
LEMMA PointersUnlink ==
  ASSUME NEW h, NEW t, NEW n \in [Proc -> Ptr], NEW s \in Seq(Proc),
         IsInjective(s), PointersAre(h, t, n, s), NEW k \in 2 .. Len(s)
  PROVE  /\ s[k] = t =>
              PointersAre(h, s[k - 1], [n EXCEPT ![s[k - 1]] = Null, ![s[k]] = Null],
                          Without(s, s[k]))
         /\ s[k] # t =>
              PointersAre(h, t, [n EXCEPT ![s[k - 1]] = n[s[k]], ![s[k]] = Null],
                          Without(s, s[k]))
<1> DEFINE p == s[k]
           q == s[k - 1]
           u == Without(s, p)
<1> HIDE DEF p, q
<1>1. ASSUME NEW t2, NEW n2,
             IF p = t
             THEN t2 = q /\ n2 = [n EXCEPT ![q] = Null, ![p] = Null]
             ELSE t2 = t /\ n2 = [n EXCEPT ![q] = n[p], ![p] = Null]
      PROVE  PointersAre(h, t2, n2, u)
  <2>1. /\ Len(s) \in Nat
        /\ \A i \in 1 .. Len(s) : s[i] \in Proc
        /\ \A i, j \in 1 .. Len(s) : s[i] = s[j] => i = j
        /\ k \in 1 .. Len(s) /\ k - 1 \in 1 .. Len(s)
    BY RangeIs
  <2> USE DEF p, q
  <2>2. /\ u \in Seq(Proc)
        /\ Len(u) = Len(s) - 1
        /\ \A j \in 1 .. Len(s) - 1 : u[j] = IF j < k THEN s[j] ELSE s[j + 1]
    BY <2>1, WithoutIs
  <2> HIDE DEF u
  <2>3. p \in Proc /\ q \in Proc /\ p # q
    BY <2>1
  <2>4. t = s[Len(s)] /\ (p = t <=> k = Len(s))
    BY <2>1 DEF PointersAre
  <2>5. n2[p] = Null /\ \A x \in Proc \ {p, q} : n2[x] = n[x]
    BY <1>1, <2>3
  <2>6. n[p] = PtrAt(s, k + 1)
    BY <2>1 DEF PointersAre
  <2>7. n2[q] = PtrAt(s, k + 1)
    BY <1>1, <2>1, <2>3, <2>4, <2>6 DEF PtrAt
  <2>8. h = PtrAt(u, 1)
    BY <2>1, <2>2 DEF PointersAre, PtrAt
  <2>9. t2 = u[Len(u)]
    BY <1>1, <2>1, <2>2, <2>4
  <2>10. ASSUME NEW i \in 1 .. Len(u) PROVE n2[u[i]] = PtrAt(u, i + 1)
    <3>1. CASE i < k - 1
      <4>1. u[i] = s[i] /\ i \in 1 .. Len(s) /\ i + 1 \in 1 .. Len(s)
        BY <2>1, <2>2, <3>1
      <4>2. s[i] \in Proc \ {p, q}
        BY <2>1, <3>1, <4>1
      <4>3. n[s[i]] = PtrAt(s, i + 1)
        BY <4>1 DEF PointersAre
      <4>4. PtrAt(s, i + 1) = PtrAt(u, i + 1)
        BY <2>1, <2>2, <3>1, <4>1 DEF PtrAt
      <4> QED BY <2>5, <4>1, <4>2, <4>3, <4>4
    <3>2. CASE i = k - 1
      <4>1. u[i] = q
        BY <2>1, <2>2, <3>2
      <4>2. PtrAt(s, k + 1) = PtrAt(u, i + 1)
        BY <2>1, <2>2, <3>2 DEF PtrAt
      <4> QED BY <2>7, <4>1, <4>2
    <3>3. CASE i >= k
      <4>1. u[i] = s[i + 1] /\ i + 1 \in 1 .. Len(s)
        BY <2>1, <2>2, <3>3
      <4>2. s[i + 1] # p /\ s[i + 1] # q
        <5>1. i + 1 # k /\ i + 1 # k - 1
          BY <3>3
        <5> QED BY <2>1, <4>1, <5>1
      <4>3. n[s[i + 1]] = PtrAt(s, (i + 1) + 1)
        BY <4>1 DEF PointersAre
      <4>4. PtrAt(s, (i + 1) + 1) = PtrAt(u, i + 1)
        BY <2>1, <2>2, <3>3, <4>1 DEF PtrAt
      <4> QED BY <2>1, <2>5, <4>1, <4>2, <4>3, <4>4
    <3> QED BY <2>1, <2>2, <3>1, <3>2, <3>3
  <2> QED
    BY <2>8, <2>9, <2>10 DEF PointersAre, u
<1>2. p = t => PointersAre(h, q, [n EXCEPT ![q] = Null, ![p] = Null], u)
  BY <1>1
<1>3. p # t => PointersAre(h, t, [n EXCEPT ![q] = n[p], ![p] = Null], u)
  BY <1>1
<1> QED
  BY <1>2, <1>3 DEF p, q, u

(* stateListAdd: p goes behind the tail, or becomes the only process.      *)
LEMMA PointersAppend ==
  ASSUME NEW h, NEW t, NEW n \in [Proc -> Ptr], NEW s \in Seq(Proc),
         IsInjective(s), PointersAre(h, t, n, s),
         NEW p \in Proc, p \notin Range(s)
  PROVE  /\ h = Null =>
              PointersAre(p, p, [n EXCEPT ![p] = Null], Append(s, p))
         /\ h # Null =>
              PointersAre(h, p, [n EXCEPT ![t] = p, ![p] = Null], Append(s, p))
<1> DEFINE u == Append(s, p)
<1>1. ASSUME NEW h2, NEW n2,
             IF h = Null
             THEN h2 = p /\ n2 = [n EXCEPT ![p] = Null]
             ELSE h2 = h /\ n2 = [n EXCEPT ![t] = p, ![p] = Null]
      PROVE  PointersAre(h2, p, n2, u)
  <2>1. /\ Len(s) \in Nat
        /\ \A i \in 1 .. Len(s) : s[i] \in Proc /\ s[i] # p
        /\ \A i, j \in 1 .. Len(s) : s[i] = s[j] => i = j
    BY RangeIs
  <2>2. /\ Len(u) = Len(s) + 1
        /\ \A i \in 1 .. Len(s) : u[i] = s[i]
        /\ u[Len(s) + 1] = p
    OBVIOUS
  <2> HIDE DEF u
  <2>3. h = Null <=> s = <<>>
    BY <2>1 DEF PointersAre, PtrAt, Null, Proc
  <2>4. s = <<>> <=> Len(s) = 0
    OBVIOUS
  <2>5. h2 = PtrAt(u, 1)
    BY <1>1, <2>1, <2>2, <2>3, <2>4 DEF PointersAre, PtrAt
  <2>6. s # <<>> => t = s[Len(s)]
    BY DEF PointersAre
  <2>7. ASSUME NEW i \in 1 .. Len(u) PROVE n2[u[i]] = PtrAt(u, i + 1)
    <3>1. CASE i = Len(s) + 1
      <4>1. n2[p] = Null
        BY <1>1, <2>1, <2>3, <2>4, <2>6
      <4> QED BY <2>1, <2>2, <3>1, <4>1 DEF PtrAt
    <3>2. CASE i = Len(s)
      <4>1. s # <<>> /\ u[i] = t /\ t \in Proc /\ t # p
        BY <2>1, <2>2, <2>4, <2>6, <3>2
      <4>2. n2[t] = p
        BY <1>1, <2>3, <4>1
      <4> QED BY <2>1, <2>2, <3>2, <4>1, <4>2 DEF PtrAt
    <3>3. CASE i < Len(s)
      <4>1. u[i] = s[i] /\ i \in 1 .. Len(s) /\ s # <<>>
        BY <2>1, <2>2, <2>4, <3>3
      <4>2. s[i] # p /\ s[i] # t /\ s[i] \in Proc
        BY <2>1, <2>6, <3>3, <4>1
      <4>3. n2[s[i]] = n[s[i]]
        BY <1>1, <2>3, <4>1, <4>2
      <4>4. n[s[i]] = PtrAt(s, i + 1)
        BY <4>1 DEF PointersAre
      <4>5. PtrAt(s, i + 1) = PtrAt(u, i + 1)
        BY <2>1, <2>2, <3>3 DEF PtrAt
      <4> QED BY <4>1, <4>3, <4>4, <4>5
    <3> QED BY <2>1, <2>2, <3>1, <3>2, <3>3
  <2> QED
    BY <2>1, <2>2, <2>5, <2>7 DEF PointersAre, u
<1>2. h = Null => PointersAre(p, p, [n EXCEPT ![p] = Null], u)
  BY <1>1
<1>3. h # Null => PointersAre(h, p, [n EXCEPT ![t] = p, ![p] = Null], u)
  BY <1>1
<1> QED
  BY <1>2, <1>3

(* initProcessLists and initFreeList establish the invariant.              *)
LEMMA InitInv == Init => Inv
<1> SUFFICES ASSUME Init PROVE Inv
  OBVIOUS
<1>0. NPROC \in Nat /\ NPROC > 0
  BY ListAssumption
<1>1. PICK free \in List :
        /\ head = [l \in List |-> IF l = free THEN 1 ELSE Null]
        /\ tail = [l \in List |-> IF l = free THEN NPROC ELSE Null]
        /\ next = [p \in Proc |-> IF p = NPROC THEN Null ELSE p + 1]
        /\ abs = [l \in List |-> IF l = free THEN [i \in Proc |-> i] ELSE <<>>]
        /\ src = free
        /\ dst = free
  BY DEF Init
<1> DEFINE all == [i \in Proc |-> i]
<1>2. /\ all \in Seq(Proc)
      /\ Len(all) = NPROC
      /\ \A i \in 1 .. NPROC : all[i] = i
  BY <1>0 DEF Proc
<1>3. \A l \in List : abs[l] = IF l = free THEN all ELSE <<>>
  BY <1>1
<1> HIDE DEF all
<1>4. \A p \in Proc : p \in Range(all)
  BY <1>2, RangeIs DEF Proc
<1>5. IsInjective(all)
  BY <1>2, RangeIs
<1>6. Range(<<>>) = {} /\ IsInjective(<<>>) /\ <<>> \in Seq(Proc)
  BY DEF Range, IsInjective
<1>7. TypeOK
  <2>1. head \in [List -> Ptr] /\ tail \in [List -> Ptr] /\ next \in [Proc -> Ptr]
    BY <1>0, <1>1 DEF Ptr, Proc, Null
  <2>2. abs \in [List -> Seq(Proc)]
    BY <1>1, <1>2, <1>6 DEF all
  <2> QED BY <2>1, <2>2 DEF Init, TypeOK, Ptr
<1>8. ASSUME NEW l \in List PROVE PointersAre(head[l], tail[l], next, abs[l])
  <2>1. CASE l = free
    <3>1. /\ head[l] = 1
          /\ tail[l] = NPROC
          /\ abs[l] = all
      BY <1>1, <1>3, <2>1
    <3>2. \A i \in 1 .. NPROC : next[i] = IF i = NPROC THEN Null ELSE i + 1
      BY <1>1 DEF Proc
    <3> QED BY <1>0, <1>2, <3>1, <3>2 DEF PointersAre, PtrAt
  <2>2. CASE l # free
    BY <1>1, <1>3, <2>2 DEF PointersAre, PtrAt
  <2> QED BY <2>1, <2>2
<1>9. Partition
  BY <1>3, <1>4, <1>5, <1>6 DEF Partition, Listed, Init
<1> QED
  BY <1>7, <1>8, <1>9 DEF Inv, Represents, WalkComplete, InRemove, InLoop, Init

(* Taking a listed process off its list leaves every other one listed.     *)
LEMMA PartitionRemove ==
  ASSUME TypeOK, Partition, pc # "add", NEW l \in List, NEW p \in Proc,
         p \in Range(abs[l]), NEW u \in Seq(Proc), IsInjective(u),
         Range(u) = Range(abs[l]) \ {p},
         abs' = [abs EXCEPT ![l] = u], pc' = "add", arg' = p
  PROVE  Partition' /\ abs' \in [List -> Seq(Proc)]
<1>1. \A m \in List : abs'[m] = IF m = l THEN u ELSE abs[m]
  BY DEF TypeOK
<1>2. \A m \in List : IsInjective(abs'[m])
  BY <1>1 DEF Partition
<1>3. ASSUME NEW m \in List PROVE Range(abs'[m]) = Range(abs[m]) \ {p}
  BY <1>1 DEF Partition
<1>4. \A m, k \in List : m # k => Range(abs'[m]) \cap Range(abs'[k]) = {}
  BY <1>3 DEF Partition
<1>5. ASSUME NEW q \in Proc PROVE Listed(q)' <=> q # p
  <2>1. Listed(q)
    BY DEF Partition
  <2> QED BY <1>3, <2>1 DEF Listed
<1> QED
  BY <1>2, <1>4, <1>5 DEF Partition, TypeOK

(* Adding the process that is off every list lists them all again.         *)
LEMMA PartitionAdd ==
  ASSUME TypeOK, Partition, pc = "add", arg \in Proc, NEW l \in List,
         abs' = [abs EXCEPT ![l] = Append(@, arg)], pc' # "add"
  PROVE  /\ Partition'
         /\ abs' \in [List -> Seq(Proc)]
         /\ arg \notin Range(abs[l])
<1>0. \A m \in List : abs[m] \in Seq(Proc) /\ arg \notin Range(abs[m])
  BY DEF TypeOK, Partition, Listed
<1>1. \A m \in List : abs'[m] = IF m = l THEN Append(abs[l], arg) ELSE abs[m]
  BY DEF TypeOK
<1>2. /\ Append(abs[l], arg) \in Seq(Proc)
      /\ Range(Append(abs[l], arg)) = Range(abs[l]) \cup {arg}
      /\ IsInjective(Append(abs[l], arg))
  <2>1. IsInjective(abs[l])
    BY DEF Partition
  <2> QED BY <1>0, <2>1, AppendRange
<1>3. \A m \in List : IsInjective(abs'[m])
  BY <1>1, <1>2 DEF Partition
<1>4. /\ Range(abs'[l]) = Range(abs[l]) \cup {arg}
      /\ \A m \in List \ {l} : Range(abs'[m]) = Range(abs[m])
  <2>1. abs'[l] = Append(abs[l], arg) /\ \A m \in List \ {l} : abs'[m] = abs[m]
    BY <1>1
  <2> QED BY <1>2, <2>1
<1>5. ASSUME NEW m \in List, NEW k \in List, m # k
      PROVE  Range(abs'[m]) \cap Range(abs'[k]) = {}
  <2>1. Range(abs[m]) \cap Range(abs[k]) = {}
    BY <1>5 DEF Partition
  <2>2. arg \notin Range(abs[m]) /\ arg \notin Range(abs[k])
    BY <1>0
  <2>3. CASE m = l
    BY <1>4, <1>5, <2>1, <2>2, <2>3
  <2>4. CASE k = l
    BY <1>4, <1>5, <2>1, <2>2, <2>4
  <2>5. CASE m # l /\ k # l
    BY <1>4, <2>1, <2>5
  <2> QED BY <2>3, <2>4, <2>5
<1>6. ASSUME NEW q \in Proc PROVE Listed(q)'
  <2>1. CASE q = arg
    BY <1>4, <2>1 DEF Listed
  <2>2. CASE q # arg
    <3>1. PICK m \in List : q \in Range(abs[m])
      BY <2>2 DEF Partition, Listed
    <3>2. q \in Range(abs'[m])
      BY <1>4, <3>1
    <3> QED BY <3>2 DEF Listed
  <2> QED BY <2>1, <2>2
<1> QED
  BY <1>0, <1>2, <1>3, <1>5, <1>6 DEF Partition, TypeOK

(* Pointers that are not null are places of the list.                      *)
LEMMA PtrAtIs ==
  ASSUME NEW s \in Seq(Proc), NEW i \in 0 .. Len(s) + 1
  PROVE  /\ PtrAt(s, i) \in Ptr
         /\ PtrAt(s, i) # Null <=> i \in 1 .. Len(s)
         /\ i \in 1 .. Len(s) => PtrAt(s, i) = s[i] /\ s[i] \in Proc
<1>1. Null \notin Proc
  BY ListAssumption DEF Null, Proc
<1> QED
  BY <1>1, RangeIs DEF PtrAt, Ptr

(* Entering stateListRemove, for one move or within a walk.                *)
LEMMA RemoveBeginInv ==
  ASSUME Inv, pc \in {"idle", "loop"}, NEW p \in Proc, NEW l \in List,
         RemoveBegin(p, l), arg' = p, src' = l
  PROVE  /\ head' \in [List -> Ptr] /\ tail' = tail /\ next' = next
         /\ abs' \in [List -> Seq(Proc)]
         /\ pc' \in {"walk", "add"}
         /\ current' \in Ptr /\ previous' \in Ptr
         /\ Represents' /\ Partition' /\ InRemove'
<1> DEFINE s == abs[l]
<1>1. /\ TypeOK /\ Partition /\ pc # "add"
      /\ s \in Seq(Proc)
      /\ IsInjective(s)
      /\ PointersAre(head[l], tail[l], next, s)
  BY DEF Inv, TypeOK, Represents, Partition
<1>2. CASE head[l] = p
  <2>1. /\ head' = [head EXCEPT ![l] = next[p]]
        /\ abs' = [abs EXCEPT ![l] = Tail(abs[l])]
        /\ pc' = "add"
        /\ tail' = tail /\ next' = next /\ current' = current /\ previous' = previous
    BY <1>2 DEF RemoveBegin, walk
  <2>2. /\ s # <<>>
        /\ p = Head(s)
        /\ PointersAre(next[p], tail[l], next, Tail(s))
    BY <1>1, <1>2, PointersTail
  <2>3. /\ p \in Range(s)
        /\ Tail(s) \in Seq(Proc)
        /\ IsInjective(Tail(s))
        /\ Range(Tail(s)) = Range(s) \ {p}
    BY <1>1, <2>2, TailRange
  <2>4. Partition' /\ abs' \in [List -> Seq(Proc)]
    BY <1>1, <2>1, <2>3, PartitionRemove
  <2>5. \A m \in List : /\ head'[m] = IF m = l THEN next[p] ELSE head[m]
                        /\ abs'[m] = IF m = l THEN Tail(s) ELSE abs[m]
    BY <1>1, <2>1 DEF TypeOK
  <2>6. Represents'
    BY <2>1, <2>2, <2>5 DEF Represents, Inv
  <2>7. head' \in [List -> Ptr] /\ current' \in Ptr /\ previous' \in Ptr
    BY <1>1, <2>1 DEF TypeOK
  <2> QED BY <2>1, <2>4, <2>6, <2>7 DEF InRemove
<1>3. CASE head[l] # p
  <2>1. /\ current' = head[l] /\ previous' = Null /\ pc' = "walk"
        /\ head' = head /\ tail' = tail /\ next' = next /\ abs' = abs
    BY <1>3 DEF RemoveBegin, ptrs
  <2>2. InRemove'
    <3>1. Len(s) + 1 \in Nat /\ 1 \in 1 .. Len(s) + 1
      BY <1>1, RangeIs
    <3>2. current' = PtrAt(s, 1) /\ previous' = PtrAt(s, 0)
      BY <1>1, <2>1 DEF PointersAre, PtrAt
    <3> QED BY <1>3, <2>1, <3>1, <3>2 DEF InRemove
  <2>3. Partition'
    BY <1>1, <2>1 DEF Partition, Listed
  <2>4. Represents'
    BY <2>1 DEF Represents, Inv
  <2> QED BY <1>1, <2>1, <2>2, <2>3, <2>4 DEF TypeOK, Ptr
<1> QED
  BY <1>2, <1>3

LEMMA MoveInv ==
  ASSUME Inv, NEW p \in Proc, NEW l \in List, NEW m \in List, Move(p, l, m)
  PROVE  Inv'
<1>1. /\ head' \in [List -> Ptr] /\ tail' = tail /\ next' = next
      /\ abs' \in [List -> Seq(Proc)]
      /\ pc' \in {"walk", "add"}
      /\ current' \in Ptr /\ previous' \in Ptr
      /\ Represents' /\ Partition' /\ InRemove'
  BY RemoveBeginInv DEF Move
<1>2. /\ arg' = p /\ src' = l /\ dst' = m
      /\ looping' = looping /\ cursor' = cursor /\ chosen' = chosen
      /\ ~looping
  BY DEF Move, loop, Inv, InLoop
<1>3. TypeOK'
  BY <1>1, <1>2 DEF TypeOK, Inv, Ptr
<1> QED
  BY <1>1, <1>2, <1>3 DEF Inv, WalkComplete, InLoop

LEMMA WalkNextInv ==
  ASSUME Inv, WalkNext
  PROVE  Inv'
<1> DEFINE s == abs[src]
<1>1. /\ head' = head /\ tail' = tail /\ next' = next /\ abs' = abs /\ pc' = pc
      /\ arg' = arg /\ src' = src /\ dst' = dst
      /\ looping' = looping /\ cursor' = cursor /\ chosen' = chosen
      /\ previous' = current /\ current' = next[current]
      /\ pc = "walk" /\ current # Null /\ current # arg
  BY DEF WalkNext, ptrs, call, loop
<1>2. /\ TypeOK
      /\ s \in Seq(Proc)
      /\ Len(s) \in Nat
      /\ \A j \in 1 .. Len(s) : next[s[j]] = PtrAt(s, j + 1)
  BY RangeIs DEF Inv, TypeOK, Represents, PointersAre
<1>3. PICK i \in 1 .. Len(s) + 1 :
        /\ current = PtrAt(s, i)
        /\ \A j \in 1 .. i - 1 : s[j] # arg
  BY <1>1 DEF Inv, InRemove
<1>4. i \in 1 .. Len(s) /\ current = s[i]
  BY <1>1, <1>2, <1>3, PtrAtIs
<1>5. /\ i + 1 \in 1 .. Len(s) + 1
      /\ current' = PtrAt(s, i + 1)
      /\ previous' = PtrAt(s, (i + 1) - 1)
      /\ \A j \in 1 .. (i + 1) - 1 : s[j] # arg
  <2>1. i + 1 \in 1 .. Len(s) + 1 /\ (i + 1) - 1 = i
    BY <1>2, <1>4
  <2>2. current' = PtrAt(s, i + 1)
    BY <1>1, <1>2, <1>4
  <2>3. \A j \in 1 .. i : s[j] # arg
    BY <1>1, <1>2, <1>3, <1>4
  <2> QED BY <1>1, <1>3, <2>1, <2>2, <2>3
<1>6. InRemove'
  BY <1>1, <1>5 DEF Inv, InRemove
<1>7. TypeOK'
  <2>1. current \in Proc
    BY <1>1, <1>2 DEF TypeOK, Ptr
  <2> QED BY <1>1, <1>2, <2>1 DEF TypeOK
<1> QED
  BY <1>1, <1>6, <1>7
     DEF Inv, Represents, Partition, Listed, WalkComplete, InLoop

(* A walk never fails to find the process it moves; another caller may.    *)
LEMMA WalkFailsInv ==
  ASSUME Inv, WalkFails
  PROVE  Inv'
<1> DEFINE s == abs[src]
<1>1. /\ head' = head /\ tail' = tail /\ next' = next /\ abs' = abs
      /\ arg' = arg /\ src' = src /\ dst' = dst
      /\ looping' = looping /\ cursor' = cursor /\ chosen' = chosen
      /\ current' = current /\ previous' = previous
      /\ pc = "walk" /\ current = Null
      /\ pc' = IF looping THEN "loop" ELSE "idle"
  BY DEF WalkFails, ptrs, call, walk, loop
<1>2. TypeOK /\ s \in Seq(Proc) /\ Len(s) \in Nat
  BY RangeIs DEF Inv, TypeOK
<1>3. PICK i \in 1 .. Len(s) + 1 :
        /\ current = PtrAt(s, i)
        /\ \A j \in 1 .. i - 1 : s[j] # arg
  BY <1>1 DEF Inv, InRemove
<1>4. i = Len(s) + 1
  BY <1>1, <1>2, <1>3, PtrAtIs
<1>5. \A j \in 1 .. Len(s) : s[j] # arg
  BY <1>2, <1>3, <1>4
<1>6. ~looping /\ pc' = "idle"
  BY <1>1, <1>2, <1>5 DEF Inv, InLoop, TypeOK
<1> QED
  BY <1>1, <1>2, <1>6
     DEF Inv, TypeOK, Represents, Partition, Listed, WalkComplete, InRemove, InLoop

LEMMA UnlinkInv ==
  ASSUME Inv, Unlink
  PROVE  Inv'
<1> DEFINE s == abs[src]
           u == Without(s, arg)
<1>1. /\ head' = head
      /\ arg' = arg /\ src' = src /\ dst' = dst
      /\ looping' = looping /\ cursor' = cursor /\ chosen' = chosen
      /\ current' = current /\ previous' = previous
      /\ pc = "walk" /\ current = arg /\ pc' = "add"
      /\ abs' = [abs EXCEPT ![src] = u]
  BY DEF Unlink, call, walk, loop
<1>2. /\ TypeOK /\ Partition
      /\ s \in Seq(Proc) /\ Len(s) \in Nat
      /\ IsInjective(s)
      /\ PointersAre(head[src], tail[src], next, s)
      /\ arg \in Proc /\ head[src] # arg
  BY <1>1, RangeIs DEF Inv, TypeOK, Partition, Represents, InRemove
<1>3. PICK i \in 1 .. Len(s) + 1 :
        /\ current = PtrAt(s, i)
        /\ previous = PtrAt(s, i - 1)
  BY <1>1 DEF Inv, InRemove
<1>4. i \in 1 .. Len(s) /\ arg = s[i]
  <2>1. arg # Null
    BY <1>2, ListAssumption DEF Proc, Null
  <2> QED BY <1>1, <1>2, <1>3, <2>1, PtrAtIs
<1>5. i \in 2 .. Len(s) /\ previous = s[i - 1] /\ previous \in Proc
  <2>1. i # 1
    BY <1>1, <1>2, <1>3 DEF PointersAre
  <2>2. i - 1 \in 1 .. Len(s)
    BY <1>2, <1>4, <2>1
  <2> QED BY <1>2, <1>3, <1>4, <2>1, <2>2, PtrAtIs
<1>6. /\ tail' = [tail EXCEPT ![src] = IF arg = tail[src] THEN previous ELSE @]
      /\ IF arg = tail[src]
         THEN next' = [next EXCEPT ![previous] = Null, ![arg] = Null]
         ELSE next' = [next EXCEPT ![previous] = next[arg], ![arg] = Null]
  BY <1>1, <1>2 DEF Unlink, TypeOK
<1>7. arg \in Range(s) /\ previous \in Range(s)
  <2>1. i - 1 \in 1 .. Len(s)
    BY <1>2, <1>5
  <2> QED BY <1>2, <1>4, <1>5, <2>1, RangeIs
<1>8. u \in Seq(Proc) /\ IsInjective(u) /\ Range(u) = Range(s) \ {arg}
  BY <1>2, <1>7, WithoutRange
<1>9. Partition' /\ abs' \in [List -> Seq(Proc)]
  BY <1>1, <1>2, <1>7, <1>8, PartitionRemove DEF TypeOK
<1>10. TypeOK'
  <2>1. tail' \in [List -> Ptr] /\ next' \in [Proc -> Ptr]
    BY <1>2, <1>5, <1>6 DEF TypeOK, Ptr
  <2> QED BY <1>1, <1>2, <1>9, <2>1 DEF TypeOK
<1>11. \A x \in Proc \ {arg, previous} : next'[x] = next[x]
  BY <1>2, <1>5, <1>6 DEF TypeOK
<1>12. ASSUME NEW l \in List
       PROVE  PointersAre(head'[l], tail'[l], next', abs'[l])
  <2>1. CASE l = src
    <3>1. abs'[l] = u
      BY <1>1, <1>2, <2>1 DEF TypeOK
    <3>2. next \in [Proc -> Ptr]
      BY <1>2 DEF TypeOK
    <3>3. tail'[src] = IF arg = tail[src] THEN previous ELSE tail[src]
      BY <1>2, <1>6 DEF TypeOK
    <3>4. IF arg = tail[src]
          THEN tail'[src] = previous /\ next' = [next EXCEPT ![previous] = Null, ![arg] = Null]
          ELSE tail'[src] = tail[src] /\ next' = [next EXCEPT ![previous] = next[arg], ![arg] = Null]
      BY <1>6, <3>3
    <3>5. PointersAre(head[src], tail'[src], next', u)
      <4>1. s \in Seq(Proc) /\ IsInjective(s) /\ i \in 2 .. Len(s)
        BY <1>2, <1>5
      <4>2. PointersAre(head[src], tail[src], next, s)
        BY <1>2
      <4> HIDE DEF s
      <4>3. /\ s[i] = tail[src] =>
                PointersAre(head[src], s[i - 1],
                            [next EXCEPT ![s[i - 1]] = Null, ![s[i]] = Null],
                            Without(s, s[i]))
            /\ s[i] # tail[src] =>
                PointersAre(head[src], tail[src],
                            [next EXCEPT ![s[i - 1]] = next[s[i]], ![s[i]] = Null],
                            Without(s, s[i]))
        BY <3>2, <4>1, <4>2, PointersUnlink, Zenon
      <4>4. s[i] = arg /\ s[i - 1] = previous
        BY <1>4, <1>5
      <4>5. CASE arg = tail[src]
        BY <3>4, <4>3, <4>4, <4>5, Zenon
      <4>6. CASE arg # tail[src]
        BY <3>4, <4>3, <4>4, <4>6, Zenon
      <4> QED BY <4>5, <4>6
    <3> QED BY <1>1, <2>1, <3>1, <3>5
  <2>2. CASE l # src
    <3>1. abs'[l] = abs[l] /\ tail'[l] = tail[l] /\ head'[l] = head[l]
      BY <1>1, <1>2, <1>6, <2>2 DEF TypeOK
    <3>2. abs[l] \in Seq(Proc) /\ PointersAre(head[l], tail[l], next, abs[l])
      BY <1>2 DEF Inv, Represents, TypeOK
    <3>3. Range(abs[l]) \cap Range(s) = {}
      BY <1>2, <2>2 DEF Partition, TypeOK
    <3>4. \A x \in Range(abs[l]) : next'[x] = next[x]
      <4>1. \A x \in Range(abs[l]) : x \in Proc
        BY <3>2, RangeIs
      <4> QED BY <1>7, <1>11, <3>3, <4>1
    <3> QED BY <3>1, <3>2, <3>4, PointersFrame
  <2> QED BY <2>1, <2>2
<1>13. InLoop'
  <2> SUFFICES ASSUME looping PROVE NoneChosenBefore(cursor)'
    BY <1>1, <1>2 DEF InLoop, Inv
  <2>1. PICK k \in 1 .. Len(s) :
          /\ arg = s[k]
          /\ cursor = PtrAt(s, k + 1)
          /\ \A j \in 1 .. k - 1 : s[j] \notin chosen
    BY <1>1 DEF Inv, InLoop
  <2>2. /\ Len(u) = Len(s) - 1
        /\ \A j \in 1 .. Len(s) - 1 : u[j] = IF j < k THEN s[j] ELSE s[j + 1]
    BY <1>2, <2>1, WithoutIs
  <2> HIDE DEF u
  <2>3. k \in 1 .. Len(u) + 1
    BY <1>2, <2>2
  <2>4. cursor = PtrAt(u, k)
    BY <1>2, <2>1, <2>2 DEF PtrAt
  <2>5. \A j \in 1 .. k - 1 : u[j] \notin chosen
    BY <1>2, <2>1, <2>2
  <2>6. abs'[src'] = u
    BY <1>1, <1>2 DEF TypeOK
  <2> QED BY <1>1, <2>3, <2>4, <2>5, <2>6 DEF NoneChosenBefore
<1> QED
  BY <1>1, <1>9, <1>10, <1>12, <1>13 DEF Inv, Represents, WalkComplete, InRemove

LEMMA AddInv ==
  ASSUME Inv, Add
  PROVE  Inv'
<1> DEFINE s == abs[dst]
<1>1. /\ arg' = arg /\ src' = src /\ dst' = dst
      /\ looping' = looping /\ cursor' = cursor /\ chosen' = chosen
      /\ current' = current /\ previous' = previous
      /\ pc = "add"
      /\ pc' = IF looping THEN "loop" ELSE "idle"
      /\ tail' = [tail EXCEPT ![dst] = arg]
      /\ abs' = [abs EXCEPT ![dst] = Append(@, arg)]
  BY DEF Add, call, walk, loop
<1>2. /\ TypeOK /\ Partition
      /\ s \in Seq(Proc)
      /\ IsInjective(s)
      /\ PointersAre(head[dst], tail[dst], next, s)
      /\ arg \in Proc /\ dst \in List
  BY <1>1 DEF Inv, TypeOK, Partition, Represents, InLoop
<1>3. /\ Partition'
      /\ abs' \in [List -> Seq(Proc)]
      /\ arg \notin Range(s)
  BY <1>1, <1>2, PartitionAdd
<1>4. IF head[dst] = Null
      THEN /\ head' = [head EXCEPT ![dst] = arg]
           /\ next' = [next EXCEPT ![arg] = Null]
      ELSE /\ head' = head
           /\ next' = [next EXCEPT ![tail[dst]] = arg, ![arg] = Null]
  BY DEF Add
<1>5. head[dst] # Null => tail[dst] \in Range(s) /\ tail[dst] \in Proc
  <2>1. head[dst] # Null => s # <<>> /\ Len(s) \in 1 .. Len(s)
    BY <1>2 DEF PointersAre, PtrAt
  <2>2. head[dst] # Null => tail[dst] = s[Len(s)]
    BY <1>2, <2>1 DEF PointersAre
  <2> QED BY <1>2, <2>1, <2>2, RangeIs
<1>6. TypeOK'
  <2>1. head' \in [List -> Ptr] /\ tail' \in [List -> Ptr]
    BY <1>1, <1>2, <1>4 DEF TypeOK, Ptr
  <2>2. next' \in [Proc -> Ptr]
    BY <1>2, <1>4, <1>5 DEF TypeOK, Ptr
  <2> QED BY <1>1, <1>2, <1>3, <2>1, <2>2 DEF TypeOK
<1>7. ASSUME NEW l \in List
      PROVE  PointersAre(head'[l], tail'[l], next', abs'[l])
  <2>1. CASE l = dst
    <3>1. abs'[dst] = Append(s, arg) /\ tail'[dst] = arg
      BY <1>1, <1>2 DEF TypeOK
    <3>2. IF head[dst] = Null
          THEN head'[dst] = arg /\ next' = [next EXCEPT ![arg] = Null]
          ELSE head'[dst] = head[dst] /\ next' = [next EXCEPT ![tail[dst]] = arg, ![arg] = Null]
      BY <1>2, <1>4 DEF TypeOK
    <3>3. next \in [Proc -> Ptr]
      BY <1>2 DEF TypeOK
    <3>4. /\ head[dst] = Null =>
               PointersAre(arg, arg, [next EXCEPT ![arg] = Null], Append(s, arg))
          /\ head[dst] # Null =>
               PointersAre(head[dst], arg,
                           [next EXCEPT ![tail[dst]] = arg, ![arg] = Null],
                           Append(s, arg))
      BY <1>2, <1>3, <3>3, PointersAppend, Zenon
    <3>5. PointersAre(head'[dst], tail'[dst], next', abs'[dst])
      BY <3>1, <3>2, <3>4, Zenon
    <3> QED BY <2>1, <3>5
  <2>2. CASE l # dst
    <3>1. abs'[l] = abs[l] /\ tail'[l] = tail[l] /\ head'[l] = head[l]
      BY <1>1, <1>2, <1>4, <2>2 DEF TypeOK
    <3>2. abs[l] \in Seq(Proc) /\ PointersAre(head[l], tail[l], next, abs[l])
      BY <1>2 DEF Inv, Represents, TypeOK
    <3>3. Range(abs[l]) \cap Range(s) = {} /\ arg \notin Range(abs[l])
      BY <1>1, <1>2, <2>2 DEF Partition, Listed
    <3>4. \A x \in Range(abs[l]) : next'[x] = next[x]
      <4>1. \A x \in Range(abs[l]) : x \in Proc
        BY <3>2, RangeIs
      <4>2. \A x \in Range(abs[l]) : x # arg /\ (head[dst] # Null => x # tail[dst])
        BY <1>5, <3>3
      <4>3. next \in [Proc -> Ptr]
        BY <1>2 DEF TypeOK
      <4> QED BY <1>4, <4>1, <4>2, <4>3
    <3> QED BY <3>1, <3>2, <3>4, PointersFrame
  <2> QED BY <2>1, <2>2
<1>8. looping => abs'[src'] = abs[src]
  BY <1>1, <1>2 DEF Inv, InLoop, TypeOK
<1>9. WalkComplete'
  <2> SUFFICES ASSUME looping PROVE NoneChosenBefore(cursor)'
    BY <1>1 DEF WalkComplete, Inv, TypeOK
  <2>1. NoneChosenBefore(cursor)
    BY <1>1 DEF Inv, InLoop
  <2> QED BY <1>1, <1>8, <2>1 DEF NoneChosenBefore
<1>10. InLoop' /\ InRemove'
  BY <1>1 DEF Inv, InLoop, InRemove
<1> QED
  BY <1>3, <1>6, <1>7, <1>9, <1>10 DEF Inv, Represents

LEMMA LoopBeginInv ==
  ASSUME Inv, NEW l \in List, NEW m \in List, NEW S \in SUBSET Proc,
         LoopBegin(l, m, S)
  PROVE  Inv'
<1>1. /\ head' = head /\ tail' = tail /\ next' = next /\ abs' = abs
      /\ arg' = arg /\ current' = current /\ previous' = previous
      /\ src' = l /\ dst' = m /\ l # m /\ pc = "idle"
      /\ chosen' = S /\ cursor' = head[l] /\ looping' = TRUE /\ pc' = "loop"
  BY DEF LoopBegin, ptrs, walk
<1>2. TypeOK'
  BY <1>1 DEF Inv, TypeOK
<1>3. NoneChosenBefore(cursor)'
  <2>1. /\ Len(abs[l]) \in Nat
        /\ head[l] = PtrAt(abs[l], 1)
    BY RangeIs DEF Inv, TypeOK, Represents, PointersAre
  <2>2. /\ 1 \in 1 .. Len(abs'[src']) + 1
        /\ cursor' = PtrAt(abs'[src'], 1)
        /\ \A j \in 1 .. 1 - 1 : abs'[src'][j] \notin chosen'
    BY <1>1, <2>1
  <2> QED BY <2>2 DEF NoneChosenBefore
<1> QED
  BY <1>1, <1>2, <1>3
     DEF Inv, Represents, Partition, Listed, WalkComplete, InRemove, InLoop

(* Where the walk stands when its cursor is a process.                     *)
LEMMA CursorIs ==
  ASSUME Inv, pc = "loop", cursor # Null
  PROVE  /\ cursor \in Proc
         /\ \E i \in 1 .. Len(abs[src]) :
              /\ cursor = abs[src][i]
              /\ next[cursor] = PtrAt(abs[src], i + 1)
              /\ \A j \in 1 .. i - 1 : abs[src][j] \notin chosen
<1> DEFINE s == abs[src]
<1>1. PICK i \in 1 .. Len(s) + 1 :
        /\ cursor = PtrAt(s, i)
        /\ \A j \in 1 .. i - 1 : s[j] \notin chosen
  BY DEF Inv, WalkComplete, NoneChosenBefore
<1>2. s \in Seq(Proc) /\ Len(s) \in Nat
  BY RangeIs DEF Inv, TypeOK
<1>3. i \in 1 .. Len(s) /\ cursor = s[i]
  BY <1>1, <1>2, PtrAtIs
<1>4. next[s[i]] = PtrAt(s, i + 1)
  BY <1>3 DEF Inv, TypeOK, Represents, PointersAre
<1> QED
  BY <1>1, <1>3, <1>4 DEF Inv, TypeOK, Ptr

LEMMA LoopSkipInv ==
  ASSUME Inv, LoopSkip
  PROVE  Inv'
<1> DEFINE s == abs[src]
<1>1. /\ head' = head /\ tail' = tail /\ next' = next /\ abs' = abs /\ pc' = pc
      /\ arg' = arg /\ src' = src /\ dst' = dst
      /\ current' = current /\ previous' = previous
      /\ looping' = looping /\ chosen' = chosen
      /\ pc = "loop" /\ cursor # Null /\ cursor \notin chosen
      /\ cursor' = next[cursor]
  BY DEF LoopSkip, ptrs, call, walk
<1>2. cursor \in Proc
  BY <1>1, CursorIs
<1>3. PICK i \in 1 .. Len(s) :
        /\ cursor = s[i]
        /\ next[cursor] = PtrAt(s, i + 1)
        /\ \A j \in 1 .. i - 1 : s[j] \notin chosen
  BY <1>1, CursorIs
<1>4. NoneChosenBefore(cursor)'
  <2>1. Len(s) \in Nat
    BY RangeIs DEF Inv, TypeOK
  <2>2. i + 1 \in 1 .. Len(s) + 1
    BY <2>1
  <2>3. \A j \in 1 .. (i + 1) - 1 : s[j] \notin chosen
    BY <1>1, <1>3, <2>1
  <2> QED BY <1>1, <1>3, <2>2, <2>3 DEF NoneChosenBefore
<1>5. TypeOK'
  BY <1>1, <1>2 DEF Inv, TypeOK
<1> QED
  BY <1>1, <1>4, <1>5
     DEF Inv, Represents, Partition, Listed, WalkComplete, InRemove, InLoop

LEMMA LoopMoveInv ==
  ASSUME Inv, LoopMove
  PROVE  Inv'
<1> DEFINE s == abs[src]
<1>1. /\ pc = "loop" /\ cursor \in chosen
      /\ arg' = cursor /\ src' = src /\ dst' = dst
      /\ looping' = looping /\ chosen' = chosen
      /\ cursor' = next[cursor]
      /\ RemoveBegin(cursor, src)
  BY DEF LoopMove
<1>2. cursor \in Proc /\ cursor # Null
  BY <1>1, ListAssumption DEF Inv, TypeOK, Proc, Null
<1>3. PICK i \in 1 .. Len(s) :
        /\ cursor = s[i]
        /\ next[cursor] = PtrAt(s, i + 1)
        /\ \A j \in 1 .. i - 1 : s[j] \notin chosen
  BY <1>1, <1>2, CursorIs
<1>4. /\ head' \in [List -> Ptr] /\ tail' = tail /\ next' = next
      /\ abs' \in [List -> Seq(Proc)]
      /\ pc' \in {"walk", "add"}
      /\ current' \in Ptr /\ previous' \in Ptr
      /\ Represents' /\ Partition' /\ InRemove'
  BY <1>1, <1>2, RemoveBeginInv DEF Inv, TypeOK
<1>5. TypeOK'
  BY <1>1, <1>2, <1>4 DEF Inv, TypeOK, Ptr
<1>6. /\ s \in Seq(Proc) /\ Len(s) \in Nat
      /\ \A a, b \in 1 .. Len(s) : s[a] = s[b] => a = b
      /\ head[src] = PtrAt(s, 1)
      /\ src \in List
  BY RangeIs DEF Inv, TypeOK, Represents, PointersAre, Partition
<1>7. InLoop'
  <2>1. CASE head[src] = cursor
    <3>1. pc' = "add" /\ abs' = [abs EXCEPT ![src] = Tail(s)]
      BY <1>1, <2>1 DEF RemoveBegin
    <3>2. abs'[src'] = Tail(s)
      BY <1>1, <1>6, <3>1 DEF Inv, TypeOK
    <3>3. i = 1 /\ s # <<>>
      BY <1>3, <1>6, <2>1 DEF PtrAt
    <3>4. /\ Len(Tail(s)) = Len(s) - 1
          /\ \A j \in 1 .. Len(s) - 1 : Tail(s)[j] = s[j + 1]
      BY <1>6, <3>3
    <3>5. cursor' = PtrAt(Tail(s), 1)
      BY <1>1, <1>3, <1>6, <3>3, <3>4 DEF PtrAt
    <3>6. 1 \in 1 .. Len(Tail(s)) + 1
      BY <1>6, <3>3, <3>4
    <3>7. NoneChosenBefore(cursor)'
      BY <3>2, <3>5, <3>6 DEF NoneChosenBefore
    <3> QED BY <1>1, <1>2, <3>1, <3>7 DEF Inv, InLoop
  <2>2. CASE head[src] # cursor
    <3>1. pc' = "walk" /\ abs' = abs
      BY <1>1, <2>2 DEF RemoveBegin
    <3> QED BY <1>1, <1>3, <3>1 DEF Inv, InLoop
  <2> QED BY <2>1, <2>2
<1> QED
  BY <1>4, <1>5, <1>7 DEF Inv, WalkComplete

LEMMA LoopEndInv ==
  ASSUME Inv, LoopEnd
  PROVE  Inv'
  BY DEF Inv, LoopEnd, ptrs, call, walk, TypeOK, Represents, Partition,
         Listed, WalkComplete, InRemove, InLoop

(* For any number of slots and lists, and whatever sequence of moves and   *)
(* walks the callers make, the invariant holds in every state.             *)
THEOREM Correct == Spec => []Inv
<1>1. Inv /\ [Next]_vars => Inv'
  <2> SUFFICES ASSUME Inv, [Next]_vars PROVE Inv'
    OBVIOUS
  <2>1. CASE Next
    BY <2>1, MoveInv, WalkNextInv, WalkFailsInv, UnlinkInv, AddInv,
       LoopBeginInv, LoopSkipInv, LoopMoveInv, LoopEndInv DEF Next
  <2>2. CASE UNCHANGED vars
    BY <2>2 DEF vars, ptrs, call, walk, loop, Inv, TypeOK, Represents, Partition,
                Listed, WalkComplete, NoneChosenBefore, InRemove, InLoop
  <2> QED BY <2>1, <2>2
<1> QED
  BY <1>1, InitInv, PTL DEF Spec

(* The pointers that stateListAdd and stateListRemove leave behind are     *)
(* always the intended lists, no process is ever lost from them or on two  *)
(* of them, and wakeup1 and the promotion loop miss no process they should *)
(* move.                                                                   *)
THEOREM ListsRepresentedAlways == Spec => []ListsRepresented
<1>1. Inv => ListsRepresented
  BY DEF Inv, ListsRepresented
<1> QED
  BY <1>1, Correct, PTL
==============================================================================

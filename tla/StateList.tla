------------------------------ MODULE StateList ------------------------------
(***************************************************************************)
(* The linked lists of proc.c: stateListAdd and stateListRemove on head,   *)
(* tail and next pointers, and the loops of wakeup1 and of the promotion   *)
(* code in scheduler(), which walk a list while they move its processes to *)
(* another one.  Everything runs under ptable.lock, so there is one caller *)
(* at a time; each iteration of a loop is a step.                          *)
(*                                                                         *)
(* abs is a history variable: the lists as the sequences that ProcTable    *)
(* works with.  Represents says that the pointers are those sequences.     *)
(***************************************************************************)
EXTENDS Lists

CONSTANTS
  NPROC,   \* slots of ptable.proc
  List     \* the lists of ptable.pLists

ASSUME ListAssumption == NPROC \in Nat \ {0} /\ List # {}

VARIABLES
  head, tail,  \* the two pointers of each list
  next,        \* p->next
  abs,         \* history: each list as a sequence
  pc,          \* "idle", "loop", "walk", "add"
  arg,         \* the process being moved, or 0
  src, dst,    \* the lists it is moved between
  current, previous,  \* locals of stateListRemove
  looping,     \* the move is part of a walk of src
  cursor,      \* the walk's saved next process
  chosen       \* the processes the walk moves

ptrs == <<head, tail, next>>
call == <<arg, src, dst>>
walk == <<current, previous>>
loop == <<looping, cursor, chosen>>
vars == <<ptrs, abs, pc, call, walk, loop>>

Proc == 1 .. NPROC
Null == 0
Ptr == Proc \cup {Null}

(* What a pointer to place i of the list s holds: null off both ends.      *)
PtrAt(s, i) == IF i \in 1 .. Len(s) THEN s[i] ELSE Null

Listed(p) == \E l \in List : p \in Range(abs[l])

(* initProcessLists() and initFreeList(): every slot is on one list, in    *)
(* the order of the table; the other lists are empty.                      *)
Init ==
  \E free \in List :
    /\ head = [l \in List |-> IF l = free THEN 1 ELSE Null]
    /\ tail = [l \in List |-> IF l = free THEN NPROC ELSE Null]
    /\ next = [p \in Proc |-> IF p = NPROC THEN Null ELSE p + 1]
    /\ abs = [l \in List |-> IF l = free THEN [i \in Proc |-> i] ELSE <<>>]
    /\ pc = "idle"
    /\ arg = Null
    /\ src = free
    /\ dst = free
    /\ current = Null
    /\ previous = Null
    /\ looping = FALSE
    /\ cursor = Null
    /\ chosen = {}

(* stateListRemove, up to its loop: p is the head, or the list is walked.  *)
(* (On an empty list the walk ends at once, like the code's early return.) *)
RemoveBegin(p, l) ==
  IF head[l] = p
  THEN /\ head' = [head EXCEPT ![l] = next[p]]
       /\ abs' = [abs EXCEPT ![l] = Tail(@)]
       /\ pc' = "add"
       /\ UNCHANGED <<tail, next, walk>>
  ELSE /\ current' = head[l]
       /\ previous' = Null
       /\ pc' = "walk"
       /\ UNCHANGED <<ptrs, abs>>

(* A caller moves process p from list l to list m.  It believes p to be on *)
(* l; when it is not, stateListRemove returns -1 and the caller panics.    *)
Move(p, l, m) ==
  /\ pc = "idle"
  /\ arg' = p
  /\ src' = l
  /\ dst' = m
  /\ RemoveBegin(p, l)
  /\ UNCHANGED loop

(* The walk loop of stateListRemove.                                       *)
WalkNext ==
  /\ pc = "walk"
  /\ current # Null
  /\ current # arg
  /\ previous' = current
  /\ current' = next[current]
  /\ UNCHANGED <<ptrs, abs, pc, call, loop>>

(* Faulty variant: a process that is not found counts as removed.          *)
WalkFailsSilently ==
  /\ pc = "walk"
  /\ current = Null
  /\ pc' = "add"
  /\ UNCHANGED <<ptrs, abs, call, walk, loop>>

(* p is not on the list: -1, nothing has changed.                          *)
WalkFails ==
  /\ pc = "walk"
  /\ current = Null
  /\ pc' = IF looping THEN "loop" ELSE "idle"
  /\ UNCHANGED <<ptrs, abs, call, walk, loop>>

(* Faulty variant: the list's tail pointer is not moved back.              *)
UnlinkNoTail ==
  /\ pc = "walk"
  /\ current = arg
  /\ next' = [next EXCEPT ![previous] = next[current], ![arg] = Null]
  /\ abs' = [abs EXCEPT ![src] = Without(@, arg)]
  /\ pc' = "add"
  /\ UNCHANGED <<head, tail, call, walk, loop>>

(* p is found behind previous: unlink it.                                  *)
Unlink ==
  /\ pc = "walk"
  /\ current = arg
  /\ IF current = tail[src]
     THEN /\ tail' = [tail EXCEPT ![src] = previous]
          /\ next' = [next EXCEPT ![previous] = Null, ![arg] = Null]
     ELSE /\ next' = [next EXCEPT ![previous] = next[current], ![arg] = Null]
          /\ UNCHANGED tail
  /\ abs' = [abs EXCEPT ![src] = Without(@, arg)]
  /\ pc' = "add"
  /\ UNCHANGED <<head, call, walk, loop>>

(* stateListAdd.                                                           *)
Add ==
  /\ pc = "add"
  /\ IF head[dst] = Null
     THEN /\ head' = [head EXCEPT ![dst] = arg]
          /\ next' = [next EXCEPT ![arg] = Null]
     ELSE /\ next' = [next EXCEPT ![tail[dst]] = arg, ![arg] = Null]
          /\ UNCHANGED head
  /\ tail' = [tail EXCEPT ![dst] = arg]
  /\ abs' = [abs EXCEPT ![dst] = Append(@, arg)]
  /\ pc' = IF looping THEN "loop" ELSE "idle"
  /\ UNCHANGED <<call, walk, loop>>

(* wakeup1(chan) moves the sleepers on chan to a ready list; promotion     *)
(* moves a whole ready list.  Both save the next process before they       *)
(* unlink this one.                                                        *)
LoopBegin(l, m, S) ==
  /\ pc = "idle"
  /\ l # m
  /\ src' = l
  /\ dst' = m
  /\ chosen' = S
  /\ cursor' = head[l]
  /\ looping' = TRUE
  /\ pc' = "loop"
  /\ UNCHANGED <<ptrs, abs, arg, walk>>

LoopSkip ==
  /\ pc = "loop"
  /\ cursor \notin chosen \cup {Null}
  /\ cursor' = next[cursor]
  /\ UNCHANGED <<ptrs, abs, pc, call, walk, looping, chosen>>

(* Faulty variant: p->next is read after the move, which has cleared it.   *)
LoopMoveReadsLate ==
  /\ pc = "loop"
  /\ cursor \in chosen
  /\ arg' = cursor
  /\ cursor' = Null
  /\ RemoveBegin(cursor, src)
  /\ UNCHANGED <<src, dst, looping, chosen>>

LoopMove ==
  /\ pc = "loop"
  /\ cursor \in chosen
  /\ arg' = cursor
  /\ cursor' = next[cursor]
  /\ RemoveBegin(cursor, src)
  /\ UNCHANGED <<src, dst, looping, chosen>>

LoopEnd ==
  /\ pc = "loop"
  /\ cursor = Null
  /\ pc' = "idle"
  /\ looping' = FALSE
  /\ chosen' = {}
  /\ UNCHANGED <<ptrs, abs, call, walk, cursor>>

Next ==
  \/ \E p \in Proc, l, m \in List : Move(p, l, m)
  \/ WalkNext
  \/ WalkFails
  \/ Unlink
  \/ Add
  \/ \E l, m \in List, S \in SUBSET Proc : LoopBegin(l, m, S)
  \/ LoopSkip
  \/ LoopMove
  \/ LoopEnd

Spec == Init /\ [][Next]_vars

-----------------------------------------------------------------------------
TypeOK ==
  /\ head \in [List -> Ptr]
  /\ tail \in [List -> Ptr]
  /\ next \in [Proc -> Ptr]
  /\ abs \in [List -> Seq(Proc)]
  /\ pc \in {"idle", "loop", "walk", "add"}
  /\ arg \in Ptr
  /\ src \in List
  /\ dst \in List
  /\ current \in Ptr
  /\ previous \in Ptr
  /\ looping \in BOOLEAN
  /\ cursor \in Ptr
  /\ chosen \in SUBSET Proc

(* A head h, a tail t and next pointers n are the sequence s: h is its     *)
(* first process, n leads from each one to the one behind it and ends in   *)
(* null, t is the last.  The tail of an empty list is left as it was.      *)
PointersAre(h, t, n, s) ==
  /\ h = PtrAt(s, 1)
  /\ s # <<>> => t = s[Len(s)]
  /\ \A i \in 1 .. Len(s) : n[s[i]] = PtrAt(s, i + 1)

(* Whatever the callers do, a list's pointers are the sequence it stands   *)
(* for, at every step of every operation on any list.                      *)
Represents == \A l \in List : PointersAre(head[l], tail[l], next, abs[l])

(* Every process is on exactly one list, once, except the one that is just *)
(* being moved.                                                            *)
Partition ==
  /\ \A l \in List : IsInjective(abs[l])
  /\ \A l, m \in List : l # m => Range(abs[l]) \cap Range(abs[m]) = {}
  /\ \A p \in Proc : Listed(p) <=> ~(pc = "add" /\ p = arg)

(* The pointer is at a place of src that no chosen process is in front of. *)
NoneChosenBefore(pointer) ==
  \E i \in 1 .. Len(abs[src]) + 1 :
    /\ pointer = PtrAt(abs[src], i)
    /\ \A j \in 1 .. i - 1 : abs[src][j] \notin chosen

(* A walk that moves processes misses none of those it should move: where  *)
(* it is, the list holds no chosen process before the cursor, and none at  *)
(* all when the walk is over.                                              *)
WalkComplete == pc = "loop" => NoneChosenBefore(cursor)

(* Whatever adds, removes and moving walks the callers make, the         *)
(* pointers are the lists they stand for, no process is lost or on two   *)
(* lists, and a walk that moves what it visits misses nobody             *)
(* (proc.c:640-670, 1055-1130).                                          *)
ListsRepresented == Represents /\ Partition /\ WalkComplete

(* What holds inside stateListRemove: previous and current are neighbours, *)
(* and arg has not been passed.                                            *)
InRemove ==
  pc = "walk" =>
    /\ arg \in Proc
    /\ head[src] # arg
    /\ \E i \in 1 .. Len(abs[src]) + 1 :
         /\ current = PtrAt(abs[src], i)
         /\ previous = PtrAt(abs[src], i - 1)
         /\ \A j \in 1 .. i - 1 : abs[src][j] # arg

(* What holds inside a walk that moves processes: until arg is unlinked    *)
(* the cursor is behind it.                                                *)
InLoop ==
  /\ pc = "loop" => looping
  /\ pc = "idle" => ~looping
  /\ pc = "add" => arg \in Proc
  /\ looping => src # dst
  /\ pc = "add" /\ looping => NoneChosenBefore(cursor)
  /\ pc = "walk" /\ looping =>
       \E k \in 1 .. Len(abs[src]) :
         /\ arg = abs[src][k]
         /\ cursor = PtrAt(abs[src], k + 1)
         /\ \A j \in 1 .. k - 1 : abs[src][j] \notin chosen

(* The inductive invariant.                                                *)
Inv ==
  /\ TypeOK
  /\ Represents
  /\ Partition
  /\ WalkComplete
  /\ InRemove
  /\ InLoop
==============================================================================

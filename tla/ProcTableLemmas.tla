--------------------------- MODULE ProcTableLemmas ---------------------------
(***************************************************************************)
(* Proofs about the process table, for any number of slots, CPUs and       *)
(* priorities.  The argument rests on one observation: every operation     *)
(* moves one process from the list of its old state to the list of its new *)
(* one, under ptable.lock.  The lemmas of the first part say what such a   *)
(* move does to one list; the others take the operations in turn.          *)
(***************************************************************************)
EXTENDS ProcTable, ListLemmas

(* The list of the state a process gets.                                   *)
LEMMA ListAdd ==
  ASSUME NEW l \in Seq(Proc), NEW st \in [Proc -> State], NEW k \in State,
         NEW p \in Proc, IsListOf(l, st, k), st[p] # k
  PROVE  /\ stateListAdd(l, p) \in Seq(Proc)
         /\ IsListOf(stateListAdd(l, p), [st EXCEPT ![p] = k], k)
<1>1. p \notin Range(l)
  BY DEF IsListOf
<1>2. /\ Append(l, p) \in Seq(Proc)
      /\ Range(Append(l, p)) = Range(l) \cup {p}
      /\ IsInjective(Append(l, p))
  BY <1>1, AppendRange DEF IsListOf
<1> QED
  BY <1>2 DEF IsListOf, stateListAdd

(* The list of the state a process loses.                                  *)
LEMMA ListRemove ==
  ASSUME NEW l \in Seq(Proc), NEW st \in [Proc -> State], NEW k \in State,
         NEW p \in Proc, IsListOf(l, st, k), st[p] = k, NEW m \in State, m # k
  PROVE  /\ stateListRemove(l, p) \in Seq(Proc)
         /\ IsListOf(stateListRemove(l, p), [st EXCEPT ![p] = m], k)
<1>1. p \in Range(l)
  BY DEF IsListOf
<1>2. /\ Without(l, p) \in Seq(Proc)
      /\ Range(Without(l, p)) = Range(l) \ {p}
      /\ IsInjective(Without(l, p))
  BY <1>1, WithoutRange DEF IsListOf
<1> QED
  BY <1>2 DEF IsListOf, stateListRemove

(* The same when the process is the head of the list.                      *)
LEMMA ListTail ==
  ASSUME NEW l \in Seq(Proc), NEW st \in [Proc -> State], NEW k \in State,
         IsListOf(l, st, k), l # <<>>, NEW m \in State, m # k
  PROVE  /\ Head(l) \in Proc
         /\ st[Head(l)] = k
         /\ Tail(l) \in Seq(Proc)
         /\ IsListOf(Tail(l), [st EXCEPT ![Head(l)] = m], k)
<1>1. /\ Head(l) \in Range(l)
      /\ Head(l) \in Proc
      /\ Tail(l) \in Seq(Proc)
      /\ IsInjective(Tail(l))
      /\ Range(Tail(l)) = Range(l) \ {Head(l)}
  BY TailRange DEF IsListOf
<1> QED
  BY <1>1 DEF IsListOf

(* Every other list.                                                       *)
LEMMA ListKept ==
  ASSUME NEW l, NEW st \in [Proc -> State], NEW k \in State, NEW p \in Proc,
         IsListOf(l, st, k), st[p] # k, NEW m \in State, m # k
  PROVE  IsListOf(l, [st EXCEPT ![p] = m], k)
  BY DEF IsListOf

(* A process becomes RUNNABLE and goes to the end of ready list i.         *)
LEMMA ReadyAdd ==
  ASSUME NEW r \in [Prio -> Seq(Proc)], NEW st \in [Proc -> State],
         NEW p \in Proc, AreReadyLists(r, st), st[p] # "RUNNABLE", NEW i \in Prio
  PROVE  LET r2 == [r EXCEPT ![i] = stateListAdd(@, p)]
         IN  /\ r2 \in [Prio -> Seq(Proc)]
             /\ AreReadyLists(r2, [st EXCEPT ![p] = "RUNNABLE"])
             /\ Range(r2[i]) = Range(r[i]) \cup {p}
             /\ \A j \in Prio \ {i} : r2[j] = r[j]
<1> DEFINE r2 == [r EXCEPT ![i] = stateListAdd(@, p)]
           st2 == [st EXCEPT ![p] = "RUNNABLE"]
<1>1. \A j \in Prio : p \notin Range(r[j]) /\ r[j] \in Seq(Proc) /\ IsInjective(r[j])
  BY DEF AreReadyLists
<1>2. /\ Append(r[i], p) \in Seq(Proc)
      /\ Range(Append(r[i], p)) = Range(r[i]) \cup {p}
      /\ IsInjective(Append(r[i], p))
  BY <1>1, AppendRange
<1>3. r2[i] = Append(r[i], p) /\ \A j \in Prio \ {i} : r2[j] = r[j]
  BY DEF stateListAdd
<1>4. r2 \in [Prio -> Seq(Proc)]
  BY <1>2 DEF stateListAdd
<1> HIDE DEF r2
<1>5. \A j \in Prio : IsInjective(r2[j])
  BY <1>1, <1>2, <1>3
<1>6. /\ Range(r2[i]) = Range(r[i]) \cup {p}
      /\ \A j \in Prio \ {i} : Range(r2[j]) = Range(r[j])
  BY <1>2, <1>3
<1>7. ASSUME NEW a \in Prio, NEW b \in Prio, a # b
      PROVE  Range(r2[a]) \cap Range(r2[b]) = {}
  <2>1. Range(r[a]) \cap Range(r[b]) = {}
    BY <1>7 DEF AreReadyLists
  <2>2. CASE a = i
    BY <1>1, <1>6, <1>7, <2>1, <2>2
  <2>3. CASE b = i
    BY <1>1, <1>6, <1>7, <2>1, <2>3
  <2>4. CASE a # i /\ b # i
    BY <1>6, <2>1, <2>4
  <2> QED BY <2>2, <2>3, <2>4
<1>8. ASSUME NEW q \in Proc
      PROVE  st2[q] = "RUNNABLE" <=> \E j \in Prio : q \in Range(r2[j])
  <2>1. CASE q = p
    BY <1>6, <2>1
  <2>2. CASE q # p
    <3>1. \A j \in Prio : q \in Range(r2[j]) <=> q \in Range(r[j])
      BY <1>6, <2>2
    <3> QED BY <2>2, <3>1 DEF AreReadyLists
  <2> QED BY <2>1, <2>2
<1>9. AreReadyLists(r2, st2)
  BY <1>5, <1>7, <1>8 DEF AreReadyLists
<1> QED
  BY <1>3, <1>4, <1>6, <1>9 DEF r2

(* The head of ready list i becomes RUNNING.                               *)
LEMMA ReadyTail ==
  ASSUME NEW r \in [Prio -> Seq(Proc)], NEW st \in [Proc -> State],
         AreReadyLists(r, st), NEW i \in Prio, r[i] # <<>>
  PROVE  LET r2 == [r EXCEPT ![i] = Tail(@)]
         IN  /\ Head(r[i]) \in Proc
             /\ st[Head(r[i])] = "RUNNABLE"
             /\ r2 \in [Prio -> Seq(Proc)]
             /\ AreReadyLists(r2, [st EXCEPT ![Head(r[i])] = "RUNNING"])
             /\ \A j \in Prio : Range(r2[j]) \subseteq Range(r[j])
<1> DEFINE p == Head(r[i])
           r2 == [r EXCEPT ![i] = Tail(@)]
           st2 == [st EXCEPT ![p] = "RUNNING"]
<1>1. r[i] \in Seq(Proc) /\ IsInjective(r[i])
  BY DEF AreReadyLists
<1>2. /\ p \in Range(r[i])
      /\ p \in Proc
      /\ Tail(r[i]) \in Seq(Proc)
      /\ IsInjective(Tail(r[i]))
      /\ Range(Tail(r[i])) = Range(r[i]) \ {p}
  BY <1>1, TailRange
<1>3. r2[i] = Tail(r[i]) /\ \A j \in Prio \ {i} : r2[j] = r[j]
  OBVIOUS
<1>4. r2 \in [Prio -> Seq(Proc)]
  BY <1>2
<1>5. st[p] = "RUNNABLE"
  BY <1>2 DEF AreReadyLists
<1> HIDE DEF r2, p
<1>6. \A j \in Prio : IsInjective(r2[j])
  BY <1>2, <1>3 DEF AreReadyLists
<1>7. ASSUME NEW j \in Prio PROVE Range(r2[j]) = Range(r[j]) \ {p}
  <2>1. CASE j = i
    BY <1>2, <1>3, <2>1
  <2>2. CASE j # i
    <3>1. Range(r[j]) \cap Range(r[i]) = {}
      BY <2>2 DEF AreReadyLists
    <3> QED BY <1>2, <1>3, <2>2, <3>1
  <2> QED BY <2>1, <2>2
<1>8. \A a, b \in Prio : a # b => Range(r2[a]) \cap Range(r2[b]) = {}
  BY <1>7 DEF AreReadyLists
<1>9. ASSUME NEW q \in Proc
      PROVE  st2[q] = "RUNNABLE" <=> \E j \in Prio : q \in Range(r2[j])
  <2>1. CASE q = p
    BY <1>7, <2>1
  <2>2. CASE q # p
    BY <1>7, <2>2 DEF AreReadyLists
  <2> QED BY <2>1, <2>2
<1>10. AreReadyLists(r2, st2)
  BY <1>6, <1>8, <1>9 DEF AreReadyLists
<1>11. \A j \in Prio : Range(r2[j]) \subseteq Range(r[j])
  BY <1>7
<1> QED
  BY <1>2, <1>4, <1>5, <1>10, <1>11 DEF r2, p

(* A move between two other lists.                                         *)
LEMMA ReadyKept ==
  ASSUME NEW r, NEW st \in [Proc -> State], NEW p \in Proc,
         AreReadyLists(r, st), st[p] # "RUNNABLE",
         NEW m \in State, m # "RUNNABLE"
  PROVE  AreReadyLists(r, [st EXCEPT ![p] = m])
  BY DEF AreReadyLists

(* Promotion moves every ready list up one level and loses nobody.         *)
LEMMA PromotedLists ==
  ASSUME ready \in [Prio -> Seq(Proc)], AreReadyLists(ready, state)
  PROVE  /\ PromotedReady \in [Prio -> Seq(Proc)]
         /\ AreReadyLists(PromotedReady, state)
         /\ Range(PromotedReady[0]) = Range(ready[0]) \cup Range(Above(0))
         /\ \A i \in Prio \ {0} : Range(PromotedReady[i]) = Range(Above(i))
         /\ \A i \in Prio : Range(Above(i)) = IF i < MAXPRIO THEN Range(ready[i + 1])
                                                             ELSE {}
<1>0. /\ MAXPRIO \in Nat
      /\ 0 \in Prio
      /\ \A i \in Prio : i \in Nat /\ (i < MAXPRIO => i + 1 \in Prio)
  BY ConstantsAssumption DEF Prio
<1>1. \A i \in Prio : ready[i] \in Seq(Proc) /\ IsInjective(ready[i])
  BY DEF AreReadyLists
<1>2. Range(<<>>) = {} /\ IsInjective(<<>>) /\ <<>> \in Seq(Proc)
  BY DEF Range, IsInjective
<1>3. ASSUME NEW i \in Prio
      PROVE  /\ Above(i) \in Seq(Proc)
             /\ IsInjective(Above(i))
             /\ Range(Above(i)) = IF i < MAXPRIO THEN Range(ready[i + 1]) ELSE {}
  BY <1>0, <1>1, <1>2 DEF Above
<1>4. ASSUME NEW i \in Prio, NEW j \in Prio, i # j
      PROVE  Range(ready[i]) \cap Range(ready[j]) = {}
  BY <1>4 DEF AreReadyLists
<1>5. ASSUME NEW i \in Prio, NEW j \in Prio, i # j
      PROVE  Range(Above(i)) \cap Range(Above(j)) = {}
  <2>1. CASE i < MAXPRIO /\ j < MAXPRIO
    <3>1. i + 1 \in Prio /\ j + 1 \in Prio /\ i + 1 # j + 1
      BY <1>0, <1>5, <2>1
    <3> QED BY <1>3, <1>4, <2>1, <3>1
  <2>2. CASE ~(i < MAXPRIO /\ j < MAXPRIO)
    BY <1>3, <2>2
  <2> QED BY <2>1, <2>2
<1>6. ASSUME NEW i \in Prio PROVE Range(ready[0]) \cap Range(Above(i)) = {}
  <2>1. CASE i < MAXPRIO
    <3>1. i + 1 \in Prio /\ 0 # i + 1
      BY <1>0, <2>1
    <3> QED BY <1>0, <1>3, <1>4, <2>1, <3>1
  <2>2. CASE ~(i < MAXPRIO)
    BY <1>3, <2>2
  <2> QED BY <2>1, <2>2
<1>7. /\ ready[0] \o Above(0) \in Seq(Proc)
      /\ IsInjective(ready[0] \o Above(0))
      /\ Range(ready[0] \o Above(0)) = Range(ready[0]) \cup Range(Above(0))
  BY <1>0, <1>1, <1>3, <1>6, ConcatRange
<1> DEFINE r == PromotedReady
<1>8. /\ r[0] = ready[0] \o Above(0)
      /\ \A i \in Prio \ {0} : r[i] = Above(i)
  BY <1>0 DEF PromotedReady
<1>9. r \in [Prio -> Seq(Proc)]
  BY <1>3, <1>7 DEF PromotedReady
<1> HIDE DEF r
<1>10. /\ Range(r[0]) = Range(ready[0]) \cup Range(Above(0))
       /\ \A i \in Prio \ {0} : Range(r[i]) = Range(Above(i))
  BY <1>7, <1>8
<1>11. \A i \in Prio : IsInjective(r[i])
  BY <1>3, <1>7, <1>8
<1>12. ASSUME NEW i \in Prio, NEW j \in Prio, i # j
       PROVE  Range(r[i]) \cap Range(r[j]) = {}
  <2>1. CASE i = 0
    BY <1>0, <1>5, <1>6, <1>10, <1>12, <2>1
  <2>2. CASE j = 0
    BY <1>0, <1>5, <1>6, <1>10, <1>12, <2>2
  <2>3. CASE i # 0 /\ j # 0
    BY <1>5, <1>10, <1>12, <2>3
  <2> QED BY <2>1, <2>2, <2>3
<1>13. ASSUME NEW q \in Proc
       PROVE  (\E i \in Prio : q \in Range(ready[i])) <=> \E i \in Prio : q \in Range(r[i])
  <2>1. ASSUME NEW i \in Prio, q \in Range(ready[i])
        PROVE  \E j \in Prio : q \in Range(r[j])
    <3>1. CASE i = 0
      BY <1>0, <1>10, <2>1, <3>1
    <3>2. CASE i # 0
      <4>1. i - 1 \in Prio /\ i - 1 < MAXPRIO /\ (i - 1) + 1 = i
        BY <1>0, <3>2 DEF Prio
      <4>2. q \in Range(Above(i - 1))
        BY <1>3, <2>1, <4>1
      <4> QED BY <1>10, <4>1, <4>2
    <3> QED BY <3>1, <3>2
  <2>2. ASSUME NEW i \in Prio, q \in Range(r[i])
        PROVE  \E j \in Prio : q \in Range(ready[j])
    <3>1. q \in Range(Above(i)) => \E j \in Prio : q \in Range(ready[j])
      BY <1>0, <1>3
    <3> QED BY <1>0, <1>10, <2>2, <3>1
  <2> QED BY <2>1, <2>2
<1>14. AreReadyLists(r, state)
  BY <1>11, <1>12, <1>13 DEF AreReadyLists
<1> QED
  BY <1>3, <1>9, <1>10, <1>14 DEF r

(* Unsigned arithmetic stays in range.                                     *)
LEMMA TickRange ==
  /\ \A a \in Int : a % TickMod \in Tick
  /\ \A a \in Int : a % TickMod \in Int
  /\ Tick \subseteq Int
  /\ 0 \in Tick
  BY ConstantsAssumption DEF Tick

(* What sched() computes is a priority of the array and an integer budget. *)
LEMMA NextTyped ==
  ASSUME TypeOK, NEW p \in Proc
  PROVE  NextPriority(p) \in Prio /\ NextBudget(p) \in Int
<1>1. /\ priority[p] \in Prio /\ budget[p] \in Int
      /\ ticks \in Int /\ cpu_ticks_in[p] \in Int
  BY TickRange DEF TypeOK
<1>2. BudgetLeft(p) \in Int
  <2>1. ticks - cpu_ticks_in[p] \in Int
    BY <1>1
  <2>2. (ticks - cpu_ticks_in[p]) % TickMod \in Int
    BY <2>1, TickRange
  <2> QED BY <1>1, <2>2 DEF BudgetLeft
<1> QED
  BY <1>1, <1>2, ConstantsAssumption DEF NextPriority, NextBudget, Prio

(* What every operation can rely on about the process its CPU runs.        *)
LEMMA CurRuns ==
  ASSUME Inv, NEW c \in CPU, cur[c] # NoProc
  PROVE  /\ cur[c] \in Proc
         /\ state[cur[c]] = "RUNNING"
         /\ cur[c] \in Range(running)
         /\ \A d \in CPU : cur[d] = cur[c] => d = c
<1>1. cur[c] \in Proc
  BY DEF Inv, TypeOK
<1> QED
  BY <1>1 DEF Inv, RunningOnOneCpu, ListsMatchState, IsListOf

(* Steps that touch no list: only the lock, the clock, chan or parent.     *)
LEMMA FrameInv ==
  ASSUME Inv, TypeOK', HolderOK',
         UNCHANGED <<lists, state, cur, kpc, child, priority, killed, panicked>>
  PROVE  Inv'
<1>1. /\ free' = free /\ embryo' = embryo /\ ready' = ready /\ running' = running
      /\ sleep' = sleep /\ zombie' = zombie /\ state' = state /\ cur' = cur
      /\ kpc' = kpc /\ child' = child /\ priority' = priority /\ killed' = killed
      /\ panicked' = panicked
  BY DEF lists
<1>2. ListsMatchState' /\ RunningOnOneCpu'
  BY <1>1 DEF Inv, ListsMatchState, IsListOf, AreReadyLists, RunningOnOneCpu
<1>3. ReadyMatchesPriority' /\ NoListPanic' /\ ForkOK'
  BY <1>1 DEF Inv, ReadyMatchesPriority, NoListPanic, ForkOK
<1> QED
  BY <1>2, <1>3 DEF Inv

(* A process that does not hold the lock goes to another point outside     *)
(* fork().                                                                 *)
LEMMA LocalInv ==
  ASSUME Inv, TypeOK', NEW c \in CPU, NEW k \in KernelPoint \ Forking,
         cur[c] # NoProc, lock # c,
         kpc' = [kpc EXCEPT ![cur[c]] = k], kpc[cur[c]] \notin Forking,
         UNCHANGED <<lists, state, cur, child, priority, killed, lock, crit, panicked>>
  PROVE  Inv'
<1> DEFINE p == cur[c]
<1>1. /\ free' = free /\ embryo' = embryo /\ ready' = ready /\ running' = running
      /\ sleep' = sleep /\ zombie' = zombie /\ state' = state /\ cur' = cur
      /\ child' = child /\ priority' = priority /\ killed' = killed
      /\ panicked' = panicked /\ lock' = lock /\ crit' = crit
  BY DEF lists
<1>2. p \in Proc /\ state[p] = "RUNNING" /\ \A d \in CPU : cur[d] = p => d = c
  BY CurRuns
<1>3. ListsMatchState'
  BY <1>1 DEF Inv, ListsMatchState
<1>4. RunningOnOneCpu' /\ ReadyMatchesPriority' /\ NoListPanic'
  <2>1. RunningOnOneCpu'
    BY <1>1 DEF Inv, RunningOnOneCpu
  <2>2. ReadyMatchesPriority'
    BY <1>1 DEF Inv, ReadyMatchesPriority
  <2>3. NoListPanic'
    BY <1>1 DEF Inv, NoListPanic
  <2> QED BY <2>1, <2>2, <2>3
<1>5. \A q \in Proc : kpc'[q] = IF q = p THEN k ELSE kpc[q]
  BY DEF Inv, TypeOK
<1>6. ForkOK'
  BY <1>1, <1>2, <1>5 DEF Inv, ForkOK
<1>7. HolderOK'
  <2>1. CASE crit \in {"none", "pick", "wakeup"}
    BY <1>1, <2>1 DEF Inv, HolderOK
  <2>2. CASE crit \notin {"none", "pick", "wakeup"}
    <3>1. lock \in CPU /\ cur[lock] \in Proc /\ cur[lock] # p
      BY <1>2, <2>2 DEF Inv, HolderOK, TypeOK, Critical
    <3> QED BY <1>1, <1>5, <3>1 DEF Inv, HolderOK
  <2> QED BY <2>1, <2>2
<1> QED
  BY <1>3, <1>4, <1>6, <1>7 DEF Inv

(* A panic that the invariant allows changes nothing else.                 *)
LEMMA PanicInv ==
  ASSUME Inv, Panic("init exiting")
  PROVE  Inv'
<1>1. /\ panicked' = "init exiting"
      /\ UNCHANGED <<lists, state, parent, killed, chan, mlfq, ticks, lock, crit,
                     wch, cur, irq, locals>>
  BY DEF Panic
<1>2. TypeOK'
  BY <1>1 DEF Inv, TypeOK, Message, lists, mlfq, locals
<1>3. ListsMatchState' /\ RunningOnOneCpu'
  BY <1>1 DEF Inv, ListsMatchState, IsListOf, AreReadyLists, RunningOnOneCpu, lists
<1>4. ReadyMatchesPriority' /\ NoListPanic'
  BY <1>1 DEF Inv, ReadyMatchesPriority, NoListPanic, lists, mlfq
<1>5. ForkOK' /\ HolderOK'
  BY <1>1 DEF Inv, ForkOK, HolderOK, locals
<1> QED
  BY <1>2, <1>3, <1>4, <1>5 DEF Inv

(* A process that is neither becoming nor ceasing to be an embryo changes  *)
(* its state.                                                              *)
LEMMA ForkKept ==
  ASSUME Inv, NEW p \in Proc, NEW m \in Alive \cup {"ZOMBIE"},
         state[p] # "EMBRYO", state' = [state EXCEPT ![p] = m], child' = child,
         \A q \in Proc \ {p} : kpc'[q] = kpc[q],
         kpc'[p] = kpc[p] \/ kpc'[p] \notin Forking,
         m = "ZOMBIE" => kpc'[p] = "exiting",
         m = "SLEEPING" => kpc'[p] \notin Forking
  PROVE  ForkOK'
<1>1. \A q \in Proc : state'[q] = IF q = p THEN m ELSE state[q]
  BY DEF Inv, TypeOK
<1>2. \A q \in Proc : kpc'[q] \in Forking => kpc[q] \in Forking
  OBVIOUS
<1>3. m \notin {"UNUSED", "EMBRYO"}
  BY DEF Alive
<1>4. ASSUME NEW q \in Proc
      PROVE  /\ state'[q] \in {"UNUSED", "EMBRYO"} => kpc'[q] = "user"
             /\ state'[q] = "ZOMBIE" => kpc'[q] = "exiting"
             /\ state'[q] = "SLEEPING" => kpc'[q] \notin Forking
  BY <1>1, <1>3 DEF Inv, ForkOK
<1>5. ASSUME NEW q \in Proc, kpc'[q] \in Forking
      PROVE  child'[q] \in Proc /\ state'[child'[q]] = "EMBRYO"
  <2>1. child[q] \in Proc /\ state[child[q]] = "EMBRYO"
    BY <1>2, <1>5 DEF Inv, ForkOK
  <2> QED BY <1>1, <2>1
<1>6. \A q, r \in Proc :
        kpc'[q] \in Forking /\ kpc'[r] \in Forking /\ child'[q] = child'[r] => q = r
  BY <1>2 DEF Inv, ForkOK
<1> QED
  BY <1>4, <1>5, <1>6 DEF ForkOK

(* A process that runs on no CPU changes to a state other than RUNNING.    *)
LEMMA OneCpuKept ==
  ASSUME Inv, NEW p \in Proc, NEW m \in State \ {"RUNNING"},
         state[p] # "RUNNING", state' = [state EXCEPT ![p] = m], cur' = cur
  PROVE  RunningOnOneCpu'
<1>1. \A q \in Proc : state'[q] = IF q = p THEN m ELSE state[q]
  BY DEF Inv, TypeOK
<1> QED
  BY <1>1 DEF Inv, RunningOnOneCpu

(* CPU c gives up its process: yield(), sleep() and exit() up to sched().  *)
LEMMA SchedOut ==
  ASSUME Inv, NEW c \in CPU, cur[c] # NoProc, Sched(c, cur[c]),
         NEW m \in {"RUNNABLE", "SLEEPING", "ZOMBIE"},
         running' = stateListRemove(running, cur[c]),
         state' = [state EXCEPT ![cur[c]] = m],
         free' = free, embryo' = embryo
  PROVE  /\ {free, embryo, running, sleep, zombie} \subseteq Seq(Proc)
         /\ running' \in Seq(Proc) /\ state' \in [Proc -> State]
         /\ priority' \in [Proc -> Prio] /\ budget' \in [Proc -> Int]
         /\ cpu_ticks_in' \in [Proc -> Tick] /\ PromoteAtTime' \in Tick
         /\ cur' \in [CPU -> Proc \cup {NoProc}]
         /\ IsListOf(free', state', "UNUSED")
         /\ IsListOf(embryo', state', "EMBRYO")
         /\ IsListOf(running', state', "RUNNING")
         /\ RunningOnOneCpu'
         /\ priority'[cur[c]] = NextPriority(cur[c])
         /\ NextPriority(cur[c]) \in Prio
         /\ \A q \in Proc \ {cur[c]} : priority'[q] = priority[q]
<1> DEFINE p == cur[c]
<1>1. /\ p \in Proc /\ state[p] = "RUNNING"
      /\ \A d \in CPU : cur[d] = p => d = c
  BY CurRuns
<1>2. /\ {free, embryo, running, sleep, zombie} \subseteq Seq(Proc)
      /\ state \in [Proc -> State]
      /\ {m, "UNUSED", "EMBRYO", "RUNNING"} \subseteq State
      /\ IsListOf(free, state, "UNUSED")
      /\ IsListOf(embryo, state, "EMBRYO")
      /\ IsListOf(running, state, "RUNNING")
  BY DEF Inv, TypeOK, ListsMatchState, State
<1>3. state' \in [Proc -> State] /\ \A q \in Proc : state'[q] = IF q = p THEN m ELSE state[q]
  BY <1>1, <1>2
<1>4. running' \in Seq(Proc) /\ IsListOf(running', state', "RUNNING")
  BY <1>1, <1>2, ListRemove
<1>5. IsListOf(free', state', "UNUSED") /\ IsListOf(embryo', state', "EMBRYO")
  BY <1>1, <1>2, ListKept
<1>6. NextPriority(p) \in Prio /\ NextBudget(p) \in Int
  BY <1>1, NextTyped DEF Inv
<1>7. /\ budget' = [budget EXCEPT ![p] = NextBudget(p)]
      /\ priority' = [priority EXCEPT ![p] = NextPriority(p)]
      /\ cpu_ticks_in' = [cpu_ticks_in EXCEPT ![p] = 0]
      /\ cur' = [cur EXCEPT ![c] = NoProc]
      /\ PromoteAtTime' = PromoteAtTime
  BY DEF Sched
<1>8. /\ priority' \in [Proc -> Prio] /\ budget' \in [Proc -> Int]
      /\ cpu_ticks_in' \in [Proc -> Tick] /\ PromoteAtTime' \in Tick
      /\ cur' \in [CPU -> Proc \cup {NoProc}]
      /\ priority'[p] = NextPriority(p)
      /\ \A q \in Proc \ {p} : priority'[q] = priority[q]
  BY <1>1, <1>6, <1>7, TickRange DEF Inv, TypeOK
<1>9. RunningOnOneCpu'
  <2>1. \A d \in CPU : cur'[d] = IF d = c THEN NoProc ELSE cur[d]
    BY <1>7 DEF Inv, TypeOK
  <2>2. NoProc \notin Proc
    BY ConstantsAssumption DEF NoProc, Proc
  <2>3. ASSUME NEW q \in Proc
        PROVE  state'[q] = "RUNNING" <=> \E d \in CPU : cur'[d] = q
    <3>1. CASE q = p
      BY <1>1, <1>3, <2>1, <2>2, <3>1
    <3>2. CASE q # p
      BY <1>3, <2>1, <2>2, <3>2 DEF Inv, RunningOnOneCpu
    <3> QED BY <3>1, <3>2
  <2>4. \A d, e \in CPU : cur'[d] = cur'[e] /\ cur'[d] # NoProc => d = e
    BY <2>1 DEF Inv, RunningOnOneCpu
  <2> QED BY <2>3, <2>4 DEF RunningOnOneCpu
<1> QED
  BY <1>2, <1>3, <1>4, <1>5, <1>6, <1>8, <1>9

(* A running process is on no ready list, so its priority is free.         *)
LEMMA ReadyPrioKept ==
  ASSUME Inv, NEW p \in Proc, state[p] # "RUNNABLE", ready' = ready,
         \A q \in Proc \ {p} : priority'[q] = priority[q] /\ (killed[q] => killed'[q])
  PROVE  ReadyMatchesPriority'
<1>1. \A i \in Prio : Range(ready[i]) \subseteq Proc
  BY RangeSubset DEF Inv, TypeOK
<1>2. \A i \in Prio : p \notin Range(ready[i])
  BY DEF Inv, ListsMatchState, AreReadyLists
<1> QED
  BY <1>1, <1>2 DEF Inv, ReadyMatchesPriority

(* A process becomes RUNNABLE on ready list i.                             *)
LEMMA BecomesReady ==
  ASSUME Inv, NEW p \in Proc, state[p] # "RUNNABLE", NEW i \in Prio,
         state' = [state EXCEPT ![p] = "RUNNABLE"],
         ready' = [ready EXCEPT ![i] = stateListAdd(@, p)],
         \A q \in Proc \ {p} : priority'[q] = priority[q] /\ (killed[q] => killed'[q]),
         priority'[p] = i \/ (i = 0 /\ killed'[p])
  PROVE  /\ ready' \in [Prio -> Seq(Proc)]
         /\ AreReadyLists(ready', state')
         /\ ReadyMatchesPriority'
<1>1. /\ state \in [Proc -> State] /\ ready \in [Prio -> Seq(Proc)]
      /\ AreReadyLists(ready, state)
  BY DEF Inv, TypeOK, ListsMatchState
<1>2. LET r2 == [ready EXCEPT ![i] = stateListAdd(@, p)]
      IN  /\ r2 \in [Prio -> Seq(Proc)]
          /\ AreReadyLists(r2, [state EXCEPT ![p] = "RUNNABLE"])
          /\ Range(r2[i]) = Range(ready[i]) \cup {p}
          /\ \A j \in Prio \ {i} : r2[j] = ready[j]
  BY <1>1, ReadyAdd, Zenon
<1>3. /\ ready' \in [Prio -> Seq(Proc)]
      /\ AreReadyLists(ready', state')
      /\ Range(ready'[i]) = Range(ready[i]) \cup {p}
      /\ \A j \in Prio \ {i} : ready'[j] = ready[j]
  BY <1>2, Zenon
<1>4. \A j \in Prio : Range(ready[j]) \subseteq Proc
  BY <1>1, RangeSubset
<1>5. \A j \in Prio : p \notin Range(ready[j])
  BY <1>1 DEF AreReadyLists
<1>6. ASSUME NEW j \in Prio, NEW q \in Range(ready'[j])
      PROVE  priority'[q] = j \/ (j = 0 /\ killed'[q])
  <2>1. CASE q = p
    <3>1. j = i
      BY <1>3, <1>5, <2>1
    <3> QED BY <2>1, <3>1
  <2>2. CASE q # p
    <3>1. q \in Range(ready[j]) /\ q \in Proc
      BY <1>3, <1>4, <2>2
    <3>2. priority[q] = j \/ (j = 0 /\ killed[q])
      BY <3>1 DEF Inv, ReadyMatchesPriority
    <3> QED BY <2>2, <3>1, <3>2
  <2> QED BY <2>1, <2>2
<1>7. ReadyMatchesPriority'
  BY <1>6 DEF ReadyMatchesPriority
<1> QED
  BY <1>3, <1>7

(* The conjuncts of the invariant about the lists, one by one.             *)
LEMMA ListFacts ==
  ASSUME Inv
  PROVE  /\ free \in Seq(Proc) /\ IsListOf(free, state, "UNUSED")
         /\ embryo \in Seq(Proc) /\ IsListOf(embryo, state, "EMBRYO")
         /\ running \in Seq(Proc) /\ IsListOf(running, state, "RUNNING")
         /\ sleep \in Seq(Proc) /\ IsListOf(sleep, state, "SLEEPING")
         /\ zombie \in Seq(Proc) /\ IsListOf(zombie, state, "ZOMBIE")
         /\ ready \in [Prio -> Seq(Proc)] /\ AreReadyLists(ready, state)
         /\ state \in [Proc -> State]
         /\ "UNUSED" \in State /\ "EMBRYO" \in State /\ "RUNNABLE" \in State
         /\ "RUNNING" \in State /\ "SLEEPING" \in State /\ "ZOMBIE" \in State
BY DEF Inv, TypeOK, ListsMatchState, State

=============================================================================

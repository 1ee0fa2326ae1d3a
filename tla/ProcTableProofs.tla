--------------------------- MODULE ProcTableProofs ---------------------------
(***************************************************************************)
(* The remaining operations (the scheduler, wakeup1(), kill(), fork() and  *)
(* setpriority()), and the theorems about the process table.               *)
(***************************************************************************)
EXTENDS ProcTableSteps

(* userinit() establishes the invariant.                                   *)
LEMMA InitInv == Init => Inv
<1> SUFFICES ASSUME Init PROVE Inv
  OBVIOUS
<1>0. /\ NPROC \in Nat /\ NPROC > 0 /\ MAXPRIO \in Nat
      /\ initproc \in Proc /\ 0 \in Prio /\ NoProc \notin Proc
      /\ 0 \in Tick /\ TICKS_TO_PROMOTE \in Tick
  BY ConstantsAssumption DEF initproc, Proc, Prio, NoProc, Tick
<1>1. /\ free \in Seq(Proc)
      /\ Len(free) = NPROC - 1
      /\ \A i \in 1 .. NPROC - 1 : free[i] = i + 1
  BY <1>0 DEF Init, Proc
<1>2. Range(<<>>) = {} /\ IsInjective(<<>>) /\ <<>> \in Seq(Proc)
  BY DEF Range, IsInjective
<1>3. /\ <<initproc>> \in Seq(Proc)
      /\ IsInjective(<<initproc>>)
      /\ Range(<<initproc>>) = {initproc}
  BY <1>0 DEF Range, IsInjective
<1>4. \A i \in Prio : ready[i] = IF i = 0 THEN <<initproc>> ELSE <<>>
  BY DEF Init
<1>5. \A p \in Proc : state[p] = IF p = initproc THEN "RUNNABLE" ELSE "UNUSED"
  BY DEF Init
<1>6. TypeOK
  <2>1. {free, embryo, running, sleep, zombie} \subseteq Seq(Proc)
    BY <1>1, <1>2 DEF Init
  <2>2. ready \in [Prio -> Seq(Proc)]
    BY <1>2, <1>3 DEF Init
  <2>3. /\ state \in [Proc -> State]
        /\ parent \in [Proc -> Proc \cup {NoProc}]
        /\ killed \in [Proc -> BOOLEAN]
        /\ chan \in [Proc -> Chan]
        /\ wch \in Chan
    BY <1>0 DEF Init, State, Chan, NoChan
  <2>4. /\ priority \in [Proc -> Prio]
        /\ budget \in [Proc -> Int]
        /\ cpu_ticks_in \in [Proc -> Tick]
        /\ PromoteAtTime \in Tick
        /\ ticks \in Tick
    BY <1>0, ConstantsAssumption DEF Init
  <2>5. /\ lock \in CPU \cup {NoCPU}
        /\ crit \in Critical
        /\ cur \in [CPU -> Proc \cup {NoProc}]
        /\ irq \in {"none", "wake", "yield"}
    BY DEF Init, Critical
  <2>6. /\ kpc \in [Proc -> KernelPoint]
        /\ child \in [Proc -> Proc \cup {NoProc}]
        /\ nap \in [Proc -> [t0 : Tick, n : Nat]]
        /\ panicked \in Message
    BY <1>0 DEF Init, KernelPoint, NoNap, Message
  <2> QED BY <2>1, <2>2, <2>3, <2>4, <2>5, <2>6 DEF TypeOK
<1>7. IsListOf(free, state, "UNUSED")
  <2>1. IsInjective(free)
    BY <1>0, <1>1, RangeIs
  <2>2. ASSUME NEW p \in Proc PROVE p \in Range(free) <=> p # initproc
    <3>1. p \in Range(free) <=> \E i \in 1 .. NPROC - 1 : free[i] = p
      BY <1>1, RangeIs
    <3>2. p # initproc => p - 1 \in 1 .. NPROC - 1 /\ (p - 1) + 1 = p
      BY <1>0 DEF Proc, initproc
    <3>3. p = initproc => \A i \in 1 .. NPROC - 1 : i + 1 # p
      BY <1>0 DEF Proc, initproc
    <3> QED BY <1>1, <3>1, <3>2, <3>3
  <2> QED BY <1>5, <2>1, <2>2 DEF IsListOf
<1>8. AreReadyLists(ready, state)
  <2>1. /\ Range(ready[0]) = {initproc}
        /\ \A i \in Prio \ {0} : Range(ready[i]) = {}
    BY <1>0, <1>2, <1>3, <1>4
  <2>2. \A i \in Prio : IsInjective(ready[i])
    BY <1>2, <1>3, <1>4
  <2> QED BY <1>0, <1>5, <2>1, <2>2 DEF AreReadyLists
<1>9. ListsMatchState
  BY <1>2, <1>5, <1>7, <1>8 DEF ListsMatchState, IsListOf, Init
<1>10. ReadyMatchesPriority
  <2>1. \A i \in Prio : Range(ready[i]) = IF i = 0 THEN {initproc} ELSE {}
    BY <1>2, <1>3, <1>4
  <2> QED BY <1>0, <2>1 DEF ReadyMatchesPriority, Init
<1>11. RunningOnOneCpu
  BY <1>0, <1>5 DEF RunningOnOneCpu, Init
<1>12. NoListPanic /\ HolderOK /\ ForkOK
  BY <1>5 DEF NoListPanic, HolderOK, ForkOK, Init, Forking
<1> QED
  BY <1>6, <1>9, <1>10, <1>11, <1>12 DEF Inv

(* fork() between its two critical sections.                               *)
LEMMA ForkMiddleInv ==
  ASSUME Inv, NEW c \in CPU, ForkStack(c) \/ ForkCopy(c)
  PROVE  Inv'
<1> DEFINE p == cur[c]
           np == child[p]
<1>1. /\ p # NoProc /\ lock # c /\ kpc[p] \in Forking
      /\ UNCHANGED <<lists, state, killed, chan, priority, budget, PromoteAtTime,
                     ticks, lock, crit, wch, cur, irq, child, nap, panicked>>
  BY DEF ForkStack, ForkCopy, At, Forking, mlfq
<1>2. p \in Proc /\ state[p] = "RUNNING" /\ \A d \in CPU : cur[d] = p => d = c
  BY <1>1, CurRuns
<1>3. np \in Proc /\ state[np] = "EMBRYO" /\ kpc[np] = "user"
  BY <1>1, <1>2 DEF Inv, ForkOK
<1>4. PICK k \in Forking : \A q \in Proc : kpc'[q] = IF q = p THEN k ELSE kpc[q]
  <2>1. CASE ForkStack(c)
    BY <1>2, <1>3, <2>1 DEF ForkStack, Inv, TypeOK, Forking
  <2>2. CASE ForkCopy(c)
    BY <1>2, <2>2 DEF ForkCopy, Inv, TypeOK, Forking
  <2> QED BY <2>1, <2>2
<1>5. TypeOK'
  <2>0. /\ cpu_ticks_in \in [Proc -> Tick]
        /\ parent \in [Proc -> Proc \cup {NoProc}]
        /\ 0 \in Tick
    BY TickRange DEF Inv, TypeOK
  <2>1. cpu_ticks_in' \in [Proc -> Tick] /\ parent' \in [Proc -> Proc \cup {NoProc}]
    <3>1. CASE ForkStack(c)
      BY <1>3, <2>0, <3>1 DEF ForkStack
    <3>2. CASE ForkCopy(c)
      BY <1>2, <1>3, <2>0, <3>2 DEF ForkCopy, mlfq
    <3> QED BY <3>1, <3>2
  <2>2. kpc' \in [Proc -> KernelPoint]
    BY <1>2 DEF ForkStack, ForkCopy, Inv, TypeOK, KernelPoint, Forking
  <2> QED BY <1>1, <2>1, <2>2 DEF Inv, TypeOK, lists
<1>6. ListsMatchState' /\ RunningOnOneCpu'
  BY <1>1 DEF Inv, ListsMatchState, IsListOf, AreReadyLists, RunningOnOneCpu, lists
<1>7. ReadyMatchesPriority' /\ NoListPanic'
  BY <1>1 DEF Inv, ReadyMatchesPriority, NoListPanic, lists
<1>8. ForkOK'
  BY <1>1, <1>2, <1>4 DEF Inv, ForkOK
<1>9. HolderOK'
  <2>1. CASE crit \in {"none", "pick", "wakeup"}
    BY <1>1, <2>1 DEF Inv, HolderOK
  <2>2. CASE crit \notin {"none", "pick", "wakeup"}
    <3>1. lock \in CPU /\ cur[lock] \in Proc /\ cur[lock] # p
      BY <1>1, <1>2, <2>2 DEF Inv, HolderOK, TypeOK, Critical
    <3> QED BY <1>1, <1>4, <3>1 DEF Inv, HolderOK
  <2> QED BY <2>1, <2>2
<1> QED
  BY <1>5, <1>6, <1>7, <1>8, <1>9 DEF Inv

(* scheduler() takes the lock and promotes when the deadline has passed.   *)
LEMMA SchedulerEnterInv ==
  ASSUME Inv, NEW c \in CPU, SchedulerEnter(c)
  PROVE  Inv'
<1>1. cur[c] = NoProc /\ lock = NoCPU
  BY DEF SchedulerEnter
<1>2. CASE PromoteAtTime > ticks
  <2>1. /\ lock' = c /\ crit' = "pick"
        /\ UNCHANGED <<lists, state, parent, killed, chan, mlfq, ticks, wch, cur,
                       irq, locals, panicked>>
    BY <1>2 DEF SchedulerEnter, Acquire, lists, mlfq
  <2>2. TypeOK'
    BY <2>1 DEF Inv, TypeOK, Critical, lists, mlfq, locals
  <2>3. HolderOK'
    <3>1. c # NoCPU
      BY ConstantsAssumption DEF CPU, NoCPU
    <3> QED BY <1>1, <2>1, <3>1 DEF HolderOK
  <2> QED BY <2>1, <2>2, <2>3, FrameInv DEF mlfq, locals
<1>3. CASE ~(PromoteAtTime > ticks)
  <2>0. /\ ready \in [Prio -> Seq(Proc)] /\ AreReadyLists(ready, state)
        /\ priority \in [Proc -> Prio] /\ MAXPRIO \in Nat
        /\ \A i \in Prio : Range(ready[i]) \subseteq Proc
    BY RangeSubset, ConstantsAssumption DEF Inv, TypeOK, ListsMatchState
  <2>1. ~ \E i \in Prio \ {0} : \E p \in Range(ready[i]) : priority[p] # i
    BY DEF Inv, ReadyMatchesPriority
  <2>2. /\ lock' = c /\ crit' = "pick"
        /\ Promote
        /\ UNCHANGED <<free, embryo, running, sleep, zombie, state, parent,
                       killed, chan, budget, cpu_ticks_in, ticks, wch, cur,
                       irq, locals, panicked>>
    BY <1>3, <2>1 DEF SchedulerEnter, Acquire
  <2>3. /\ ready' \in [Prio -> Seq(Proc)]
        /\ AreReadyLists(ready', state')
        /\ Range(ready'[0]) = Range(ready[0]) \cup Range(Above(0))
        /\ \A i \in Prio \ {0} : Range(ready'[i]) = Range(Above(i))
        /\ \A i \in Prio : Range(Above(i)) = IF i < MAXPRIO THEN Range(ready[i + 1])
                                                            ELSE {}
    BY <2>0, <2>2, PromotedLists DEF Promote
  <2>4. \A p \in Proc : priority'[p] = IF p \in Promoted /\ priority[p] > 0
                                       THEN priority[p] - 1 ELSE priority[p]
    BY <2>2 DEF Promote
  <2>5. priority' \in [Proc -> Prio]
    BY <2>0, <2>2 DEF Promote, Prio
  <2>6. PromoteAtTime' \in Tick
    <3>1. PromoteAtTime + TICKS_TO_PROMOTE \in Int
      BY TickRange, ConstantsAssumption DEF Inv, TypeOK
    <3> QED BY <2>2, <3>1, TickRange DEF Promote
  <2>7. TypeOK'
    BY <2>2, <2>3, <2>5, <2>6 DEF Inv, TypeOK, Critical, locals
  <2>8. ListsMatchState' /\ RunningOnOneCpu'
    BY <2>2, <2>3 DEF Inv, ListsMatchState, IsListOf, RunningOnOneCpu
  <2>9. ASSUME NEW i \in Prio, NEW p \in Range(Above(i))
        PROVE  priority'[p] = i
    <3>1. i < MAXPRIO /\ p \in Range(ready[i + 1]) /\ i + 1 \in Prio \ {0}
      BY <2>0, <2>3, <2>9 DEF Prio
    <3>2. priority[p] = i + 1 /\ p \in Proc
      BY <2>0, <2>1, <3>1
    <3>3. p \in Promoted
      BY <3>1 DEF Promoted
    <3> QED BY <2>4, <3>1, <3>2, <3>3 DEF Prio
  <2>10. ASSUME NEW p \in Range(ready[0])
         PROVE  priority'[p] = 0 \/ killed'[p]
    <3>1. p \in Proc /\ 0 \in Prio
      BY <2>0, <2>10 DEF Prio
    <3>2. priority[p] = 0 \/ killed[p]
      BY <2>10, <3>1 DEF Inv, ReadyMatchesPriority
    <3> QED BY <2>2, <2>4, <3>1, <3>2
  <2>11. ReadyMatchesPriority'
    BY <2>0, <2>3, <2>9, <2>10 DEF ReadyMatchesPriority, Prio
  <2>12. HolderOK'
    <3>1. c # NoCPU
      BY ConstantsAssumption DEF CPU, NoCPU
    <3> QED BY <1>1, <2>2, <3>1 DEF HolderOK
  <2>13. NoListPanic' /\ ForkOK'
    BY <2>2 DEF Inv, NoListPanic, ForkOK, locals
  <2> QED BY <2>7, <2>8, <2>11, <2>12, <2>13 DEF Inv
<1> QED
  BY <1>2, <1>3

(* scheduler() switches to the head of the first ready list.               *)
LEMMA SchedulerPickInv ==
  ASSUME Inv, NEW c \in CPU, SchedulerPick(c)
  PROVE  Inv'
<1>0. lock = c /\ crit = "pick" /\ cur[c] = NoProc
  BY DEF SchedulerPick, Holds, Inv, HolderOK
<1>1. PICK j \in Prio :
        LET p == Head(ready[j]) IN
        /\ ready[j] # <<>>
        /\ IF state[p] # "RUNNABLE"
           THEN Panic("Assert State failure")
           ELSE /\ ready' = [ready EXCEPT ![j] = Tail(@)]
                /\ state' = [state EXCEPT ![p] = "RUNNING"]
                /\ running' = stateListAdd(running, p)
                /\ cur' = [cur EXCEPT ![c] = p]
                /\ cpu_ticks_in' = [cpu_ticks_in EXCEPT ![p] = ticks]
                /\ crit' = "resume"
                /\ UNCHANGED <<free, embryo, sleep, zombie, parent, killed,
                               chan, priority, budget, PromoteAtTime, ticks,
                               lock, wch, irq, locals, panicked>>
  BY DEF SchedulerPick
<1> DEFINE p == Head(ready[j])
<1>2. /\ {free, embryo, running, sleep, zombie} \subseteq Seq(Proc)
      /\ ready \in [Prio -> Seq(Proc)] /\ AreReadyLists(ready, state)
      /\ state \in [Proc -> State] /\ State \ {"RUNNING"} \subseteq State
      /\ {"RUNNING", "UNUSED", "EMBRYO", "SLEEPING", "ZOMBIE"} \subseteq State
      /\ IsListOf(free, state, "UNUSED")
      /\ IsListOf(embryo, state, "EMBRYO")
      /\ IsListOf(running, state, "RUNNING")
      /\ IsListOf(sleep, state, "SLEEPING")
      /\ IsListOf(zombie, state, "ZOMBIE")
  BY DEF Inv, TypeOK, ListsMatchState, State
<1>3. LET r2 == [ready EXCEPT ![j] = Tail(@)]
      IN  /\ Head(ready[j]) \in Proc
          /\ state[Head(ready[j])] = "RUNNABLE"
          /\ r2 \in [Prio -> Seq(Proc)]
          /\ AreReadyLists(r2, [state EXCEPT ![Head(ready[j])] = "RUNNING"])
          /\ \A k \in Prio : Range(r2[k]) \subseteq Range(ready[k])
  BY <1>1, <1>2, ReadyTail
<1>4. /\ p \in Proc /\ state[p] = "RUNNABLE"
      /\ ready' = [ready EXCEPT ![j] = Tail(@)]
      /\ state' = [state EXCEPT ![p] = "RUNNING"]
      /\ running' = stateListAdd(running, p)
      /\ cur' = [cur EXCEPT ![c] = p]
      /\ cpu_ticks_in' = [cpu_ticks_in EXCEPT ![p] = ticks]
      /\ crit' = "resume"
      /\ UNCHANGED <<free, embryo, sleep, zombie, parent, killed,
                     chan, priority, budget, PromoteAtTime, ticks,
                     lock, wch, irq, locals, panicked>>
  BY <1>1, <1>3
<1>5. /\ ready' \in [Prio -> Seq(Proc)]
      /\ AreReadyLists(ready', state')
      /\ \A k \in Prio : Range(ready'[k]) \subseteq Range(ready[k])
  BY <1>3, <1>4, Zenon
<1> HIDE DEF p
<1>6. running' \in Seq(Proc) /\ IsListOf(running', state', "RUNNING")
  BY <1>2, <1>4, ListAdd
<1>7. /\ IsListOf(free', state', "UNUSED")
      /\ IsListOf(embryo', state', "EMBRYO")
      /\ IsListOf(sleep', state', "SLEEPING")
      /\ IsListOf(zombie', state', "ZOMBIE")
  BY <1>2, <1>4, ListKept
<1>8. ListsMatchState'
  BY <1>5, <1>6, <1>7 DEF ListsMatchState
<1>9. TypeOK'
  <2>1. ticks \in Tick /\ cpu_ticks_in \in [Proc -> Tick]
    BY DEF Inv, TypeOK
  <2>2. cpu_ticks_in' \in [Proc -> Tick] /\ state' \in [Proc -> State]
    BY <1>2, <1>4, <2>1
  <2>3. /\ UNCHANGED <<free, embryo, sleep, zombie, parent, killed, chan, ticks>>
        /\ UNCHANGED <<priority, budget, PromoteAtTime, lock, wch, irq>>
        /\ UNCHANGED <<kpc, child, nap, panicked>>
    BY <1>4 DEF locals
  <2>4. {free, embryo, running, sleep, zombie}' \subseteq Seq(Proc)
    BY <1>2, <1>6, <2>3 DEF Inv, TypeOK
  <2>5. /\ parent' \in [Proc -> Proc \cup {NoProc}]
        /\ killed' \in [Proc -> BOOLEAN]
        /\ chan' \in [Proc -> Chan]
        /\ priority' \in [Proc -> Prio] /\ budget' \in [Proc -> Int]
        /\ PromoteAtTime' \in Tick /\ ticks' \in Tick
    BY <2>3 DEF Inv, TypeOK
  <2>6. /\ lock' \in CPU \cup {NoCPU} /\ wch' \in Chan
        /\ irq' \in {"none", "wake", "yield"}
        /\ kpc' \in [Proc -> KernelPoint]
        /\ child' \in [Proc -> Proc \cup {NoProc}]
        /\ nap' \in [Proc -> [t0 : Tick, n : Nat]] /\ panicked' \in Message
    BY <2>3 DEF Inv, TypeOK
  <2>7. crit' \in Critical /\ cur' \in [CPU -> Proc \cup {NoProc}]
    BY <1>4 DEF Inv, TypeOK, Critical
  <2> QED BY <1>5, <2>2, <2>4, <2>5, <2>6, <2>7 DEF TypeOK
<1>10. ReadyMatchesPriority'
  BY <1>4, <1>5 DEF Inv, ReadyMatchesPriority
<1>11. \A d \in CPU : cur'[d] = IF d = c THEN p ELSE cur[d]
  BY <1>4 DEF Inv, TypeOK
<1>12. NoProc \notin Proc
  BY ConstantsAssumption DEF NoProc, Proc
<1>13. RunningOnOneCpu'
  <2>1. \A q \in Proc : state'[q] = IF q = p THEN "RUNNING" ELSE state[q]
    BY <1>2, <1>4
  <2>2. \A d \in CPU : cur[d] # p
    BY <1>4 DEF Inv, RunningOnOneCpu
  <2>3. ASSUME NEW q \in Proc
        PROVE  state'[q] = "RUNNING" <=> \E d \in CPU : cur'[d] = q
    <3>1. CASE q = p
      BY <1>11, <2>1, <3>1
    <3>2. CASE q # p
      <4>1. state[q] = "RUNNING" <=> \E d \in CPU : cur[d] = q
        BY DEF Inv, RunningOnOneCpu
      <4> QED BY <1>0, <1>11, <1>12, <2>1, <3>2, <4>1
    <3> QED BY <3>1, <3>2
  <2>4. \A d, e \in CPU : cur'[d] = cur'[e] /\ cur'[d] # NoProc => d = e
    BY <1>11, <2>2 DEF Inv, RunningOnOneCpu
  <2> QED BY <2>3, <2>4 DEF RunningOnOneCpu
<1>14. ForkOK'
  BY <1>4, ForkKept DEF Alive, locals
<1>15. HolderOK'
  <2>1. c # NoCPU
    BY ConstantsAssumption DEF CPU, NoCPU
  <2> QED BY <1>0, <1>4, <1>11, <1>12, <2>1 DEF HolderOK
<1>16. NoListPanic'
  BY <1>4 DEF Inv, NoListPanic
<1> QED
  BY <1>8, <1>9, <1>10, <1>13, <1>14, <1>15, <1>16 DEF Inv

(* A sleeping process is made ready, by wakeup1() or by kill().            *)
LEMMA WokenInv ==
  ASSUME Inv, NEW p \in Proc, state[p] = "SLEEPING", NEW i \in Prio,
         sleep' = stateListRemove(sleep, p),
         state' = [state EXCEPT ![p] = "RUNNABLE"],
         ready' = [ready EXCEPT ![i] = stateListAdd(@, p)],
         killed' = killed \/ killed' = [killed EXCEPT ![p] = TRUE],
         priority[p] = i \/ (i = 0 /\ killed'[p]),
         UNCHANGED <<free, embryo, running, zombie, parent, chan, mlfq, ticks,
                     lock, crit, wch, cur, irq, locals, panicked>>
  PROVE  Inv'
<1>1. /\ {free, embryo, running, sleep, zombie} \subseteq Seq(Proc)
      /\ state \in [Proc -> State] /\ killed \in [Proc -> BOOLEAN]
      /\ {"RUNNABLE", "RUNNING", "UNUSED", "EMBRYO", "SLEEPING", "ZOMBIE"} \subseteq State
      /\ IsListOf(free, state, "UNUSED")
      /\ IsListOf(embryo, state, "EMBRYO")
      /\ IsListOf(running, state, "RUNNING")
      /\ IsListOf(sleep, state, "SLEEPING")
      /\ IsListOf(zombie, state, "ZOMBIE")
  BY DEF Inv, TypeOK, ListsMatchState, State
<1>2. sleep' \in Seq(Proc) /\ IsListOf(sleep', state', "SLEEPING")
  <2>1. sleep \in Seq(Proc) /\ IsListOf(sleep, state, "SLEEPING")
    BY <1>1
  <2>2. "RUNNABLE" # "SLEEPING" /\ "RUNNABLE" \in State /\ "SLEEPING" \in State
    BY DEF State
  <2> QED BY <1>1, <2>1, <2>2, ListRemove, Zenon
<1>3. /\ IsListOf(free', state', "UNUSED")
      /\ IsListOf(embryo', state', "EMBRYO")
      /\ IsListOf(running', state', "RUNNING")
      /\ IsListOf(zombie', state', "ZOMBIE")
  BY <1>1, ListKept
<1>4. killed' \in [Proc -> BOOLEAN] /\ \A q \in Proc \ {p} : killed'[q] = killed[q]
  BY <1>1
<1>5. /\ ready' \in [Prio -> Seq(Proc)]
      /\ AreReadyLists(ready', state')
      /\ ReadyMatchesPriority'
  BY <1>4, BecomesReady DEF mlfq
<1>6. ListsMatchState'
  BY <1>2, <1>3, <1>5 DEF ListsMatchState
<1>7. TypeOK'
  <2>1. state' \in [Proc -> State]
    BY <1>1
  <2>2. /\ UNCHANGED <<free, embryo, running, zombie, parent, chan, ticks, lock>>
        /\ UNCHANGED <<crit, wch, cur, irq, kpc, child, nap, panicked>>
        /\ UNCHANGED <<priority, budget, cpu_ticks_in, PromoteAtTime>>
    BY DEF mlfq, locals
  <2>3. {free, embryo, running, sleep, zombie}' \subseteq Seq(Proc)
    BY <1>1, <1>2, <2>2
  <2>4. /\ parent' \in [Proc -> Proc \cup {NoProc}]
        /\ chan' \in [Proc -> Chan]
        /\ priority' \in [Proc -> Prio] /\ budget' \in [Proc -> Int]
        /\ cpu_ticks_in' \in [Proc -> Tick]
        /\ PromoteAtTime' \in Tick /\ ticks' \in Tick
    BY <2>2 DEF Inv, TypeOK
  <2>5. /\ lock' \in CPU \cup {NoCPU} /\ crit' \in Critical /\ wch' \in Chan
        /\ cur' \in [CPU -> Proc \cup {NoProc}]
        /\ irq' \in {"none", "wake", "yield"}
        /\ kpc' \in [Proc -> KernelPoint]
        /\ child' \in [Proc -> Proc \cup {NoProc}]
        /\ nap' \in [Proc -> [t0 : Tick, n : Nat]] /\ panicked' \in Message
    BY <2>2 DEF Inv, TypeOK
  <2> QED BY <1>4, <1>5, <2>1, <2>3, <2>4, <2>5 DEF TypeOK
<1>8. RunningOnOneCpu'
  BY OneCpuKept DEF State
<1>9. ForkOK'
  BY ForkKept DEF Alive, locals
<1>10. HolderOK' /\ NoListPanic'
  BY DEF Inv, HolderOK, NoListPanic, locals
<1> QED
  BY <1>5, <1>6, <1>7, <1>8, <1>9, <1>10 DEF Inv

(* wakeup1() moves a process of the sleep list, which is SLEEPING.         *)
LEMMA WakeupOneInv ==
  ASSUME Inv, NEW c \in CPU, WakeupOne(c)
  PROVE  Inv'
<1>1. PICK i \in DOMAIN sleep :
        LET p == sleep[i] IN
        IF state[p] # "SLEEPING"
        THEN Panic("Assert State failure")
        ELSE /\ sleep' = stateListRemove(sleep, p)
             /\ state' = [state EXCEPT ![p] = "RUNNABLE"]
             /\ ready' = [ready EXCEPT ![priority[p]] = stateListAdd(@, p)]
             /\ UNCHANGED <<free, embryo, running, zombie, parent, killed,
                            chan, mlfq, ticks, lock, crit, wch, cur, irq,
                            locals, panicked>>
  BY DEF WakeupOne
<1> DEFINE p == sleep[i]
<1>2. p \in Proc /\ state[p] = "SLEEPING"
  <2>1. sleep \in Seq(Proc)
    BY DEF Inv, TypeOK
  <2>2. p \in Proc
    BY <2>1
  <2>3. p \in Range(sleep)
    BY Zenon DEF Range
  <2> QED BY <2>2, <2>3 DEF Inv, ListsMatchState, IsListOf
<1>3. priority[p] \in Prio
  BY <1>2 DEF Inv, TypeOK
<1> QED
  BY <1>1, <1>2, <1>3, WokenInv

LEMMA KillInv ==
  ASSUME Inv, NEW c \in CPU, NEW t \in Proc, Kill(c, t)
  PROVE  Inv'
<1>1. CASE t \in Range(sleep)
  <2>1. state[t] = "SLEEPING"
    BY <1>1 DEF Inv, ListsMatchState, IsListOf
  <2>2. killed'[t] /\ 0 \in Prio
    BY ConstantsAssumption, SMTT(30) DEF Kill, Inv, TypeOK, Prio
  <2> QED BY <1>1, <2>1, <2>2, WokenInv DEF Kill
<1>2. CASE t \notin Range(sleep)
  <2>1. /\ killed' = [killed EXCEPT ![t] = TRUE]
        /\ UNCHANGED <<lists, state, parent, chan, mlfq, ticks, lock, crit, wch,
                       cur, irq, locals, panicked>>
    BY <1>2 DEF Kill, lists
  <2>2. TypeOK'
    BY <2>1 DEF Inv, TypeOK, lists, mlfq, locals
  <2>3. ListsMatchState' /\ RunningOnOneCpu'
    BY <2>1 DEF Inv, ListsMatchState, IsListOf, AreReadyLists, RunningOnOneCpu, lists
  <2>4. ReadyMatchesPriority'
    <3>1. \A i \in Prio : Range(ready[i]) \subseteq Proc
      BY RangeSubset DEF Inv, TypeOK
    <3>2. \A q \in Proc : killed[q] => killed'[q]
      BY <2>1 DEF Inv, TypeOK
    <3> QED BY <2>1, <3>1, <3>2 DEF Inv, ReadyMatchesPriority, lists, mlfq
  <2>5. NoListPanic' /\ HolderOK' /\ ForkOK'
    BY <2>1 DEF Inv, NoListPanic, HolderOK, ForkOK, locals
  <2> QED BY <2>2, <2>3, <2>4, <2>5 DEF Inv
<1> QED
  BY <1>1, <1>2

(* The proofs do not cover setpriority() on a running process with several *)
(* priorities, which breaks the lists: see the run proc_setprio.           *)
SetPriorityHarmless == MAXPRIO = 0 \/ "setpriority" \notin Syscalls

(* With one priority setpriority() refills a budget and moves nobody.      *)
LEMMA SetPriorityInv ==
  ASSUME SetPriorityHarmless, Inv, NEW c \in CPU, NEW t \in Proc, NEW prio \in Prio,
         SetPriority(c, t, prio)
  PROVE  Inv'
<1>1. MAXPRIO = 0
  BY DEF SetPriorityHarmless, SetPriority, Calls
<1>2. prio = 0 /\ priority[t] = 0 /\ priority \in [Proc -> Prio]
  BY <1>1 DEF Inv, TypeOK, Prio
<1>3. /\ budget' = [budget EXCEPT ![t] = BUDGET]
      /\ priority' = priority
      /\ UNCHANGED <<lists, state, parent, killed, chan, cpu_ticks_in,
                     PromoteAtTime, ticks, lock, crit, wch, cur, irq, locals,
                     panicked>>
  BY <1>2 DEF SetPriority, lists
<1>4. TypeOK'
  <2>1. /\ {free, embryo, running, sleep, zombie}' \subseteq Seq(Proc)
        /\ ready' \in [Prio -> Seq(Proc)]
        /\ state' \in [Proc -> State]
    BY <1>3 DEF Inv, TypeOK, lists
  <2>2. budget' \in [Proc -> Int] /\ priority' \in [Proc -> Prio]
    BY <1>2, <1>3, ConstantsAssumption, SMTT(30) DEF Inv, TypeOK
  <2>3. /\ parent' \in [Proc -> Proc \cup {NoProc}]
        /\ killed' \in [Proc -> BOOLEAN]
        /\ chan' \in [Proc -> Chan]
        /\ cpu_ticks_in' \in [Proc -> Tick]
        /\ PromoteAtTime' \in Tick /\ ticks' \in Tick
    BY <1>3 DEF Inv, TypeOK
  <2>4. /\ lock' \in CPU \cup {NoCPU} /\ crit' \in Critical /\ wch' \in Chan
        /\ cur' \in [CPU -> Proc \cup {NoProc}]
        /\ irq' \in {"none", "wake", "yield"} /\ panicked' \in Message
    BY <1>3 DEF Inv, TypeOK
  <2>5. /\ kpc' \in [Proc -> KernelPoint]
        /\ child' \in [Proc -> Proc \cup {NoProc}]
        /\ nap' \in [Proc -> [t0 : Tick, n : Nat]]
    BY <1>3 DEF Inv, TypeOK, locals
  <2> QED BY <2>1, <2>2, <2>3, <2>4, <2>5 DEF TypeOK
<1>5. HolderOK'
  BY <1>3 DEF Inv, HolderOK, locals
<1> QED
  BY <1>3, <1>4, <1>5, FrameInv DEF locals

(* allocproc() takes the head of the free list.                            *)
LEMMA ForkAllocInv ==
  ASSUME Inv, NEW c \in CPU, ForkAlloc(c)
  PROVE  Inv'
<1> DEFINE p == cur[c]
           np == Head(free)
<1>1. /\ p # NoProc /\ kpc[p] = "user" /\ lock = NoCPU /\ free # <<>>
      /\ free' = Tail(free)
      /\ state' = [state EXCEPT ![np] = "EMBRYO"]
      /\ budget' = [budget EXCEPT ![np] = BUDGET]
      /\ priority' = [priority EXCEPT ![np] = 0]
      /\ embryo' = stateListAdd(embryo, np)
      /\ child' = [child EXCEPT ![p] = np]
      /\ kpc' = [kpc EXCEPT ![p] = "kstack"]
      /\ UNCHANGED <<ready, running, sleep, zombie, parent, killed, chan,
                     cpu_ticks_in, PromoteAtTime, ticks>>
      /\ UNCHANGED <<lock, crit, wch, cur, irq, nap, panicked>>
  BY DEF ForkAlloc, Calls, At
<1>2. p \in Proc /\ state[p] = "RUNNING"
  BY <1>1, CurRuns
<1>3. /\ np \in Proc /\ state[np] = "UNUSED"
      /\ free' \in Seq(Proc) /\ IsListOf(free', state', "UNUSED")
  <2>1. "EMBRYO" # "UNUSED"
    OBVIOUS
  <2> QED BY <1>1, <2>1, ListFacts, ListTail
<1>4. embryo' \in Seq(Proc) /\ IsListOf(embryo', state', "EMBRYO")
  BY <1>1, <1>3, ListFacts, ListAdd
<1>5. /\ IsListOf(running', state', "RUNNING")
      /\ IsListOf(sleep', state', "SLEEPING")
      /\ IsListOf(zombie', state', "ZOMBIE")
  BY <1>1, <1>3, ListFacts, ListKept
<1>6. AreReadyLists(ready', state')
  BY <1>1, <1>3, ListFacts, ReadyKept
<1>7. ListsMatchState'
  BY <1>3, <1>4, <1>5, <1>6 DEF ListsMatchState
<1>8. TypeOK'
  <2>1. state' \in [Proc -> State]
    BY <1>1, ListFacts
  <2>2. budget' \in [Proc -> Int] /\ priority' \in [Proc -> Prio]
    <3>1. budget \in [Proc -> Int] /\ priority \in [Proc -> Prio]
      BY DEF Inv, TypeOK
    <3>2. BUDGET \in Int /\ 0 \in Prio
      BY ConstantsAssumption DEF Prio
    <3> QED BY <1>1, <3>1, <3>2
  <2>3. child' \in [Proc -> Proc \cup {NoProc}] /\ kpc' \in [Proc -> KernelPoint]
    BY <1>1, <1>3 DEF Inv, TypeOK, KernelPoint, Forking
  <2>4. {free, embryo, running, sleep, zombie}' \subseteq Seq(Proc)
    BY <1>1, <1>3, <1>4, ListFacts
  <2>5. /\ parent' \in [Proc -> Proc \cup {NoProc}]
        /\ killed' \in [Proc -> BOOLEAN]
        /\ chan' \in [Proc -> Chan]
        /\ cpu_ticks_in' \in [Proc -> Tick]
        /\ PromoteAtTime' \in Tick /\ ticks' \in Tick
        /\ ready' \in [Prio -> Seq(Proc)]
    BY <1>1 DEF Inv, TypeOK
  <2>6. /\ lock' \in CPU \cup {NoCPU} /\ crit' \in Critical /\ wch' \in Chan
        /\ cur' \in [CPU -> Proc \cup {NoProc}]
        /\ irq' \in {"none", "wake", "yield"}
        /\ nap' \in [Proc -> [t0 : Tick, n : Nat]] /\ panicked' \in Message
    BY <1>1 DEF Inv, TypeOK
  <2> QED BY <2>1, <2>2, <2>3, <2>4, <2>5, <2>6 DEF TypeOK
<1>9. RunningOnOneCpu'
  BY <1>1, <1>3, OneCpuKept, ListFacts
<1>10. ReadyMatchesPriority'
  <2>1. \A q \in Proc \ {np} : priority'[q] = priority[q] /\ (killed[q] => killed'[q])
    BY <1>1 DEF Inv, TypeOK
  <2> QED BY <1>1, <1>3, <2>1, ReadyPrioKept
<1>11. ForkOK'
  <2>1. \A q \in Proc :
          /\ state'[q] = IF q = np THEN "EMBRYO" ELSE state[q]
          /\ kpc'[q] = IF q = p THEN "kstack" ELSE kpc[q]
          /\ child'[q] = IF q = p THEN np ELSE child[q]
    BY <1>1 DEF Inv, TypeOK
  <2>2. p # np /\ kpc[np] = "user"
    BY <1>2, <1>3 DEF Inv, ForkOK
  <2>3. \A q \in Proc : kpc[q] \in Forking => child[q] \in Proc /\ child[q] # np
    BY <1>3 DEF Inv, ForkOK
  <2>4. ASSUME NEW q \in Proc
        PROVE  /\ state'[q] \in {"UNUSED", "EMBRYO"} => kpc'[q] = "user"
               /\ state'[q] = "ZOMBIE" => kpc'[q] = "exiting"
               /\ state'[q] = "SLEEPING" => kpc'[q] \notin Forking
               /\ kpc'[q] \in Forking =>
                    child'[q] \in Proc /\ state'[child'[q]] = "EMBRYO"
    <3>1. CASE q = p
      BY <1>2, <1>3, <2>1, <2>2, <3>1
    <3>2. CASE q # p
      <4>1. kpc'[q] = kpc[q] /\ child'[q] = child[q]
        BY <2>1, <3>2
      <4>2. CASE q = np
        BY <2>1, <2>2, <3>2, <4>1, <4>2 DEF Forking
      <4>3. CASE q # np
        <5>1. state'[q] = state[q]
          BY <2>1, <4>3
        <5>2. /\ state[q] \in {"UNUSED", "EMBRYO"} => kpc[q] = "user"
              /\ state[q] = "ZOMBIE" => kpc[q] = "exiting"
              /\ state[q] = "SLEEPING" => kpc[q] \notin Forking
              /\ kpc[q] \in Forking => state[child[q]] = "EMBRYO"
          BY DEF Inv, ForkOK
        <5>3. kpc[q] \in Forking => state'[child[q]] = "EMBRYO" /\ child[q] \in Proc
          BY <2>1, <2>3, <5>2
        <5> QED BY <4>1, <5>1, <5>2, <5>3
      <4> QED BY <4>2, <4>3
    <3> QED BY <3>1, <3>2
  <2>5. ASSUME NEW q \in Proc, NEW r \in Proc, kpc'[q] \in Forking,
               kpc'[r] \in Forking, child'[q] = child'[r]
        PROVE  q = r
    BY <2>1, <2>3, <2>5 DEF Inv, ForkOK
  <2> QED BY <2>4, <2>5 DEF ForkOK
<1>12. HolderOK' /\ NoListPanic'
  BY <1>1 DEF Inv, HolderOK, NoListPanic
<1> QED
  BY <1>7, <1>8, <1>9, <1>10, <1>11, <1>12 DEF Inv

(* The child of a process inside fork() is an embryo on the embryo list.   *)
LEMMA ChildIsEmbryo ==
  ASSUME Inv, NEW c \in CPU, cur[c] # NoProc, kpc[cur[c]] \in Forking
  PROVE  /\ child[cur[c]] \in Proc
         /\ state[child[cur[c]]] = "EMBRYO"
         /\ child[cur[c]] \in Range(embryo)
         /\ cur[c] \in Proc /\ state[cur[c]] = "RUNNING"
<1>1. cur[c] \in Proc /\ state[cur[c]] = "RUNNING"
  BY CurRuns
<1>2. child[cur[c]] \in Proc /\ state[child[cur[c]]] = "EMBRYO"
  BY <1>1 DEF Inv, ForkOK
<1> QED
  BY <1>1, <1>2, ListFacts DEF IsListOf

(* The child leaves the embryo list, for the free or a ready list, and its *)
(* parent leaves fork().                                                   *)
LEMMA ForkDone ==
  ASSUME Inv, NEW p \in Proc, NEW np \in Proc, child[p] = np, kpc[p] \in Forking,
         state[p] = "RUNNING", state[np] = "EMBRYO", NEW m \in {"UNUSED", "RUNNABLE"},
         state' = [state EXCEPT ![np] = m],
         child' = [child EXCEPT ![p] = NoProc],
         kpc' = [kpc EXCEPT ![p] = "user"]
  PROVE  /\ ForkOK'
         /\ child' \in [Proc -> Proc \cup {NoProc}]
         /\ kpc' \in [Proc -> KernelPoint]
         /\ state' \in [Proc -> State]
<1>1. \A q \in Proc :
        /\ state'[q] = IF q = np THEN m ELSE state[q]
        /\ kpc'[q] = IF q = p THEN "user" ELSE kpc[q]
        /\ child'[q] = IF q = p THEN NoProc ELSE child[q]
  BY DEF Inv, TypeOK
<1>2. p # np /\ kpc[np] = "user" /\ "user" \notin Forking
  BY DEF Inv, ForkOK, Forking
<1>3. \A q \in Proc \ {p} : kpc[q] \in Forking => child[q] \in Proc /\ child[q] # np
  BY DEF Inv, ForkOK
<1>4. ForkOK'
  <2>1. ASSUME NEW q \in Proc
        PROVE  /\ state'[q] \in {"UNUSED", "EMBRYO"} => kpc'[q] = "user"
               /\ state'[q] = "ZOMBIE" => kpc'[q] = "exiting"
               /\ state'[q] = "SLEEPING" => kpc'[q] \notin Forking
               /\ kpc'[q] \in Forking =>
                    child'[q] \in Proc /\ state'[child'[q]] = "EMBRYO"
    <3>1. /\ state[q] \in {"UNUSED", "EMBRYO"} => kpc[q] = "user"
          /\ state[q] = "ZOMBIE" => kpc[q] = "exiting"
          /\ state[q] = "SLEEPING" => kpc[q] \notin Forking
          /\ kpc[q] \in Forking => child[q] \in Proc /\ state[child[q]] = "EMBRYO"
      BY DEF Inv, ForkOK
    <3>2. CASE q = p
      BY <1>1, <1>2, <3>2
    <3>3. CASE q = np /\ q # p
      BY <1>1, <1>2, <3>3
    <3>4. CASE q \notin {p, np}
      BY <1>1, <1>3, <3>1, <3>4
    <3> QED BY <3>2, <3>3, <3>4
  <2>2. ASSUME NEW q \in Proc, NEW r \in Proc, kpc'[q] \in Forking,
               kpc'[r] \in Forking, child'[q] = child'[r]
        PROVE  q = r
    BY <1>1, <1>2, <2>2 DEF Inv, ForkOK
  <2> QED BY <2>1, <2>2 DEF ForkOK
<1>5. /\ child' \in [Proc -> Proc \cup {NoProc}]
      /\ kpc' \in [Proc -> KernelPoint]
      /\ state' \in [Proc -> State]
  BY DEF Inv, TypeOK, KernelPoint, State
<1> QED
  BY <1>4, <1>5

(* The error paths of fork() give the embryo back to the free list.        *)
LEMMA ReturnEmbryoInv ==
  ASSUME Inv, NEW c \in CPU, ForkNoStack(c) \/ ForkNoMemory(c)
  PROVE  Inv'
<1> DEFINE p == cur[c]
           np == child[p]
<1>1. p # NoProc /\ kpc[p] \in Forking /\ lock = NoCPU
  BY DEF ForkNoStack, ForkNoMemory, At, Forking, ReturnEmbryo
<1>2. /\ np \in Proc /\ state[np] = "EMBRYO" /\ np \in Range(embryo)
      /\ p \in Proc /\ state[p] = "RUNNING"
  BY <1>1, ChildIsEmbryo
<1>3. /\ embryo' = stateListRemove(embryo, np)
      /\ state' = [state EXCEPT ![np] = "UNUSED"]
      /\ free' = stateListAdd(free, np)
      /\ child' = [child EXCEPT ![p] = NoProc]
      /\ kpc' = [kpc EXCEPT ![p] = "user"]
      /\ UNCHANGED <<ready, running, sleep, zombie, parent, killed, chan, ticks>>
      /\ UNCHANGED <<priority, budget, cpu_ticks_in, PromoteAtTime>>
      /\ UNCHANGED <<lock, crit, wch, cur, irq, nap, panicked>>
  BY <1>2 DEF ForkNoStack, ForkNoMemory, ReturnEmbryo, mlfq
<1>4. embryo' \in Seq(Proc) /\ IsListOf(embryo', state', "EMBRYO")
  <2>1. "UNUSED" # "EMBRYO"
    OBVIOUS
  <2> QED BY <1>2, <1>3, <2>1, ListFacts, ListRemove, Zenon
<1>5. free' \in Seq(Proc) /\ IsListOf(free', state', "UNUSED")
  BY <1>2, <1>3, ListFacts, ListAdd
<1>6. /\ IsListOf(running', state', "RUNNING")
      /\ IsListOf(sleep', state', "SLEEPING")
      /\ IsListOf(zombie', state', "ZOMBIE")
  BY <1>2, <1>3, ListFacts, ListKept
<1>7. AreReadyLists(ready', state')
  BY <1>2, <1>3, ListFacts, ReadyKept
<1>8. ListsMatchState'
  BY <1>4, <1>5, <1>6, <1>7 DEF ListsMatchState
<1>9. /\ ForkOK'
      /\ child' \in [Proc -> Proc \cup {NoProc}]
      /\ kpc' \in [Proc -> KernelPoint]
      /\ state' \in [Proc -> State]
  BY <1>1, <1>2, <1>3, ForkDone
<1>10. TypeOK'
  <2>1. {free, embryo, running, sleep, zombie}' \subseteq Seq(Proc)
    BY <1>3, <1>4, <1>5, ListFacts
  <2>2. /\ ready' \in [Prio -> Seq(Proc)]
        /\ parent' \in [Proc -> Proc \cup {NoProc}]
        /\ killed' \in [Proc -> BOOLEAN]
        /\ chan' \in [Proc -> Chan] /\ priority' \in [Proc -> Prio]
        /\ budget' \in [Proc -> Int]
        /\ cpu_ticks_in' \in [Proc -> Tick]
        /\ PromoteAtTime' \in Tick /\ ticks' \in Tick
    BY <1>3 DEF Inv, TypeOK
  <2>3. /\ lock' \in CPU \cup {NoCPU} /\ crit' \in Critical /\ wch' \in Chan
        /\ cur' \in [CPU -> Proc \cup {NoProc}]
        /\ irq' \in {"none", "wake", "yield"}
        /\ nap' \in [Proc -> [t0 : Tick, n : Nat]] /\ panicked' \in Message
    BY <1>3 DEF Inv, TypeOK
  <2> QED BY <1>9, <2>1, <2>2, <2>3 DEF TypeOK
<1>11. RunningOnOneCpu'
  <2>1. /\ "UNUSED" \in State \ {"RUNNING"} /\ state[np] # "RUNNING"
        /\ state' = [state EXCEPT ![np] = "UNUSED"] /\ cur' = cur
    BY <1>2, <1>3 DEF State
  <2> QED BY <1>2, <2>1, OneCpuKept, Zenon
<1>12. ReadyMatchesPriority'
  BY <1>2, <1>3, ReadyPrioKept
<1>13. HolderOK' /\ NoListPanic'
  BY <1>1, <1>3 DEF Inv, HolderOK, NoListPanic
<1> QED
  BY <1>8, <1>9, <1>10, <1>11, <1>12, <1>13 DEF Inv

(* fork() puts the child on the ready list of its parent's priority.       *)
LEMMA ForkPublishInv ==
  ASSUME Inv, NEW c \in CPU, ForkPublish(c)
  PROVE  Inv'
<1> DEFINE p == cur[c]
           np == child[p]
<1>1. p # NoProc /\ kpc[p] \in Forking /\ lock = NoCPU
  BY DEF ForkPublish, At, Forking
<1>2. /\ np \in Proc /\ state[np] = "EMBRYO" /\ np \in Range(embryo)
      /\ p \in Proc /\ state[p] = "RUNNING"
  BY <1>1, ChildIsEmbryo
<1>3. /\ embryo' = stateListRemove(embryo, np)
      /\ state' = [state EXCEPT ![np] = "RUNNABLE"]
      /\ priority' = [priority EXCEPT ![np] = priority[p]]
      /\ ready' = [ready EXCEPT ![priority[p]] = stateListAdd(@, np)]
      /\ child' = [child EXCEPT ![p] = NoProc]
      /\ kpc' = [kpc EXCEPT ![p] = "user"]
      /\ UNCHANGED <<free, running, sleep, zombie, parent, killed, chan>>
      /\ UNCHANGED <<budget, cpu_ticks_in, PromoteAtTime, ticks, lock>>
      /\ UNCHANGED <<crit, wch, cur, irq, nap, panicked>>
  BY <1>2 DEF ForkPublish
<1>4. embryo' \in Seq(Proc) /\ IsListOf(embryo', state', "EMBRYO")
  <2>1. "RUNNABLE" # "EMBRYO"
    OBVIOUS
  <2> QED BY <1>2, <1>3, <2>1, ListFacts, ListRemove, Zenon
<1>5. /\ IsListOf(free', state', "UNUSED")
      /\ IsListOf(running', state', "RUNNING")
      /\ IsListOf(sleep', state', "SLEEPING")
      /\ IsListOf(zombie', state', "ZOMBIE")
  BY <1>2, <1>3, ListFacts, ListKept
<1>6. /\ priority[p] \in Prio /\ priority' \in [Proc -> Prio]
      /\ priority'[np] = priority[p]
      /\ \A q \in Proc \ {np} : priority'[q] = priority[q] /\ (killed[q] => killed'[q])
  BY <1>2, <1>3 DEF Inv, TypeOK
<1>7. /\ ready' \in [Prio -> Seq(Proc)]
      /\ AreReadyLists(ready', state')
      /\ ReadyMatchesPriority'
  BY <1>2, <1>3, <1>6, BecomesReady
<1>8. ListsMatchState'
  BY <1>4, <1>5, <1>7 DEF ListsMatchState
<1>9. /\ ForkOK'
      /\ child' \in [Proc -> Proc \cup {NoProc}]
      /\ kpc' \in [Proc -> KernelPoint]
      /\ state' \in [Proc -> State]
  BY <1>1, <1>2, <1>3, ForkDone
<1>10. TypeOK'
  <2>1. {free, embryo, running, sleep, zombie}' \subseteq Seq(Proc)
    BY <1>3, <1>4, ListFacts
  <2>2. /\ parent' \in [Proc -> Proc \cup {NoProc}]
        /\ killed' \in [Proc -> BOOLEAN]
        /\ chan' \in [Proc -> Chan]
        /\ budget' \in [Proc -> Int]
        /\ cpu_ticks_in' \in [Proc -> Tick]
        /\ PromoteAtTime' \in Tick /\ ticks' \in Tick
    BY <1>3 DEF Inv, TypeOK
  <2>3. /\ lock' \in CPU \cup {NoCPU} /\ crit' \in Critical /\ wch' \in Chan
        /\ cur' \in [CPU -> Proc \cup {NoProc}]
        /\ irq' \in {"none", "wake", "yield"}
        /\ nap' \in [Proc -> [t0 : Tick, n : Nat]] /\ panicked' \in Message
    BY <1>3 DEF Inv, TypeOK
  <2> QED BY <1>6, <1>7, <1>9, <2>1, <2>2, <2>3 DEF TypeOK
<1>11. RunningOnOneCpu'
  <2>1. /\ "RUNNABLE" \in State \ {"RUNNING"} /\ state[np] # "RUNNING"
        /\ state' = [state EXCEPT ![np] = "RUNNABLE"] /\ cur' = cur
    BY <1>2, <1>3 DEF State
  <2> QED BY <1>2, <2>1, OneCpuKept, Zenon
<1>12. HolderOK' /\ NoListPanic'
  BY <1>1, <1>3 DEF Inv, HolderOK, NoListPanic
<1> QED
  BY <1>7, <1>8, <1>9, <1>10, <1>11, <1>12 DEF Inv

LEMMA CpuStepInv ==
  ASSUME SetPriorityHarmless, Inv, NEW c \in CPU, CpuStep(c)
  PROVE  Inv'
<1>1. CASE SchedulerEnter(c) \/ SchedulerPick(c) \/ Resume(c) \/ Yield(c)
  BY <1>1, SchedulerEnterInv, SchedulerPickInv, ResumeInv, YieldInv
<1>2. CASE SchedulerIdle(c) \/ WakeupEnd(c) \/ IoWakeup(c) \/ ExitLock(c) \/ WaitLock(c)
  BY <1>2, LockStepsInv
<1>3. CASE WakeupOne(c)
  BY <1>3, WakeupOneInv
<1>4. CASE ForkAlloc(c) \/ ForkStack(c) \/ ForkNoStack(c) \/ ForkNoMemory(c)
             \/ ForkCopy(c) \/ ForkPublish(c)
  BY <1>4, ForkAllocInv, ForkMiddleInv, ReturnEmbryoInv, ForkPublishInv
<1>5. CASE SysExit(c) \/ KilledExit(c)
  BY <1>5, ExitEnterInv
<1>6. CASE UserFault(c) \/ ExitReparent(c) \/ ExitZombie(c)
  BY <1>6, UserFaultInv, ExitReparentInv, ExitZombieInv
<1>7. CASE WaitReap(c) \/ WaitReturn(c)
  BY <1>7, WaitReapInv, WaitReturnInv
<1>8. CASE WaitSleep(c) \/ SleepTicks(c) \/ IoSleep(c)
  BY <1>8, SleepStepsInv
<1>9. CASE SysWait(c) \/ SysSleep(c) \/ SleepCheck(c) \/ IoEnter(c) \/ IoReturn(c)
  BY <1>9, LocalStepsInv
<1>10. CASE \E t \in Proc : Kill(c, t)
  BY <1>10, KillInv
<1>11. CASE \E t \in Proc, prio \in Prio : SetPriority(c, t, prio)
  BY <1>11, SetPriorityInv
<1> QED
  BY <1>1, <1>2, <1>3, <1>4, <1>5, <1>6, <1>7, <1>8, <1>9, <1>10, <1>11 DEF CpuStep

LEMMA NextInv ==
  ASSUME SetPriorityHarmless, Inv, [Next]_vars
  PROVE  Inv'
<1>1. CASE TimerTick \/ TimerWakeup
  <2>1. BootCPU \in CPU
    BY ConstantsAssumption DEF BootCPU, CPU
  <2> QED BY <1>1, <2>1, LockStepsInv
<1>2. CASE \E c \in CPU : CpuStep(c)
  BY <1>2, CpuStepInv
<1>3. CASE UNCHANGED vars
  <2>1. /\ UNCHANGED <<lists, state, parent, killed, chan, mlfq, ticks, lock, crit>>
        /\ UNCHANGED <<wch, cur, irq, locals, panicked>>
    BY <1>3 DEF vars
  <2>2. TypeOK'
    BY <2>1 DEF Inv, TypeOK, lists, mlfq, locals
  <2>3. HolderOK'
    BY <2>1 DEF Inv, HolderOK, locals
  <2> QED BY <2>1, <2>2, <2>3, FrameInv DEF mlfq, locals
<1> QED
  BY <1>1, <1>2, <1>3 DEF Next, Frozen

(* The invariant is inductive: for every number of processes, CPUs and     *)
(* priorities it holds in every state of the kernel, provided no process   *)
(* calls setpriority() or there is only one priority (the shipped MAXPRIO).*)
THEOREM Correct ==
  ASSUME SetPriorityHarmless
  PROVE  Spec => []Inv
<1>1. Init => Inv
  BY InitInv
<1>2. Inv /\ [Next]_vars => Inv'
  BY NextInv
<1> QED
  BY <1>1, <1>2, PTL DEF Spec

(* Every variable keeps its type.                                          *)
THEOREM TypeCorrect ==
  ASSUME SetPriorityHarmless
  PROVE  Spec => []TypeOK
<1>1. Inv => TypeOK
  BY DEF Inv
<1> QED
  BY <1>1, Correct, PTL

(* The state lists partition the process table by state: every slot is on  *)
(* exactly the list of its state, once, whatever fork(), exit(), wait(),   *)
(* kill(), wakeup() and the scheduler of every CPU do.  No process runs on *)
(* two CPUs, a RUNNING one is on one, and none of the panics on the lists' *)
(* consistency is ever reached.                                            *)
THEOREM ListsAlwaysSound ==
  ASSUME SetPriorityHarmless
  PROVE  Spec => []ListsSound
<1>1. Inv => ListsSound
  BY DEF Inv, ListsSound
<1> QED
  BY <1>1, Correct, PTL

(* A ready process waits in the queue of its priority, or was killed in    *)
(* its sleep and waits in the first one.                                   *)
THEOREM ReadyQueueAlwaysRight ==
  ASSUME SetPriorityHarmless
  PROVE  Spec => []ReadyMatchesPriority
<1>1. Inv => ReadyMatchesPriority
  BY DEF Inv
<1> QED
  BY <1>1, Correct, PTL

=============================================================================

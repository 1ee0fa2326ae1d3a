--------------------------------- MODULE Rtc ---------------------------------
(***************************************************************************)
(* The date (lapic.c, sys_date of sysproc.c).  Once a second the clock     *)
(* changes its registers one at a time, while cmostime reads them one at a *)
(* time.  A turn of cmostime's loop takes far less than a second, so at    *)
(* most one update begins in it.  One call runs at a time.                 *)
(***************************************************************************)
EXTENDS Naturals, Sequences

CONSTANT Times   \* the successive dates the clock shows, the year last

VARIABLES
  now,     \* the date the clock shows, or is changing its registers to
  regs,    \* its registers
  left,    \* the registers an update has still to change
  uip,     \* whether an update is in progress
  bcd,     \* whether the registers are in BCD
  query    \* what a processor's call of cmostime has done

clockVars == <<now, regs, left, uip, bcd>>

Reg == DOMAIN Times[1]
STATA == 10
STATB == 11
Unread == [i \in Reg |-> 0]

(* The reads of a call, in order: register B, then in each turn the date,  *)
(* register A, and the date again.                                         *)
Script == <<STATB>> \o [i \in Reg |-> i] \o <<STATA>> \o [i \in Reg |-> i]
Compare == Len(Script) + 1

(* at: the read to make, 0 outside of a call; began: whether an update     *)
(* began in this turn.  first is history: the date when the call began.    *)
Idle == [at |-> 0, bcd |-> FALSE, t1 |-> Unread, t2 |-> Unread,
         began |-> FALSE, first |-> 1, r |-> <<>>]

(* The clock: a date is kept in BCD or in binary.                           *)
Encoded(x) == IF bcd THEN (x \div 10) * 16 + (x % 10) ELSE x

Content(p) == CASE p = STATA -> IF uip THEN 128 ELSE 0
                [] p = STATB -> IF bcd THEN 2 ELSE 6
                [] OTHER -> regs[p]

UpdateBegins ==
  /\ ~uip /\ ~query.began
  /\ now < Len(Times)
  /\ now' = now + 1
  /\ uip' = TRUE
  /\ left' = Reg
  /\ query' = [query EXCEPT !.began = query.at # 0]
  /\ UNCHANGED <<regs, bcd>>

UpdateReg(i) ==
  /\ i \in left
  /\ regs' = [regs EXCEPT ![i] = Encoded(Times[now][i])]
  /\ left' = left \ {i}
  /\ UNCHANGED <<now, uip, bcd, query>>

UpdateEnds ==
  /\ uip /\ left = {}
  /\ uip' = FALSE
  /\ UNCHANGED <<now, regs, left, bcd, query>>

---------------------------------------------------------------------------
sys_date ==
  /\ query.at = 0
  /\ query' = [Idle EXCEPT !.at = 1, !.first = IF uip THEN now - 1 ELSE now]
  /\ UNCHANGED clockVars

Again(k) == [k EXCEPT !.at = 2, !.began = FALSE]

(* Faulty variant: register A is read and CMOS_UIP not looked at.           *)
NoUip(k, v) ==
  LET n == [k EXCEPT !.at = @ + 1]
  IN CASE k.at = 1 -> [n EXCEPT !.bcd = (v \div 4) % 2 = 0]
       [] k.at - 1 \in Reg -> [n EXCEPT !.t1[k.at - 1] = v]
       [] Script[k.at] = STATA -> n
       [] OTHER -> [n EXCEPT !.t2[Script[k.at]] = v]

(* What the caller does with the value v that inb returns.                  *)
Use(k, v) ==
  LET n == [k EXCEPT !.at = @ + 1]
  IN CASE k.at = 1 -> [n EXCEPT !.bcd = (v \div 4) % 2 = 0]
       [] k.at - 1 \in Reg -> [n EXCEPT !.t1[k.at - 1] = v]
       [] Script[k.at] = STATA -> IF v >= 128 THEN Again(k) ELSE n
       [] OTHER -> [n EXCEPT !.t2[Script[k.at]] = v]

cmos_read ==
  /\ query.at \in DOMAIN Script
  /\ query' = Use(query, Content(Script[query.at]))
  /\ UNCHANGED clockVars

CONV(x) == (x \div 16) * 10 + (x % 16)

(* The comparison, and the date when both reads agree.                      *)
cmostime ==
  LET t == IF query.bcd THEN [i \in Reg |-> CONV(query.t1[i])] ELSE query.t1
  IN /\ query.at = Compare
     /\ query' = IF query.t1 # query.t2 THEN Again(query)
                ELSE [Idle EXCEPT !.first = query.first,
                                  !.r = [t EXCEPT ![Len(t)] = @ + 2000]]
     /\ UNCHANGED clockVars

RtcInit ==
  /\ bcd \in BOOLEAN
  /\ now = 1 /\ regs = [i \in Reg |-> Encoded(Times[1][i])]
  /\ left = {} /\ uip = FALSE
  /\ query = Idle

RtcNext ==
  \/ UpdateBegins \/ (\E i \in Reg : UpdateReg(i)) \/ UpdateEnds
  \/ sys_date \/ cmos_read \/ cmostime

---------------------------------------------------------------------------
(* A date that cmostime returns is one the clock showed during the call,   *)
(* never a mixture of two, however an update falls among the reads         *)
(* (lapic.c:216-223): the UIP bit alone misses an update that begins and   *)
(* ends between two reads, the second read alone one that is half done     *)
(* throughout.                                                             *)
TrueDate ==
  query.r # <<>> =>
    \E i \in query.first .. now :
      query.r = [Times[i] EXCEPT ![Len(Times[i])] = @ + 2000]
==============================================================================

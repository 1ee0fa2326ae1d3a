------------------------------- MODULE MCWaits -------------------------------
(***************************************************************************)
(* The log and the buffer cache, and who waits in them, each on an         *)
(* instance of its own.  They share no state here: a behaviour picks one   *)
(* part and runs it while the other stays as it started, so the states are *)
(* those of the two parts side by side.  The fairness is each part's own,  *)
(* and every condition asks for the part that runs.                        *)
(***************************************************************************)
EXTENDS Log

VARIABLES part, lru, blockno, busy, valid, bdirty, data, idequeue, bdisk, bpc, want,
          mine, bpanicked

Cache == INSTANCE BufCache WITH
  Block <- {"x", "y"}, Value <- {"v"}, NBUF <- 3, MaxPinned <- 0, DiskErrors <- TRUE,
  dirty <- bdirty, disk <- bdisk, pc <- bpc, panicked <- bpanicked

bufVars == <<lru, blockno, busy, valid, bdirty, data, idequeue, bdisk, bpc, want, mine,
             bpanicked>>
bothVars == <<part, vars, bufVars>>

OnlyLog == part = "log" /\ UNCHANGED <<part, bufVars>>
OnlyCache == part = "cache" /\ UNCHANGED <<part, vars>>

BothInit == part \in {"log", "cache"} /\ Init /\ Cache!Init

BothNext ==
  \/ OnlyLog /\ Next
  \/ OnlyCache /\ Cache!Next

(* Processes are scheduled while they are in a call; the machine that has  *)
(* crashed is restarted, the disk answers; a file system call comes to its *)
(* end_op() and a buffer to its brelse().                                  *)
BothFairSpec ==
  /\ BothInit
  /\ [][BothNext]_bothVars
  /\ \A p \in Proc :
       /\ WF_bothVars(\/ OnlyLog /\ pc[p] # "idle" /\ ProcStep(p)
                      \/ OnlyCache /\ bpanicked = "none" /\ Cache!ProcStep(p))
       /\ SF_bothVars(\/ OnlyLog /\ EndOp(p)
                      \/ OnlyCache /\ bpanicked = "none" /\ Cache!Brelse(p))
  /\ WF_bothVars(\/ OnlyLog /\ Recover
                 \/ OnlyCache /\ bpanicked = "none" /\ Cache!IdeIntr)

(* Every sleep of bget() and of iderw() ends (bio.c:78, ide.c:159): the    *)
(* wakeups of brelse() and of ideintr() reach whoever waits.               *)
SleepEnds == Cache!SleepEnds
==============================================================================

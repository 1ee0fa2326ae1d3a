------------------------------- MODULE Console -------------------------------
(***************************************************************************)
(* The console (console.c): the keyboard and serial interrupts edit a line *)
(* in a ring indexed by three wrapping counters, and processes read what   *)
(* has been ended, or write to the screen.  The interrupt handler is an    *)
(* actor of its own: the lock keeps interrupts off only on the CPU that    *)
(* holds it.  Characters are those the code tells apart; wording, colours  *)
(* and what is on the screen are left out, the cursor is kept.             *)
(***************************************************************************)
EXTENDS Integers, Sequences

CONSTANTS
  Proc,        \* the processes that read and write
  INPUT_BUF,   \* the size of the ring
  WRAP,        \* where its counters wrap (2^32)
  ROWS, COLS,  \* the screen (25, 80)
  Counts       \* the byte counts of the read calls

VARIABLES
  buf, r, w, e,   \* struct input
  lock,           \* who holds cons.lock: a process, Intr or None
  rd,             \* each process's call: where it is, and its n and target
  killed,         \* the processes that have been killed
  ready,          \* the device holds a character that was not read yet
  intr,           \* the interrupt handler: where it is, and its doprocdump
  pos,            \* the cursor
  panicked        \* what the kernel panicked with, "no" if it has not

conVars == <<buf, r, w, e, lock, rd, killed, ready, intr, pos, panicked>>

None == "none"
Intr == "intr"
(* ^P stands for every key that asks for a dump.                           *)
Key == {"a", "nl", "cr", "NO", "^D", "^H", "^U", "^P"}
Idle == [pc |-> "user", n |-> 0, target |-> 0]

Plus(x, k) == (x + k) % WRAP
Minus(x, y) == (x - y + WRAP) % WRAP

---------------------------------------------------------------------------
(* The cursor after the character c, counted as the code counts it.        *)
Cursor(p, c) ==
  CASE c = "nl" -> p + (COLS - (p % COLS))
    [] c = "BACKSPACE" -> IF p > 0 THEN p - 1 ELSE p
    [] OTHER -> p + 1

cgaputc(p, c) ==
  LET q == Cursor(p, c) IN IF q \div COLS >= ROWS - 1 THEN q - COLS ELSE q

(* consputc of each character of cs: the cursor, and the panic it may meet. *)
RECURSIVE After(_, _)
After(p, cs) == IF cs = <<>> THEN p ELSE After(cgaputc(p, Head(cs)), Tail(cs))

consputc(cs) ==
  /\ pos' = After(pos, cs)
  /\ panicked' = IF \E i \in 1 .. Len(cs) :
                      Cursor(After(pos, SubSeq(cs, 1, i - 1)), cs[i]) \notin 0 .. ROWS * COLS
                 THEN "pos under/overflow" ELSE panicked

---------------------------------------------------------------------------
(* The interrupt: consoleintr.                                             *)

Type ==
  /\ panicked = "no"
  /\ ~ready
  /\ ready' = TRUE
  /\ UNCHANGED <<buf, r, w, e, lock, rd, killed, intr, pos, panicked>>

IntrAt(pc) == panicked = "no" /\ intr.pc = pc

IntrAcquire ==
  /\ IntrAt("idle")
  /\ ready
  /\ lock = None
  /\ lock' = Intr
  /\ intr' = [intr EXCEPT !.pc = "loop"]
  /\ UNCHANGED <<buf, r, w, e, rd, killed, ready, pos, panicked>>

(* Faulty variant: a line is ended without wakeup.                         *)
NobodyWoken == rd

(* wakeup(&input.r)                                                        *)
Woken == [p \in Proc |-> IF rd[p].pc = "sleep" THEN [rd[p] EXCEPT !.pc = "acquire"] ELSE rd[p]]

(* Faulty variant: only a key ends a line.                                 *)
EndsByKey(c) == c \in {"nl", "^D"}

Ends(c) == c \in {"nl", "^D"} \/ Plus(e, 1) = Plus(r, INPUT_BUF)

Insert(c) ==
  /\ buf' = [buf EXCEPT ![e % INPUT_BUF] = c]
  /\ e' = Plus(e, 1)
  /\ w' = IF Ends(c) THEN Plus(e, 1) ELSE w
  /\ rd' = IF Ends(c) THEN Woken ELSE rd
  /\ consputc(<<c>>)
  /\ UNCHANGED intr

(* Faulty variant: ^U goes back as far as what was read.                   *)
KillToRead == Minus(e, r)

(* How many characters ^U removes: back to the ended line or to a newline. *)
KillCount ==
  LET stop == {k \in 0 .. Minus(e, w) :
                 k = Minus(e, w) \/ buf[Minus(e, k + 1) % INPUT_BUF] = "nl"}
  IN CHOOSE k \in stop : \A j \in stop : k <= j

Erase(k) ==
  /\ e' = Minus(e, k)
  /\ consputc([i \in 1 .. k |-> "BACKSPACE"])
  /\ UNCHANGED <<buf, w, rd, intr>>

Ignore == UNCHANGED <<buf, w, e, rd, intr, pos, panicked>>

consoleintr ==
  /\ IntrAt("loop")
  /\ ready
  /\ \E c \in Key :
       CASE c = "^P" -> intr' = [intr EXCEPT !.dump = TRUE]
                          /\ UNCHANGED <<buf, w, e, rd, pos, panicked>>
         [] c = "^U" -> Erase(KillCount)
         [] c = "^H" -> IF e # w THEN Erase(1) ELSE Ignore
         [] OTHER -> IF c # "NO" /\ Minus(e, r) < INPUT_BUF
                     THEN Insert(IF c = "cr" THEN "nl" ELSE c)
                     ELSE Ignore
  /\ ready' = FALSE
  /\ UNCHANGED <<r, lock, killed>>

(* Faulty variant: the dump comes before the release.                      *)
IntrDumpsLocked ==
  /\ IntrAt("loop")
  /\ ~ready
  /\ lock' = IF intr.dump THEN Intr ELSE None
  /\ intr' = [pc |-> IF intr.dump THEN "dump" ELSE "idle", dump |-> FALSE]
  /\ UNCHANGED <<buf, r, w, e, rd, killed, ready, pos, panicked>>

(* No more characters: release, and then dump what was asked for.          *)
IntrRelease ==
  /\ IntrAt("loop")
  /\ ~ready
  /\ lock' = None
  /\ intr' = [pc |-> IF intr.dump THEN "dump" ELSE "idle", dump |-> FALSE]
  /\ UNCHANGED <<buf, r, w, e, rd, killed, ready, pos, panicked>>

(* procdump prints with cprintf, which takes the lock; taking it twice      *)
(* panics.                                                                  *)
procdump ==
  /\ IntrAt("dump")
  /\ lock \in {None, Intr}
  /\ intr' = [intr EXCEPT !.pc = "idle"]
  /\ IF lock = Intr
     THEN panicked' = "acquire" /\ UNCHANGED pos
     ELSE consputc(<<"a", "nl">>)
  /\ UNCHANGED <<buf, r, w, e, lock, rd, killed, ready>>

---------------------------------------------------------------------------
(* A process in consoleread or consolewrite.                               *)

At(p, pc) == panicked = "no" /\ rd[p].pc = pc

Read(p, n) ==
  /\ At(p, "user") /\ p \notin killed
  /\ rd' = [rd EXCEPT ![p] = [pc |-> "acquire", n |-> n, target |-> n]]
  /\ UNCHANGED <<buf, r, w, e, lock, killed, ready, intr, pos, panicked>>

ReadAcquire(p) ==
  /\ At(p, "acquire")
  /\ lock = None
  /\ lock' = p
  /\ rd' = [rd EXCEPT ![p].pc = "loop"]
  /\ UNCHANGED <<buf, r, w, e, killed, ready, intr, pos, panicked>>

Leave(p) ==
  /\ lock' = None
  /\ rd' = [rd EXCEPT ![p] = Idle]

(* One turn of the outer loop of consoleread.                               *)
consoleread(p) ==
  LET c == buf[r % INPUT_BUF]
  IN /\ At(p, "loop")
     /\ rd[p].n > 0 /\ r # w
     /\ IF c = "^D"
        THEN Leave(p) /\ r' = IF rd[p].n < rd[p].target THEN r ELSE Plus(r, 1)
        ELSE /\ r' = Plus(r, 1)
             /\ rd' = [rd EXCEPT ![p].n = @ - 1, ![p].pc = IF c = "nl" THEN "end" ELSE @]
             /\ UNCHANGED lock
     /\ UNCHANGED <<buf, w, e, killed, ready, intr, pos, panicked>>

ReadEnd(p) ==
  /\ \/ At(p, "end")
     \/ At(p, "loop") /\ rd[p].n = 0
  /\ Leave(p)
  /\ UNCHANGED <<buf, r, w, e, killed, ready, intr, pos, panicked>>

(* Nothing to read: give up when killed, or go to sleep.  kill may come     *)
(* between the test and the sleep; only sleep and wakeup exclude each other. *)
ReadEmpty(p) ==
  /\ At(p, "loop")
  /\ rd[p].n > 0 /\ r = w
  /\ IF p \in killed THEN Leave(p)
     ELSE rd' = [rd EXCEPT ![p].pc = "sleeping"] /\ UNCHANGED lock
  /\ UNCHANGED <<buf, r, w, e, killed, ready, intr, pos, panicked>>

ReadSleep(p) ==
  /\ At(p, "sleeping")
  /\ rd' = [rd EXCEPT ![p].pc = "sleep"]
  /\ lock' = None
  /\ UNCHANGED <<buf, r, w, e, killed, ready, intr, pos, panicked>>

Kill(p) ==
  /\ panicked = "no"
  /\ p \notin killed
  /\ killed' = killed \cup {p}
  /\ rd' = IF rd[p].pc = "sleep" THEN [rd EXCEPT ![p].pc = "acquire"] ELSE rd
  /\ UNCHANGED <<buf, r, w, e, lock, ready, intr, pos, panicked>>

(* A killed process exits when it is back in user space; another takes its  *)
(* place.                                                                   *)
Exit(p) ==
  /\ At(p, "user") /\ p \in killed
  /\ killed' = killed \ {p}
  /\ UNCHANGED <<buf, r, w, e, lock, rd, ready, intr, pos, panicked>>

(* consolewrite and cprintf: characters printed under the lock.             *)
consolewrite(p, cs) ==
  /\ At(p, "user")
  /\ lock = None
  /\ consputc(cs)
  /\ UNCHANGED <<buf, r, w, e, lock, rd, killed, ready, intr>>

ConInit ==
  /\ buf = [i \in 0 .. INPUT_BUF - 1 |-> "NO"]
  /\ r = 0 /\ w = 0 /\ e = 0
  /\ lock = None
  /\ rd = [p \in Proc |-> Idle]
  /\ killed = {}
  /\ ready = FALSE
  /\ intr = [pc |-> "idle", dump |-> FALSE]
  /\ pos = 0
  /\ panicked = "no"

ConNext ==
  \/ Type
  \/ IntrAcquire \/ consoleintr \/ IntrRelease \/ procdump
  \/ \E p \in Proc : \E n \in Counts : Read(p, n)
  \/ \E p \in Proc : ReadAcquire(p)
  \/ \E p \in Proc : consoleread(p)
  \/ \E p \in Proc : ReadEnd(p)
  \/ \E p \in Proc : ReadEmpty(p)
  \/ \E p \in Proc : ReadSleep(p)
  \/ \E p \in Proc : Kill(p)
  \/ \E p \in Proc : Exit(p)
  \/ \E p \in Proc : \E cs \in {<<"a">>, <<"nl">>} : consolewrite(p, cs)

ConSpec == ConInit /\ [][ConNext]_conVars

---------------------------------------------------------------------------
(* Properties.                                                              *)

(* The characters of the ring from counter i up to counter j.               *)
Ring(i, j) == [k \in 1 .. Minus(j, i) |-> buf[(i + k - 1) % INPUT_BUF]]

(* The console is a LineInput: the ended line lies between r and w, what is *)
(* being edited between w and e (console.c:182-188).                        *)
Lines == INSTANCE LineInput WITH
           Char <- Key, Newline <- "nl", EOF <- "^D", Capacity <- INPUT_BUF,
           line <- Ring(r, w), pend <- Ring(w, e),
           got <- [p \in Proc |-> rd[p].target - rd[p].n]

(* The console edits, ends and delivers lines as LineInput does: no         *)
(* character is lost, repeated, reordered or overwritten when the counters  *)
(* wrap or the ring is full, and a read that returned characters leaves the *)
(* ^D for the next one (console.c:238-245, 294-302).                        *)
Edits == Lines!Spec

(* A full ring has been ended (console.c:242): the readers can empty it,    *)
(* though no newline was typed and no key would be accepted any more.       *)
FullIsEnded == Minus(e, r) = INPUT_BUF => w = e

(* A process sleeps in consoleread only while there is nothing to read:     *)
(* the wakeup of a line ended between its test and its sleep is not lost    *)
(* (console.c:286-292).                                                     *)
SleepersEmpty == \A p \in Proc : rd[p].pc = "sleep" => r = w

(* Neither the cursor nor a dump asked for by a key brings the kernel down  *)
(* (console.c:150, 204), whatever is echoed, erased and scrolled.           *)
NoConsolePanic == panicked = "no"

(* Input can always be read: a full ring has been ended, nobody sleeps    *)
(* beside a line, and neither echo nor a dump brings the kernel down      *)
(* (console.c:190-312).                                                   *)
InputReadable == FullIsEnded /\ SleepersEmpty /\ NoConsolePanic
=============================================================================

------------------------------ MODULE Keyboard ------------------------------
(***************************************************************************)
(* The keyboard (kbd.c): keys go down and up in any order and send one or  *)
(* two scan codes, which kbdgetc decodes with the modifiers it remembers.  *)
(* Codes are the ones of kbd.h, for the keys the tables tell apart.        *)
(***************************************************************************)
EXTENDS Naturals, Sequences

CONSTANT MaxCodes   \* bound: scan codes the controller holds

VARIABLES
  down,     \* the keys held down
  codes,    \* scan codes sent and not yet read
  shift,    \* kbdgetc's static flags
  char      \* what kbdgetc returned last

kbdVars == <<down, codes, shift, char>>

(* A key is its code and whether E0 comes before it.                        *)
Code(x) == [code |-> x, e0 |-> FALSE]
E0Code(x) == [code |-> x, e0 |-> TRUE]
Key == {Code(29), E0Code(29),     \* the two control keys
        Code(42), Code(54),       \* the two shift keys
        Code(58),                 \* caps lock
        Code(32), E0Code(72)}     \* D, Up

shiftcode(d) ==
  CASE d \in {29, 157} -> {"CTL"} [] d \in {42, 54} -> {"SHIFT"}
    [] d \in {56, 184} -> {"ALT"} [] OTHER -> {}

togglecode(d) ==
  CASE d = 58 -> {"CAPSLOCK"} [] d = 69 -> {"NUMLOCK"} [] d = 70 -> {"SCROLLLOCK"}
    [] OTHER -> {}

(* charcode[shift & (CTL | SHIFT)][d]; 0 is NO.                             *)
charcode(flags, d) ==
  CASE d = 32 -> IF "CTL" \in flags THEN "^D" ELSE IF "SHIFT" \in flags THEN "D" ELSE "d"
    [] d = 200 -> "KEY_UP"
    [] OTHER -> "NO"

Capitals(c) == CASE c = "d" -> "D" [] c = "D" -> "d" [] OTHER -> c

Send(k, up) ==
  LET c == IF up THEN k.code + 128 ELSE k.code
  IN codes' = codes \o (IF k.e0 THEN <<224, c>> ELSE <<c>>)

(* A key goes down, or repeats while it is held.                            *)
Press(k) ==
  /\ Len(codes) + 2 <= MaxCodes
  /\ down' = down \cup {k}
  /\ Send(k, FALSE)
  /\ UNCHANGED <<shift, char>>

Release(k) ==
  /\ Len(codes) + 2 <= MaxCodes
  /\ k \in down
  /\ down' = down \ {k}
  /\ Send(k, TRUE)
  /\ UNCHANGED <<shift, char>>

(* Faulty variant: the release of a key leaves E0ESC set.                   *)
ReleasedE0(flags, d) == flags \ shiftcode(d)

Released(flags, d) == flags \ (shiftcode(d) \cup {"E0ESC"})

kbdgetc ==
  LET data == Head(codes)
      esc == "E0ESC" \in shift
      made == IF esc THEN data + 128 ELSE data
      broken == IF esc \/ data < 128 THEN data ELSE data - 128
      flags == ((shift \ {"E0ESC"}) \cup shiftcode(made))
      toggled == (flags \ togglecode(made)) \cup (togglecode(made) \ flags)
      c == charcode(toggled, made)
  IN /\ codes # <<>>
     /\ codes' = Tail(codes)
     /\ IF data = 224 THEN shift' = shift \cup {"E0ESC"} /\ char' = "NO"
        ELSE IF data >= 128
        THEN shift' = Released(shift, broken) /\ char' = "NO"
        ELSE /\ shift' = toggled
             /\ char' = IF "CAPSLOCK" \in toggled THEN Capitals(c) ELSE c
     /\ UNCHANGED down

KbdInit == down = {} /\ codes = <<>> /\ shift = {} /\ char = "NO"

KbdNext ==
  \/ \E k \in Key : Press(k)
  \/ \E k \in Key : Release(k)
  \/ kbdgetc

(* When every code has been read, a modifier that kbdgetc remembers has a   *)
(* key that is held down, and no E0 is left over to change the next code    *)
(* (kbd.c:20-32): no order of presses and releases, of left and right keys, *)
(* leaves the keyboard typing control characters.                           *)
NoStuckModifier ==
  codes = <<>> =>
    /\ "E0ESC" \notin shift
    /\ \A m \in shift \cap {"SHIFT", "CTL", "ALT"} :
         \E k \in down : m \in shiftcode(k.code)
=============================================================================

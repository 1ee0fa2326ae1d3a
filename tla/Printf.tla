------------------------------- MODULE Printf -------------------------------
(***************************************************************************)
(* Formatting: the kernel's cprintf and printint (console.c), the user     *)
(* library's (printf.c), and atoi and atoo (ulib.c), which read numbers    *)
(* back.  An int has W bits; a string argument is 0, for null, or the      *)
(* address of the same one-letter string.  Hexadecimal case is left out.   *)
(***************************************************************************)
EXTENDS Integers, Sequences

CONSTANTS
  W,        \* the bits of an int
  FmtLen    \* bound: length of the formats

VARIABLES
  fmt,     \* the format
  xx       \* the integer the arguments are made of

fmtVars == <<fmt, xx>>

Digits == <<"0", "1", "2", "3", "4", "5", "6", "7", "8", "9", "A", "B", "C", "D", "E", "F">>
Digit(i) == Digits[i + 1]
ValueOf(c) == (CHOOSE i \in DOMAIN Digits : Digits[i] = c) - 1

Int_ == -(2 ^ (W - 1)) .. 2 ^ (W - 1) - 1
UInt(x) == x % 2 ^ W
SInt(x) == LET u == UInt(x) IN IF u >= 2 ^ (W - 1) THEN u - 2 ^ W ELSE u

RECURSIVE Reversed(_, _)
Reversed(x, base) ==
  IF x \div base = 0 THEN <<Digit(x % base)>>
  ELSE Append(Reversed(x \div base, base), Digit(x % base))

(* printint, the kernel's and the library's.                                *)
printint(x, base, sgn) ==
  IF sgn /\ x < 0 THEN <<"-">> \o Reversed(UInt(-x), base) ELSE Reversed(UInt(x), base)

(* The number that digits of the base at the front of s spell out, after n. *)
RECURSIVE Number(_, _, _)
Number(s, n, base) ==
  IF s = <<>> \/ Head(s) \notin {Digit(d) : d \in 0 .. base - 1} THEN n
  ELSE Number(Tail(s), SInt(n * base + ValueOf(Head(s))), base)

RECURSIVE SkipBlanks(_)
SkipBlanks(s) == IF s # <<>> /\ s[1] = " " THEN SkipBlanks(Tail(s)) ELSE s

(* Faulty variant: no sign is read.                                         *)
Unsigned(s, base) == Number(SkipBlanks(s), 0, base)

Signed(s, base) ==
  LET t == SkipBlanks(s)
      sign == IF t # <<>> /\ t[1] = "-" THEN -1 ELSE 1
      rest == IF t # <<>> /\ t[1] \in {"+", "-"} THEN Tail(t) ELSE t
  IN SInt(sign * Number(rest, 0, base))

atoi(s) == Signed(s, 10)
atoo(s) == Signed(s, 8)

String(a) == IF a = 0 THEN <<"(null)">> ELSE <<"s">>


Unknown(c) == <<"%", c>>

(* printf from position i of f, in the state it is in, with the argument    *)
(* list's next element ap.                                                  *)
RECURSIVE printf(_, _, _, _, _)
printf(f, args, i, state, ap) ==
  LET c == f[i]
      then(s, st, a) == s \o printf(f, args, i + 1, st, a)
  IN IF i > Len(f) THEN <<>>
     ELSE IF state = "text"
     THEN IF c = "%" THEN then(<<>>, "%", ap) ELSE then(<<c>>, "text", ap)
     ELSE CASE c = "d" -> then(printint(args[ap], 10, TRUE), "text", ap + 1)
            [] c \in {"x", "p"} -> then(printint(args[ap], 16, FALSE), "text", ap + 1)
            [] c = "s" -> then(String(args[ap]), "text", ap + 1)
            [] c = "c" -> then(<<"c">>, "text", ap + 1)
            [] c = "%" -> then(<<"%">>, "text", ap)
            [] OTHER -> then(Unknown(c), "text", ap)

(* cprintf looks at the character after a % at once.                        *)
RECURSIVE cprintf(_, _, _, _)
cprintf(f, args, i, ap) ==
  LET c == f[i + 1]
  IN IF i > Len(f) THEN <<>>
     ELSE IF f[i] # "%" THEN <<f[i]>> \o cprintf(f, args, i + 1, ap)
     ELSE IF i = Len(f) THEN <<>>
     ELSE CASE c = "d" -> printint(args[ap], 10, TRUE) \o cprintf(f, args, i + 2, ap + 1)
            [] c \in {"x", "p"} -> printint(args[ap], 16, FALSE) \o cprintf(f, args, i + 2, ap + 1)
            [] c = "s" -> String(args[ap]) \o cprintf(f, args, i + 2, ap + 1)
            [] c = "%" -> <<"%">> \o cprintf(f, args, i + 2, ap)
            [] OTHER -> <<"%", c>> \o cprintf(f, args, i + 2, ap)

FmtInit == fmt = <<>> /\ xx \in Int_

(* A format one character longer.                                           *)
FmtNext ==
  /\ Len(fmt) < FmtLen
  /\ \E c \in {"%", "d", "x", "s", "z"} : fmt' = Append(fmt, c)
  /\ UNCHANGED xx

---------------------------------------------------------------------------
(* atoi reads back every number printint prints in decimal, and atoo every  *)
(* one in octal, the most negative included, whose negation does not fit    *)
(* (printf.c:20-32, ulib.c:90-96, 105-111).                                 *)
ReadsBackNumbers ==
  /\ atoi(<<" ">> \o printint(xx, 10, TRUE)) = xx
  /\ atoo(<<" ">> \o printint(xx, 8, TRUE)) = xx

(* The kernel and the library print the same text for a format both know,   *)
(* though one remembers that it has seen a % and the other looks ahead: a % *)
(* at the end, %% and unknown letters included (console.c:71-102,           *)
(* printf.c:48-84).                                                         *)
SameText ==
  LET args == [i \in 1 .. FmtLen |-> IF i % 2 = 1 THEN xx ELSE 0]
  IN printf(fmt, args, 1, "text", 1) = cprintf(fmt, args, 1, 1)

=============================================================================

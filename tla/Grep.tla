-------------------------------- MODULE Grep --------------------------------
(***************************************************************************)
(* grep (grep.c): the matcher, and the loop that reads a file through a    *)
(* buffer and prints the lines that match.  A read from a file returns all *)
(* there is room for.                                                      *)
(***************************************************************************)
EXTENDS Naturals, Sequences, SequencesExt

CONSTANTS
  BUFSIZE,    \* sizeof(buf)
  Patterns,   \* the patterns, and the
  Texts       \* contents of the file, it may be run with

VARIABLES re, file, off, held, out, done

grepVars == <<re, file, off, held, out, done>>

From(s, i) == SubSeq(s, i, Len(s))
Fits(c, x) == c = "." \/ c = x

RECURSIVE matchhere(_, _), matchstar(_, _, _)
matchhere(r, text) ==
  IF r = <<>> THEN TRUE
  ELSE IF Len(r) > 1 /\ r[2] = "*" THEN matchstar(r[1], From(r, 3), text)
  ELSE IF r = <<"$">> THEN text = <<>>
  ELSE text # <<>> /\ Fits(r[1], Head(text)) /\ matchhere(Tail(r), Tail(text))

matchstar(c, r, text) ==
  \/ matchhere(r, text)
  \/ text # <<>> /\ Fits(c, Head(text)) /\ matchstar(c, r, Tail(text))

(* Faulty variant: the match is not tried at the end of the text.           *)
MatchNotAtEnd(r, text) ==
  IF r # <<>> /\ r[1] = "^" THEN matchhere(Tail(r), text)
  ELSE \E i \in 1 .. Len(text) : matchhere(r, From(text, i))

match(r, text) ==
  IF r # <<>> /\ r[1] = "^" THEN matchhere(Tail(r), text)
  ELSE \E i \in 1 .. Len(text) + 1 : matchhere(r, From(text, i))

(* The lines of s that end in a newline, without it, and what follows them. *)
RECURSIVE Split(_, _)
Split(s, lines) ==
  LET nl == SelectInSeq(s, LAMBDA c : c = "nl")
  IN IF nl = 0 THEN [lines |-> lines, rest |-> s]
     ELSE Split(From(s, nl + 1), Append(lines, SubSeq(s, 1, nl - 1)))

(* One turn of the loop: a read, and every whole line in the buffer.  When  *)
(* there is none, what has been read is dropped.                            *)
grep ==
  LET room == BUFSIZE - Len(held) - 1
      n == IF room < Len(file) - off THEN room ELSE Len(file) - off
      now == Split(held \o SubSeq(file, off + 1, off + n), <<>>)
  IN /\ ~done
     /\ IF n > 0
        THEN /\ off' = off + n
             /\ out' = out \o SelectSeq(now.lines, LAMBDA l : match(re, l))
             /\ held' = IF now.lines = <<>> THEN <<>> ELSE now.rest
             /\ UNCHANGED done
        ELSE done' = TRUE /\ UNCHANGED <<off, held, out>>
     /\ UNCHANGED <<re, file>>

GrepInit ==
  /\ re \in Patterns /\ file \in Texts
  /\ off = 0 /\ held = <<>> /\ out = <<>> /\ done = FALSE

---------------------------------------------------------------------------
(* What a pattern means: the positions of text it can end at, starting from *)
(* one of S, found for all of S at once and with no backtracking.           *)
RECURSIVE Reach(_, _, _)
Reach(r, text, S) ==
  IF r = <<>> THEN S
  ELSE IF Len(r) > 1 /\ r[2] = "*"
  THEN Reach(From(r, 3), text,
             {j \in 0 .. Len(text) : \E i \in S : i <= j /\ \A k \in i + 1 .. j : Fits(r[1], text[k])})
  ELSE IF r = <<"$">> THEN S \cap {Len(text)}
  ELSE Reach(Tail(r), text, {i + 1 : i \in {i \in S : i < Len(text) /\ Fits(r[1], text[i + 1])}})

Means(r, text) ==
  IF r # <<>> /\ r[1] = "^" THEN Reach(Tail(r), text, {0}) # {}
  ELSE Reach(r, text, 0 .. Len(text)) # {}

(* grep prints the lines of the file that the pattern describes, each once  *)
(* and in order, wherever the ends of the buffer fall in them, provided     *)
(* that every line fits in the buffer (grep.c:16-35, 73-106).               *)
PrintsMatches ==
  LET all == Split(file, <<>>)
  IN /\ done
     /\ \A i \in DOMAIN all.lines : Len(all.lines[i]) + 1 < BUFSIZE
     => out = SelectSeq(all.lines, LAMBDA l : Means(re, l))
=============================================================================

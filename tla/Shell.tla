-------------------------------- MODULE Shell --------------------------------
(* The shell (sh.c) and the part of init (init.c) that keeps one running.  A  *)
(* command line is a sequence of tokens: gettoken's 'a' is "w", '+' is ">>",  *)
(* and a word, a file or a '|' is known by its position in the line.  The     *)
(* parser is a set of operators; runcmd turns a parsed command into the       *)
(* system calls its process makes, which the actions run one at a time, those *)
(* of different processes interleaved.  An executed program reads its         *)
(* standard input to the end and exits, or exits earlier.                     *)
EXTENDS Integers, Sequences, SequencesExt, FiniteSets

CONSTANTS
  Pid,         \* the process slots left to the shell and its children
  Lines,       \* the command lines that may be typed
  MaxLines,    \* bound: lines typed in a behaviour
  MAXARGS,     \* argv slots of an execcmd
  NOFILE,      \* descriptors of a process
  MayFail      \* whether open, exec and pipe may fail

VARIABLES
  proc,     \* each slot: state, parent, code still to run, descriptors, p[]
  sh,       \* the slot init last forked a shell into, 0 when it has died
  cmds,     \* the command lines run so far, as parsed
  forkfail, \* some fork has failed
  halted    \* init has exited, and the kernel panicked

vars == <<proc, sh, cmds, forkfail, halted>>

InitPid == 0   \* the parent of orphans and of the shell
Fd == 0 .. NOFILE - 1

---------------------------------------------------------------------------
(* Parsing.  A parse is the command found and the position after it; a      *)
(* panic ends the process, so it is the command of every enclosing parse.   *)

Panic == [type |-> "panic"]
execcmd(argv) == [type |-> "EXEC", argv |-> argv]
redircmd(subcmd, r) == [type |-> "REDIR", cmd |-> subcmd, file |-> r.file, fd |-> r.fd]
pipecmd(at, left, right) == [type |-> "PIPE", at |-> at, left |-> left, right |-> right]
listcmd(left, right) == [type |-> "LIST", left |-> left, right |-> right]
backcmd(subcmd) == [type |-> "BACK", cmd |-> subcmd]

Failed(r) == r.cmd.type = "panic"
Panicked(i) == [cmd |-> Panic, i |-> i]

(* What gettoken returns.                                                   *)
Token == {"w", "<", ">", ">>", "|", ";", "&", "(", ")"}

peek(l, i, toks) == i <= Len(l) /\ l[i] \in toks

(* The redirections from position i on, after those of rs.                  *)
RECURSIVE parseredirs(_, _, _)
parseredirs(l, i, rs) ==
  IF ~peek(l, i, {"<", ">", ">>"}) THEN [rs |-> rs, i |-> i, ok |-> TRUE]
  ELSE IF ~peek(l, i + 1, {"w"}) THEN [rs |-> rs, i |-> i, ok |-> FALSE]
  ELSE parseredirs(l, i + 2, Append(rs, [file |-> i + 1, fd |-> IF l[i] = "<" THEN 0 ELSE 1]))

(* cmd with the redirections rs around it, the last one outermost.          *)
Redirected(cmd, rs) == FoldLeft(redircmd, cmd, rs)

RECURSIVE parseargs(_, _, _, _)
parseargs(l, i, argv, rs) ==
  IF peek(l, i, {"|", ")", "&", ";"}) \/ i > Len(l)
  THEN [cmd |-> Redirected(execcmd(argv), rs), i |-> i]
  ELSE IF ~peek(l, i, {"w"}) \/ Len(argv) + 1 >= MAXARGS THEN Panicked(i)
  ELSE LET r == parseredirs(l, i + 1, rs)
       IN IF r.ok THEN parseargs(l, r.i, Append(argv, i), r.rs) ELSE Panicked(i)

RECURSIVE parseline(_, _), parsepipe(_, _), parseback(_, _)

(* Faulty variant: redirections after a block are not looked for.           *)
BlockNoRedirs(l, i) ==
  LET c == parseline(l, i + 1)
  IN IF Failed(c) \/ ~peek(l, c.i, {")"}) THEN Panicked(i) ELSE [cmd |-> c.cmd, i |-> c.i + 1]

parseblock(l, i) ==
  LET c == parseline(l, i + 1)
      r == parseredirs(l, c.i + 1, <<>>)
  IN IF Failed(c) \/ ~peek(l, c.i, {")"}) \/ ~r.ok THEN Panicked(i)
     ELSE [cmd |-> Redirected(c.cmd, r.rs), i |-> r.i]

parseexec(l, i) ==
  LET r == parseredirs(l, i, <<>>)
  IN IF peek(l, i, {"("}) THEN parseblock(l, i)
     ELSE IF r.ok THEN parseargs(l, r.i, <<>>, r.rs) ELSE Panicked(i)

parsepipe(l, i) ==
  LET c == parseexec(l, i)
      d == parsepipe(l, c.i + 1)
  IN IF Failed(c) \/ ~peek(l, c.i, {"|"}) THEN c
     ELSE IF Failed(d) THEN d
     ELSE [cmd |-> pipecmd(c.i, c.cmd, d.cmd), i |-> d.i]

parseback(c, l) ==
  IF ~Failed(c) /\ peek(l, c.i, {"&"})
  THEN parseback([cmd |-> backcmd(c.cmd), i |-> c.i + 1], l)
  ELSE c

parseline(l, i) ==
  LET c == parseback(parsepipe(l, i), l)
      d == parseline(l, c.i + 1)
  IN IF Failed(c) \/ ~peek(l, c.i, {";"}) THEN c
     ELSE IF Failed(d) THEN d
     ELSE [cmd |-> listcmd(c.cmd, d.cmd), i |-> d.i]

parsecmd(l) ==
  LET c == parseline(l, 1) IN IF c.i = Len(l) + 1 THEN c.cmd ELSE Panic

---------------------------------------------------------------------------
(* Running.                                                                  *)

NoFile == <<"none", 0, 0>>
Console == <<"console", 0, 0>>

(* The calls of a process: close, dup of p[0] or p[1], fork with what the    *)
(* child runs (bg: it is not waited for), and so on.                         *)
Call(op) == [op |-> op]
Close(fd) == [op |-> "close", fd |-> fd]
Dup(fd) == [op |-> "dup", fd |-> fd]
Fork1(code, bg) == [op |-> "fork", code |-> code, bg |-> bg]
Run(cmd) == [op |-> "run", cmd |-> cmd]

(* The descriptors of the pipe just made: p[0] and p[1].                     *)
P(i) == NOFILE + i

(* The two children of a pipe, and what their parent does.                   *)
LeftEnd(cmd) == <<Close(1), Dup(P(1)), Close(P(0)), Close(P(1)), Run(cmd)>>

(* Faulty variant: the right child keeps the end it does not read.           *)
RightKeepsWrite(cmd) == <<Close(0), Dup(P(0)), Close(P(0)), Run(cmd)>>

RightEnd(cmd) == <<Close(0), Dup(P(0)), Close(P(0)), Close(P(1)), Run(cmd)>>

(* Faulty variants: the parent waits before it closes, or waits once.        *)
WaitsFirst == <<Call("wait"), Call("wait"), Close(P(0)), Close(P(1)), Call("exit")>>
WaitsOnce == <<Close(P(0)), Close(P(1)), Call("wait"), Call("exit")>>

BothEnds == <<Close(P(0)), Close(P(1)), Call("wait"), Call("wait"), Call("exit")>>

runcmd(cmd) ==
  CASE cmd.type = "panic" -> <<Call("exit")>>
    [] cmd.type = "EXEC" ->
         IF cmd.argv = <<>> THEN <<Call("exit")>>
         ELSE <<[op |-> "exec", argv |-> cmd.argv], Call("exit")>>
    [] cmd.type = "REDIR" ->
         <<Close(cmd.fd), [op |-> "open", file |-> cmd.file], Run(cmd.cmd)>>
    [] cmd.type = "LIST" ->
         <<Fork1(<<Run(cmd.left)>>, FALSE), Call("wait"), Run(cmd.right)>>
    [] cmd.type = "PIPE" ->
         <<[op |-> "pipe", at |-> cmd.at], Fork1(LeftEnd(cmd.left), FALSE),
           Fork1(RightEnd(cmd.right), FALSE)>> \o BothEnds
    [] cmd.type = "BACK" ->
         <<Fork1(<<Run(cmd.cmd)>>, TRUE), Call("exit")>>

Free == [state |-> "UNUSED", parent |-> 0, code |-> <<>>, fds |-> [f \in Fd |-> NoFile],
         p |-> <<0, 0>>, n |-> 0, bg |-> FALSE]

(* A shell as init starts it, its three descriptors on the console.          *)
NewShell ==
  [Free EXCEPT !.state = "LIVE", !.code = <<Call("getcmd")>>,
               !.fds = [f \in Fd |-> IF f < 3 THEN Console ELSE NoFile]]

Live == {p \in Pid : proc[p].state = "LIVE"}
Children(p) == {q \in Pid : proc[q].state # "UNUSED" /\ proc[q].parent = p}

(* p is about to make the call op.                                           *)
At(p, op) ==
  /\ ~halted
  /\ proc[p].state = "LIVE"
  /\ Head(proc[p].code).op = op

Next1(p) == [proc EXCEPT ![p].code = Tail(@)]

(* The descriptor a call names, once p[] is known.                           *)
Named(p, fd) == IF fd >= NOFILE THEN proc[p].p[fd - NOFILE + 1] ELSE fd

FreeFds(p) == {f \in Fd : proc[p].fds[f] = NoFile}
Lowest(S) == CHOOSE f \in S : \A g \in S : f <= g

(* main: a line is read, and run by a child the shell waits for; at the end  *)
(* of its input the shell exits.                                             *)
Getcmd(p) ==
  /\ At(p, "getcmd")
  /\ \/ /\ Len(cmds) < MaxLines
        /\ \E l \in Lines :
             /\ cmds' = Append(cmds, parsecmd(l))
             /\ proc' = [proc EXCEPT
                  ![p].code = <<Fork1(<<Run(parsecmd(l))>>, FALSE), Call("wait"), Call("getcmd")>>,
                  ![p].n = Len(cmds) + 1]
     \/ /\ proc' = [proc EXCEPT ![p].code = <<Call("exit")>>]
        /\ UNCHANGED cmds
  /\ UNCHANGED <<sh, forkfail, halted>>

runcmdStep(p) ==
  /\ At(p, "run")
  /\ proc' = [proc EXCEPT ![p].code = runcmd(Head(@).cmd)]
  /\ UNCHANGED <<sh, cmds, forkfail, halted>>

fork1(p) ==
  /\ At(p, "fork")
  /\ LET free == {q \in Pid : proc[q].state = "UNUSED"}
         call == Head(proc[p].code)
     IN IF free = {}
        THEN /\ proc' = [proc EXCEPT ![p].code = <<Call("exit")>>]
             /\ forkfail' = TRUE
        ELSE /\ proc' = [Next1(p) EXCEPT ![Lowest(free)] =
                  [proc[p] EXCEPT !.parent = p, !.code = call.code, !.bg = @ \/ call.bg]]
             /\ UNCHANGED forkfail
  /\ UNCHANGED <<sh, cmds, halted>>

(* wait returns when some child has exited, or when there is none.           *)
wait(p) ==
  /\ At(p, "wait")
  /\ \/ /\ Children(p) = {}
        /\ proc' = Next1(p)
     \/ \E q \in Children(p) :
          /\ proc[q].state = "ZOMBIE"
          /\ proc' = [Next1(p) EXCEPT ![q] = Free]
  /\ UNCHANGED <<sh, cmds, forkfail, halted>>

close(p) ==
  /\ At(p, "close")
  /\ proc' = [Next1(p) EXCEPT ![p].fds[Named(p, Head(proc[p].code).fd)] = NoFile]
  /\ UNCHANGED <<sh, cmds, forkfail, halted>>

dup(p) ==
  /\ At(p, "dup")
  /\ LET from == Named(p, Head(proc[p].code).fd)
     IN proc' = [Next1(p) EXCEPT ![p].fds[Lowest(FreeFds(p))] = proc[p].fds[from]]
  /\ UNCHANGED <<sh, cmds, forkfail, halted>>

makepipe(p) ==
  /\ At(p, "pipe")
  /\ LET at == Head(proc[p].code).at
         r == Lowest(FreeFds(p))
         w == Lowest(FreeFds(p) \ {r})
     IN \/ proc' = [Next1(p) EXCEPT ![p].fds[r] = <<"read", at, proc[p].n>>,
                                    ![p].fds[w] = <<"write", at, proc[p].n>>,
                                    ![p].p = <<r, w>>]
        \/ /\ MayFail
           /\ proc' = [proc EXCEPT ![p].code = <<Call("exit")>>]
  /\ UNCHANGED <<sh, cmds, forkfail, halted>>

open(p) ==
  /\ At(p, "open")
  /\ \/ proc' = [Next1(p) EXCEPT ![p].fds[Lowest(FreeFds(p))] =
                                   <<"file", Head(proc[p].code).file, proc[p].n>>]
     \/ /\ MayFail
        /\ proc' = [proc EXCEPT ![p].code = <<Call("exit")>>]
  /\ UNCHANGED <<sh, cmds, forkfail, halted>>

exec(p) ==
  /\ At(p, "exec")
  /\ \/ proc' = [proc EXCEPT ![p].code =
                   <<[op |-> "program", argv |-> Head(@).argv], Call("exit")>>]
     \/ /\ MayFail
        /\ proc' = Next1(p)
  /\ UNCHANGED <<sh, cmds, forkfail, halted>>

(* The program p runs sees the end of its input: a pipe with no writer left, *)
(* or a file or terminal, which ends by itself.                              *)
AtEOF(p) ==
  LET in == proc[p].fds[0]
  IN in[1] = "read" =>
       \A q \in Pid : \A f \in Fd : proc[q].fds[f] # <<"write", in[2], in[3]>>

ProgramEnds(p) ==
  /\ At(p, "program")
  /\ AtEOF(p)
  /\ proc' = Next1(p)
  /\ UNCHANGED <<sh, cmds, forkfail, halted>>

ProgramQuits(p) ==
  /\ At(p, "program")
  /\ proc' = Next1(p)
  /\ UNCHANGED <<sh, cmds, forkfail, halted>>

(* exit closes every descriptor and hands the children to init.              *)
exit(p) ==
  /\ At(p, "exit")
  /\ proc' = [q \in Pid |->
                IF q = p THEN [Free EXCEPT !.state = "ZOMBIE", !.parent = proc[p].parent]
                ELSE IF q \in Children(p) THEN [proc[q] EXCEPT !.parent = InitPid]
                ELSE proc[q]]
  /\ UNCHANGED <<sh, cmds, forkfail, halted>>

(* init: reap what it is given, and fork a shell whenever the last one died; *)
(* when that fork fails init exits, and the kernel with it.                  *)
InitWait(p) ==
  /\ ~halted
  /\ sh # 0
  /\ proc[p].state = "ZOMBIE" /\ proc[p].parent = InitPid
  /\ proc' = [proc EXCEPT ![p] = Free]
  /\ sh' = IF p = sh THEN 0 ELSE sh
  /\ UNCHANGED <<cmds, forkfail, halted>>

InitFork ==
  /\ ~halted
  /\ sh = 0
  /\ LET free == {q \in Pid : proc[q].state = "UNUSED"}
     IN IF free = {}
        THEN halted' = TRUE /\ UNCHANGED <<proc, sh>>
        ELSE /\ sh' = Lowest(free)
             /\ proc' = [proc EXCEPT ![Lowest(free)] = NewShell]
             /\ UNCHANGED halted
  /\ UNCHANGED <<cmds, forkfail>>

Init ==
  /\ sh = Lowest(Pid)
  /\ proc = [p \in Pid |-> IF p = Lowest(Pid) THEN NewShell ELSE Free]
  /\ cmds = <<>>
  /\ forkfail = FALSE
  /\ halted = FALSE

(* What a process does by itself, once its line has been typed.              *)
Step(p) ==
  runcmdStep(p) \/ fork1(p) \/ wait(p) \/ close(p) \/ dup(p) \/ makepipe(p)
    \/ open(p) \/ exec(p) \/ ProgramEnds(p) \/ exit(p)

Next ==
  \/ \E p \in Pid : Getcmd(p)
  \/ \E p \in Pid : runcmdStep(p)
  \/ \E p \in Pid : fork1(p)
  \/ \E p \in Pid : wait(p)
  \/ \E p \in Pid : close(p)
  \/ \E p \in Pid : dup(p)
  \/ \E p \in Pid : makepipe(p)
  \/ \E p \in Pid : open(p)
  \/ \E p \in Pid : exec(p)
  \/ \E p \in Pid : ProgramEnds(p)
  \/ \E p \in Pid : ProgramQuits(p)
  \/ \E p \in Pid : exit(p)
  \/ \E p \in Pid : InitWait(p)
  \/ InitFork

Spec == Init /\ [][Next]_vars

---------------------------------------------------------------------------
(* Properties.                                                               *)

Prompting == sh # 0 /\ proc[sh].state = "LIVE" /\ Head(proc[sh].code).op = "getcmd"

(* What each program of a command should read and write: the reference for   *)
(* runcmd, with no process, descriptor or order of calls in it.  An inner    *)
(* redirection is made last.                                                 *)
RECURSIVE Wiring(_, _, _, _)
Wiring(cmd, in, out, n) ==
  CASE cmd.type = "panic" -> {}
    [] cmd.type = "EXEC" -> {<<cmd.argv, in, out>>}
    [] cmd.type = "REDIR" ->
         LET file == <<"file", cmd.file, n>>
         IN Wiring(cmd.cmd, IF cmd.fd = 0 THEN file ELSE in,
                            IF cmd.fd = 1 THEN file ELSE out, n)
    [] cmd.type = "LIST" -> Wiring(cmd.left, in, out, n) \cup Wiring(cmd.right, in, out, n)
    [] cmd.type = "PIPE" -> Wiring(cmd.left, in, <<"write", cmd.at, n>>, n)
                              \cup Wiring(cmd.right, <<"read", cmd.at, n>>, out, n)
    [] cmd.type = "BACK" -> Wiring(cmd.cmd, in, out, n)

(* A program runcmd executes reads and writes what its place in the command  *)
(* line says, and has no other descriptor open: no end of a pipe outlives    *)
(* the shell's own use of it (sh.c:101-123).                                 *)
Plumbed ==
  \A p \in Live :
    Head(proc[p].code).op = "program" =>
      /\ <<Head(proc[p].code).argv, proc[p].fds[0], proc[p].fds[1]>>
           \in Wiring(cmds[proc[p].n], Console, Console, proc[p].n)
      /\ proc[p].fds[2] = Console
      /\ \A f \in Fd : f > 2 => proc[p].fds[f] = NoFile

(* When the shell prompts again (sh.c:268), the line's processes are gone:   *)
(* what is left was put in the background with &, or lost its parent to a    *)
(* failed fork, and the shell has no child to reap.                          *)
NothingLeft ==
  Prompting =>
    /\ Children(sh) = {}
    /\ \A p \in Live \ {sh} : proc[p].bg \/ forkfail

(* When no process of a line can go on, the shell is at its prompt, or the  *)
(* kernel has halted: whatever fails and whatever the programs leave unread, *)
(* each reader of a pipe sees its end and each wait a child that exits       *)
(* (sh.c:108-120).                                                           *)
NoneStuck ==
  (~\E p \in Pid : ENABLED (Step(p) \/ InitWait(p))) => Prompting \/ halted \/ sh = 0

(* A command line is carried out: each program has the descriptors its     *)
(* place says and no other, the processes never all wait for each other,   *)
(* and at the prompt only background processes are left (sh.c:75-140,      *)
(* 268).                                                                   *)
LinesCarriedOut == Plumbed /\ NoneStuck /\ NothingLeft

---------------------------------------------------------------------------
(* The grammar parsecmd accepts, by splitting a line at its operators, the   *)
(* loosest first, instead of reading it from left to right.                  *)

Depth(l, i) == Cardinality({j \in 1 .. i : l[j] = "("}) - Cardinality({j \in 1 .. i : l[j] = ")"})

(* The positions of lo .. hi where an operator op is outside parentheses.    *)
Outer(l, lo, hi, op) == {k \in lo .. hi : l[k] = op /\ Depth(l, k) = Depth(l, lo - 1)}

(* Positions that are the file of a redirection, or its operator.            *)
IsFile(l, k) == k > 1 /\ l[k] = "w" /\ l[k - 1] \in {"<", ">", ">>"}
IsRedir(l, k) == l[k] \in {"<", ">", ">>"}
Files(l, lo, hi) ==
  LET ks == SetToSortSeq({k \in lo .. hi : IsFile(l, k)}, <)
  IN [j \in DOMAIN ks |-> [file |-> ks[j], fd |-> IF l[ks[j] - 1] = "<" THEN 0 ELSE 1]]

RECURSIVE Simple(_, _, _), Piped(_, _, _), Backed(_, _, _), Listed(_, _, _)

Simple(l, lo, hi) ==
  LET block == lo <= hi /\ l[lo] = "("
      ends == {k \in lo .. hi : l[k] = ")" /\ Depth(l, k) = Depth(l, lo - 1)}
      end == Lowest(ends)
      rest == IF block THEN end + 1 .. hi ELSE lo .. hi
      argv == SelectSeq([k \in 1 .. hi |-> k], LAMBDA k : k >= lo /\ l[k] = "w" /\ ~IsFile(l, k))
  IN IF \/ block /\ ends = {}
        \/ \E k \in rest : IsRedir(l, k) /\ ~(k < hi /\ l[k + 1] = "w")
        \/ \E k \in rest : ~IsRedir(l, k) /\ ~IsFile(l, k) /\ (block \/ l[k] # "w")
        \/ ~block /\ Len(argv) >= MAXARGS
     THEN Panic
     ELSE IF ~block THEN Redirected(execcmd(argv), Files(l, lo, hi))
     ELSE LET c == Listed(l, lo + 1, end - 1)
          IN IF c = Panic THEN c ELSE Redirected(c, Files(l, end + 1, hi))

Piped(l, lo, hi) ==
  LET bars == Outer(l, lo, hi, "|")
      c == Simple(l, lo, Lowest(bars) - 1)
      d == Piped(l, Lowest(bars) + 1, hi)
  IN IF bars = {} THEN Simple(l, lo, hi)
     ELSE IF Panic \in {c, d} THEN Panic ELSE pipecmd(Lowest(bars), c, d)

Backed(l, lo, hi) ==
  LET c == Backed(l, lo, hi - 1)
  IN IF hi \notin Outer(l, lo, hi, "&") THEN Piped(l, lo, hi)
     ELSE IF c = Panic THEN c ELSE backcmd(c)

Listed(l, lo, hi) ==
  LET semis == Outer(l, lo, hi, ";")
      c == Backed(l, lo, Lowest(semis) - 1)
      d == Listed(l, Lowest(semis) + 1, hi)
  IN IF semis = {} THEN Backed(l, lo, hi)
     ELSE IF Panic \in {c, d} THEN Panic ELSE listcmd(c, d)

Balanced(l) == Depth(l, Len(l)) = 0 /\ \A i \in 1 .. Len(l) : Depth(l, i) >= 0
Grammar(l) == IF Balanced(l) THEN Listed(l, 1, Len(l)) ELSE Panic
=============================================================================

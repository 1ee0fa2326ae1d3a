------------------------------- MODULE MCParts -------------------------------
(***************************************************************************)
(* The smaller parts of the kernel and the programs, each on an instance   *)
(* of its own: the state lists, memory, spin locks, the console, the       *)
(* keyboard, the clock, the shell and its parser, malloc, grep and printf. *)
(* They share no state: a behaviour picks one part and runs it while the   *)
(* others stay as they started, so the states are those of the parts side  *)
(* by side.                                                                *)
(***************************************************************************)
EXTENDS StateList, FiniteSets

VARIABLES
  part,
  free, pgdir, new, kstack, sz, state, cr3, todo, leaked, mempanic,
  code, run, IF_, ncli, intena, locked, owner, lockpanic,
  ring, r, w, e, lock, rd, killed, ready, intr, pos, conpanic,
  down, codes, shift, char,
  now, regs, left, uip, bcd, query,
  proc, sh, cmds, forkfail, halted, typed,
  hdr, freep, brk, given, core,
  re, file, off, held, out, done,
  fmt, xx

memVars == <<free, pgdir, new, kstack, sz, state, cr3, todo, leaked, mempanic>>
lockVars == <<code, run, IF_, ncli, intena, locked, owner, lockpanic>>
conVars == <<ring, r, w, e, lock, rd, killed, ready, intr, pos, conpanic>>
kbdVars == <<down, codes, shift, char>>
rtcVars == <<now, regs, left, uip, bcd, query>>
shVars == <<proc, sh, cmds, forkfail, halted>>
heapVars == <<hdr, freep, brk, given, core>>
grepVars == <<re, file, off, held, out, done>>
fmtVars == <<fmt, xx>>
kernelVars == <<vars, memVars, lockVars, conVars, kbdVars, rtcVars>>
userVars == <<shVars, typed, heapVars, grepVars, fmtVars>>

(* Two processes whose programs do not both fit in memory, pages of two    *)
(* addresses, page tables of three pages.                                  *)
Memory == INSTANCE Vm WITH
  Proc <- {"p", "q"}, initproc <- "p", NFRAME <- 13, PGSIZE <- 2, NPTENTRIES <- 3,
  UserPages <- 5, Programs <- {<<1, 2>>}, Increments <- {-2, 3}, panicked <- mempanic

Locks == INSTANCE Spinlock WITH Cpu <- 1 .. 2, Process <- {11}, panicked <- lockpanic

Cons == INSTANCE Console WITH
  Proc <- {"p", "q"}, INPUT_BUF <- 3, WRAP <- 6, ROWS <- 2, COLS <- 2, Counts <- {2},
  buf <- ring, panicked <- conpanic

Kbd == INSTANCE Keyboard WITH MaxCodes <- 3

(* A second, a minute and a year, from one second before midnight of the   *)
(* last of December.                                                       *)
Clock == INSTANCE Rtc WITH
  Times <- <<<<58, 59, 19>>, <<59, 59, 19>>, <<0, 0, 20>>, <<1, 0, 20>>>>

(* Lines with pipes, blocks, lists, redirections and background jobs; four *)
(* slots are too few for some of them.                                     *)
Sh == INSTANCE Shell WITH
  Pid <- 1 .. 4, MaxLines <- 1, MAXARGS <- 3, NOFILE <- 5, MayFail <- TRUE,
  Lines <- {<<"w", "|", "w">>, <<"(", "w", ";", "w", ")", "|", "w">>,
            <<"w", "<", "w", ">", "w">>, <<"w", "|", "w", "|", "w", "&">>,
            <<"w", ";", "w", "&">>, <<"w", "&", "w">>}

MaxTyped == 5

Heap == INSTANCE Umalloc WITH HeapEnd <- 14, NALLOC <- 4, HEADER <- 2, Requests <- {1, 3, 8}

UpTo(S, n) == UNION {[1 .. k -> S] : k \in 0 .. n}

Grep == INSTANCE Grep WITH
  BUFSIZE <- 4, Patterns <- UpTo({"a", ".", "*", "^", "$"}, 3), Texts <- UpTo({"a", "b", "nl"}, 5)

Fmt == INSTANCE Printf WITH W <- 5, FmtLen <- 4

PartsInit ==
  /\ part \in {"lists", "memory", "locks", "console", "keyboard", "clock", "shell", "parser",
               "heap", "grep", "printf"}
  /\ Init /\ (part # "lists" => src = CHOOSE l \in List : TRUE)
  /\ Memory!Init
  /\ Locks!LockInit
  /\ Cons!ConInit
  /\ Kbd!KbdInit
  /\ Clock!RtcInit /\ (part # "clock" => bcd)
  /\ Sh!Init
  /\ typed = <<>>
  /\ Heap!HeapInit
  /\ IF part = "grep" THEN Grep!GrepInit
     ELSE re = <<>> /\ file = <<>> /\ off = 0 /\ held = <<>> /\ out = <<>> /\ done = FALSE
  /\ IF part = "printf" THEN Fmt!FmtInit ELSE fmt = <<>> /\ xx = 0

InKernel == UNCHANGED <<part, userVars>>
InPrograms == UNCHANGED <<part, kernelVars>>

PartsNext ==
  \/ /\ part = "lists" /\ Next /\ InKernel
     /\ UNCHANGED <<memVars, lockVars, conVars, kbdVars, rtcVars>>
  \/ /\ part = "memory" /\ Memory!Next /\ InKernel
     /\ UNCHANGED <<vars, lockVars, conVars, kbdVars, rtcVars>>
  \/ /\ part = "locks" /\ Locks!LockNext /\ InKernel
     /\ UNCHANGED <<vars, memVars, conVars, kbdVars, rtcVars>>
  \/ /\ part = "console" /\ Cons!ConNext /\ InKernel
     /\ UNCHANGED <<vars, memVars, lockVars, kbdVars, rtcVars>>
  \/ /\ part = "keyboard" /\ Kbd!KbdNext /\ InKernel
     /\ UNCHANGED <<vars, memVars, lockVars, conVars, rtcVars>>
  \/ /\ part = "clock" /\ Clock!RtcNext /\ InKernel
     /\ UNCHANGED <<vars, memVars, lockVars, conVars, kbdVars>>
  \/ part = "shell" /\ Sh!Next /\ UNCHANGED <<typed, heapVars, grepVars, fmtVars>> /\ InPrograms
  \/ /\ part = "parser" /\ Len(typed) < MaxTyped
     /\ \E t \in Sh!Token : typed' = Append(typed, t)
     /\ UNCHANGED <<shVars, heapVars, grepVars, fmtVars>> /\ InPrograms
  \/ part = "heap" /\ Heap!HeapNext /\ UNCHANGED <<shVars, typed, grepVars, fmtVars>> /\ InPrograms
  \/ part = "grep" /\ Grep!grep /\ UNCHANGED <<shVars, typed, heapVars, fmtVars>> /\ InPrograms
  \/ part = "printf" /\ Fmt!FmtNext /\ UNCHANGED <<shVars, typed, heapVars, grepVars>> /\ InPrograms

PartsSpec == PartsInit /\ [][PartsNext]_<<part, kernelVars, userVars>>

(* Pages are interchangeable: while each is in one place, two states that  *)
(* differ only in which page is where are the same state.                  *)
Present(x) == x # 0
Shape(s) == [tab |-> {t \in DOMAIN s.tab : Present(s.tab[t])},
             page |-> {v \in DOMAIN s.page : Present(s.page[v])},
             top |-> <<Present(s.dir), Present(s.ktab), s.hole>>]
MemView ==
  IF part # "memory" THEN memVars
  ELSE <<Memory!FrameExact, Memory!LoadedLive,
         [p \in {"p", "q"} |-> <<Shape(pgdir[p]), Shape(new[p]), Present(kstack[p])>>],
         [p \in {"p", "q"} |-> [i \in DOMAIN todo[p] |->
                                [todo[p][i] EXCEPT !.frame = Present(@)]]],
         sz, state, Cardinality(free), Cardinality(leaked), mempanic>>

(* What lies in the ring outside r .. e is never looked at.                *)
PartsView ==
  <<part, vars, MemView, lockVars, kbdVars, rtcVars, userVars,
    Cons!Ring(r, e), r, w, e, lock, rd, killed, ready, intr, pos, conpanic>>

---------------------------------------------------------------------------
(* The properties of the parts; each is defined and explained in its       *)
(* part's module.                                                          *)

(* Every page is in one place and sizes agree with page tables,          *)
(* whichever kalloc() fails (kalloc.c:60-95, vm.c:50-345,                *)
(* exec.c:20-140).                                                       *)
PagesExact == part = "memory" => Memory!PagesExact

(* No check of the locks fails, and no handler meets a lock of its own   *)
(* processor or another handler (spinlock.c:24-116, proc.c:722-763).     *)
LocksSafe == part = "locks" => Locks!LocksSafe

(* The console edits and delivers lines as LineInput does                *)
(* (console.c:238-245, 294-302).                                         *)
Edits == Cons!Edits

(* Input can always be read, and nobody sleeps beside it                 *)
(* (console.c:190-312).                                                  *)
InputReadable == part = "console" => Cons!InputReadable

(* A remembered modifier has a key held down (kbd.c:20-32).              *)
NoStuckModifier == part = "keyboard" => Kbd!NoStuckModifier

(* The date is one the clock showed during the call (lapic.c:216-223).   *)
TrueDate == part = "clock" => Clock!TrueDate

(* A line's programs are connected as it says, end, and are waited for   *)
(* (sh.c:75-140, 268).                                                   *)
LinesCarriedOut == part = "shell" => Sh!LinesCarriedOut

(* parsecmd accepts the lines of the grammar, with the same tree, and    *)
(* panics on every other (sh.c:426-545).                                 *)
ParsesAsGrammar == part = "parser" => Sh!parsecmd(typed) = Sh!Grammar(typed)

(* Given and free blocks tile the heap, and the free list is ordered and *)
(* coalesced (umalloc.c:22-90).                                          *)
HeapSound == part = "heap" => Heap!HeapSound

(* grep prints the lines its pattern describes (grep.c:16-35, 73-106).   *)
PrintsMatches == part = "grep" => Grep!PrintsMatches

==============================================================================

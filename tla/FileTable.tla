----------------------------- MODULE FileTable ------------------------------
(***************************************************************************)
(* Open files (file.c) and the system calls that share, copy and drop them *)
(* (sysfile.c; the file loops of fork() and exit() in proc.c), on top of   *)
(* Pipe.  A critical section of ftable.lock is one step; what a call does  *)
(* between two of them is part of the step that follows.                   *)
(*                                                                         *)
(* A call that closes files puts them on todo and closes them one by one:  *)
(* fileclose() drops the reference under ftable.lock and calls pipeclose() *)
(* afterwards, on a copy of the file structure.                            *)
(***************************************************************************)
EXTENDS Pipe, FiniteSetsExt

CONSTANTS
  NFILE,   \* entries of ftable
  NOFILE   \* descriptors of a process

VARIABLES
  ref, type, writable, fpipe,  \* the fields of each struct file
  ofile,    \* descriptors of each process
  life,     \* "free", "embryo", "live" or "exit"
  todo,     \* files that a process has still to close
  copy,     \* ff of fileclose(): the pipe end to close
  local,    \* files that pipealloc() or sys_dup() holds
  child,    \* np of fork()
  panicked

fields == <<type, writable, fpipe>>
fileVars == <<ref, fields, ofile, life, todo, copy, local, child, panicked>>
vars == <<pipeVars, out, fileVars>>

File == 1 .. NFILE
FD == 0 .. NOFILE - 1
NoFile == 0

Least(S) == CHOOSE x \in S : \A y \in S : x <= y

FreeFiles == {f \in File : ref[f] = 0}
FreeFds(p) == {d \in FD : ofile[p][d] = NoFile}

(* The files of a process in the order of its descriptors.                 *)
OpenFiles(p) ==
  LET fds == {d \in FD : ofile[p][d] # NoFile}
      nth(i) == CHOOSE d \in fds : Cardinality({e \in fds : e < d}) = i - 1
  IN [i \in 1 .. Cardinality(fds) |-> ofile[p][nth(i)]]

Init ==
  /\ PipeInit
  /\ ref = [f \in File |-> 0]
  /\ type = [f \in File |-> "none"]
  /\ writable = [f \in File |-> FALSE]
  /\ fpipe = [f \in File |-> None]
  /\ ofile = [p \in Proc |-> [d \in FD |-> NoFile]]
  /\ \E p \in Proc : life = [q \in Proc |-> IF q = p THEN "live" ELSE "free"]
  /\ todo = [p \in Proc |-> <<>>]
  /\ copy = [p \in Proc |-> None]
  /\ local = [p \in Proc |-> <<>>]
  /\ child = [p \in Proc |-> None]
  /\ panicked = FALSE

At(p, k) == pc[p] = k /\ life[p] \in {"live", "exit"}
Goto(p, k) == pc' = [pc EXCEPT ![p] = k]
(* trap() lets a killed process make no further call.                      *)
Idle(p) == At(p, "user") /\ ~killed[p]

Panic ==
  /\ panicked' = TRUE
  /\ UNCHANGED <<pipeVars, ref, fields, ofile, life, todo, copy, local, child>>

-----------------------------------------------------------------------------
(* filealloc() takes the first entry without references.                   *)

(* sys_open(): a file on an inode.  Without a descriptor the entry is      *)
(* closed again, before it has a type.                                     *)
SysOpen(p) ==
  LET f == Least(FreeFiles) IN
  /\ Idle(p)
  /\ FreeFiles # {}
  /\ ref' = [ref EXCEPT ![f] = 1]
  /\ IF FreeFds(p) = {}
     THEN /\ todo' = [todo EXCEPT ![p] = <<f>>]
          /\ Goto(p, "fileclose")
          /\ UNCHANGED <<type, writable, ofile>>
     ELSE /\ ofile' = [ofile EXCEPT ![p][Least(FreeFds(p))] = f]
          /\ type' = [type EXCEPT ![f] = "inode"]
          /\ writable' = [writable EXCEPT ![f] = FALSE]
          /\ UNCHANGED <<todo, pc>>
  /\ UNCHANGED <<pipe, transfer, fpipe, life, copy, local, child, panicked>>

(* sys_pipe(): pipealloc() allocates two files,                            *)
PipeAlloc(p) ==
  LET f == Least(FreeFiles) IN
  /\ \/ Idle(p)
     \/ At(p, "pipealloc")
  /\ IF FreeFiles = {}
     THEN /\ todo' = [todo EXCEPT ![p] = local[p]]
          /\ Goto(p, IF local[p] = <<>> THEN "user" ELSE "fileclose")
          /\ local' = [local EXCEPT ![p] = <<>>]
          /\ UNCHANGED ref
     ELSE /\ ref' = [ref EXCEPT ![f] = 1]
          /\ local' = [local EXCEPT ![p] = Append(@, f)]
          /\ Goto(p, IF local[p] = <<>> THEN "pipealloc" ELSE "pipepage")
          /\ UNCHANGED todo
  /\ UNCHANGED <<pipe, transfer, fields, ofile, life, copy, child, panicked>>

(* and a page, or closes the files again.                                  *)
PipeNoPage(p) ==
  /\ At(p, "pipepage")
  /\ todo' = [todo EXCEPT ![p] = local[p]]
  /\ local' = [local EXCEPT ![p] = <<>>]
  /\ Goto(p, "fileclose")
  /\ UNCHANGED <<pipe, transfer, ref, fields, ofile, life, copy, child, panicked>>

(* With a page it fills in the files, and sys_pipe() the descriptors.      *)
PipePage(p, g) ==
  LET rf == local[p][1]
      wf == local[p][2]
      fd0 == Least(FreeFds(p))
      fd1 == Least(FreeFds(p) \ {fd0})
  IN
  /\ At(p, "pipepage")
  /\ ~pipe[g].alive
  /\ pipe' = [pipe EXCEPT ![g] = NewPipe]
  /\ type' = [type EXCEPT ![rf] = "pipe", ![wf] = "pipe"]
  /\ writable' = [writable EXCEPT ![rf] = FALSE, ![wf] = TRUE]
  /\ fpipe' = [fpipe EXCEPT ![rf] = g, ![wf] = g]
  /\ local' = [local EXCEPT ![p] = <<>>]
  /\ IF Cardinality(FreeFds(p)) < 2
     THEN /\ todo' = [todo EXCEPT ![p] = <<rf, wf>>]
          /\ Goto(p, "fileclose")
          /\ UNCHANGED ofile
     ELSE /\ ofile' = [ofile EXCEPT ![p][fd0] = rf, ![p][fd1] = wf]
          /\ Goto(p, "user")
          /\ UNCHANGED todo
  /\ UNCHANGED <<transfer, ref, life, copy, child, panicked>>

-----------------------------------------------------------------------------
(* sys_dup(): the descriptor first, the reference second.                  *)
SysDup(p, d) ==
  /\ Idle(p)
  /\ ofile[p][d] # NoFile
  /\ FreeFds(p) # {}
  /\ ofile' = [ofile EXCEPT ![p][Least(FreeFds(p))] = ofile[p][d]]
  /\ local' = [local EXCEPT ![p] = <<ofile[p][d]>>]
  /\ Goto(p, "dup")
  /\ UNCHANGED <<pipe, transfer, ref, fields, life, todo, copy, child, panicked>>

(* Faulty variant: filedup() counts nothing.                               *)
DupNoRef(f) == ref

(* filedup()                                                               *)
DupRef(f) == [ref EXCEPT ![f] = @ + 1]

(* filedup() of sys_dup().                                                 *)
FileDup(p) ==
  LET f == local[p][1] IN
  /\ At(p, "dup")
  /\ IF ref[f] < 1
     THEN Panic
     ELSE /\ ref' = DupRef(f)
          /\ local' = [local EXCEPT ![p] = <<>>]
          /\ Goto(p, "user")
          /\ UNCHANGED <<pipe, transfer, fields, ofile, life, todo, copy, child, panicked>>

(* fork(): the child gets the files one after the other.                   *)
Fork(p, c) ==
  /\ Idle(p)
  /\ life[c] = "free"
  /\ life' = [life EXCEPT ![c] = "embryo"]
  /\ killed' = [killed EXCEPT ![c] = FALSE]
  /\ child' = [child EXCEPT ![p] = c]
  /\ local' = [local EXCEPT ![p] = OpenFiles(p)]
  /\ Goto(p, "fork")
  /\ UNCHANGED <<pipe, page, pend, size, ref, fields, ofile, todo, copy, panicked>>

(* The loop over the descriptors, and the end of fork().                   *)
ForkDup(p) ==
  LET c == child[p]
      f == Head(local[p])
  IN
  /\ At(p, "fork")
  /\ IF local[p] = <<>>
     THEN /\ ofile' = [ofile EXCEPT ![c] = ofile[p]]
          /\ life' = [life EXCEPT ![c] = "live"]
          /\ child' = [child EXCEPT ![p] = None]
          /\ Goto(p, "user")
          /\ UNCHANGED <<ref, local, panicked>>
     ELSE IF ref[f] < 1
     THEN panicked' = TRUE /\ UNCHANGED <<ref, local, ofile, life, child, pc>>
     ELSE /\ ref' = DupRef(f)
          /\ local' = [local EXCEPT ![p] = Tail(@)]
          /\ UNCHANGED <<ofile, life, child, pc, panicked>>
  /\ UNCHANGED <<pipe, transfer, fields, todo, copy>>
-----------------------------------------------------------------------------
(* sys_close().                                                            *)
SysClose(p, d) ==
  /\ Idle(p)
  /\ ofile[p][d] # NoFile
  /\ ofile' = [ofile EXCEPT ![p][d] = NoFile]
  /\ todo' = [todo EXCEPT ![p] = <<ofile[p][d]>>]
  /\ Goto(p, "fileclose")
  /\ UNCHANGED <<pipe, transfer, ref, fields, life, copy, local, child, panicked>>

(* exit() closes every file.  There is always another process, the parent. *)
Exit(p) ==
  /\ At(p, "user")
  /\ life' = [life EXCEPT ![p] = IF OpenFiles(p) = <<>> THEN "free" ELSE "exit"]
  /\ ofile' = [ofile EXCEPT ![p] = [d \in FD |-> NoFile]]
  /\ todo' = [todo EXCEPT ![p] = OpenFiles(p)]
  /\ Goto(p, IF OpenFiles(p) = <<>> THEN "user" ELSE "fileclose")
  /\ UNCHANGED <<pipe, transfer, ref, fields, copy, local, child, panicked>>

(* Where a process goes when it has closed a file, with rest to close.     *)
AfterClose(rest) == IF rest = <<>> THEN "user" ELSE "fileclose"
LifeAfterClose(p, rest) == IF rest = <<>> /\ life[p] = "exit" THEN "free" ELSE life[p]

(* Faulty variant: the type of a file outlives its last reference.         *)
TypeKept(f) == type

TypeAfterClose(f) == [type EXCEPT ![f] = IF ref[f] = 1 THEN "none" ELSE @]

(* fileclose(): the last reference frees the entry; what it pointed to is  *)
(* closed afterwards.                                                      *)
FileClose(p) ==
  LET f == Head(todo[p])
      rest == Tail(todo[p])
  IN
  /\ At(p, "fileclose")
  /\ IF ref[f] < 1
     THEN Panic
     ELSE /\ ref' = [ref EXCEPT ![f] = @ - 1]
          /\ todo' = [todo EXCEPT ![p] = rest]
          /\ type' = TypeAfterClose(f)
          /\ IF ref[f] = 1 /\ type[f] = "pipe"
             THEN /\ copy' = [copy EXCEPT ![p] = <<fpipe[f], writable[f]>>]
                  /\ Goto(p, "pipeclose")
                  /\ UNCHANGED life
             ELSE /\ life' = [life EXCEPT ![p] = LifeAfterClose(p, rest)]
                  /\ Goto(p, AfterClose(rest))
                  /\ UNCHANGED copy
          /\ UNCHANGED <<pipe, transfer, writable, fpipe, ofile, local, child, panicked>>

(* pipeclose() on the copy.                                                *)
ClosePipe(p) ==
  /\ At(p, "pipeclose")
  /\ PipeClose(p, copy[p][1], copy[p][2], AfterClose(todo[p]))
  /\ copy' = [copy EXCEPT ![p] = None]
  /\ life' = [life EXCEPT ![p] = LifeAfterClose(p, todo[p])]
  /\ UNCHANGED <<transfer, ref, fields, ofile, todo, local, child, panicked>>

-----------------------------------------------------------------------------
(* sys_write() and sys_read() on a descriptor of a pipe.                   *)
IsPipeEnd(p, d, w) ==
  ofile[p][d] # NoFile /\ type[ofile[p][d]] = "pipe" /\ writable[ofile[p][d]] = w

FileWrite(p, d, m) ==
  /\ Idle(p)
  /\ IsPipeEnd(p, d, TRUE)
  /\ StartWrite(p, fpipe[ofile[p][d]], m)
  /\ UNCHANGED fileVars

FileRead(p, d, n) ==
  /\ Idle(p)
  /\ IsPipeEnd(p, d, FALSE)
  /\ StartRead(p, fpipe[ofile[p][d]], n)
  /\ UNCHANGED fileVars

PipeStep(p) ==
  /\ \/ PipeRead(p)
     \/ (PipeWrite(p) \/ PipeSleep(p)) /\ out' = <<>>
  /\ UNCHANGED fileVars

(* sys_kill(): victim v may be in any state but exiting, which hides it.   *)
SysKill(p, v) ==
  /\ Idle(p)
  /\ life[v] \in {"embryo", "live"}
  /\ Kill(v)
  /\ UNCHANGED fileVars

(* What a process does once it is in the kernel.                           *)
FileStep(p) ==
  \/ PipeAlloc(p) /\ ~Idle(p)
  \/ PipeNoPage(p)
  \/ \E g \in Page : PipePage(p, g)
  \/ FileDup(p)
  \/ ForkDup(p)
  \/ FileClose(p)
  \/ ClosePipe(p)

KernelStep(p) == PipeStep(p) \/ (FileStep(p) /\ out' = <<>>)

SysCall(p) ==
  \/ SysOpen(p)
  \/ PipeAlloc(p) /\ Idle(p)
  \/ \E d \in FD : SysDup(p, d) \/ SysClose(p, d)
  \/ \E d \in FD, m \in Messages : FileWrite(p, d, m)
  \/ \E d \in FD, n \in 1 .. PIPESIZE : FileRead(p, d, n)
  \/ \E c \in Proc : Fork(p, c) \/ SysKill(p, c)
  \/ Exit(p)

Next ==
  /\ ~panicked
  /\ \E p \in Proc : KernelStep(p) \/ (SysCall(p) /\ out' = <<>>)

Spec == Init /\ [][Next]_vars
FairSpec == Spec /\ \A p \in Proc : WF_vars(~panicked /\ KernelStep(p))

-----------------------------------------------------------------------------
(* Every variable keeps its type: references stay within what the          *)
(* descriptors and the calls in progress of all processes can hold.        *)
TypeOK ==
  /\ \A g \in Page : pipe[g].nread \in 0 .. WRAP - 1 /\ pipe[g].nwrite \in 0 .. WRAP - 1
  /\ \A g \in Page : Used(pipe[g]) <= PIPESIZE /\ pipe[g].lock \in Proc \cup {None}
  /\ page \in [Proc -> Page \cup {None}]
  /\ killed \in [Proc -> BOOLEAN]
  /\ ref \in [File -> 0 .. Cardinality(Proc) * (NOFILE + 2)]
  /\ type \in [File -> {"none", "inode", "pipe"}]
  /\ writable \in [File -> BOOLEAN]
  /\ fpipe \in [File -> Page \cup {None}]
  /\ ofile \in [Proc -> [FD -> File \cup {NoFile}]]
  /\ life \in [Proc -> {"free", "embryo", "live", "exit"}]
  /\ copy \in [Proc -> {None} \cup (Page \X BOOLEAN)]
  /\ child \in [Proc -> Proc \cup {None}]
  /\ panicked \in BOOLEAN

Occurrences(f, s) == Cardinality({i \in DOMAIN s : s[i] = f})

(* The references that process p holds on f: its descriptors, the files it *)
(* is going to close, the files pipealloc() took; less a descriptor that   *)
(* sys_dup() has yet to count, plus what fork() counted for the child.     *)
Held(p, f) ==
  LET fds == Cardinality({d \in FD : ofile[p][d] = f})
      mine == Occurrences(f, local[p])
  IN fds + Occurrences(f, todo[p]) +
     CASE pc[p] = "dup"  -> -mine
       [] pc[p] = "fork" -> fds - mine
       [] OTHER          -> mine

(* A file structure has as many references as descriptors and calls in     *)
(* progress hold it, between any two steps of fork(), dup(), pipe(),       *)
(* close() and exit() (filedup() and fileclose() in file.c).               *)
RefExact ==
  \A f \in File : ref[f] = MapThenSumSet(LAMBDA p : Held(p, f), Proc)

(* An end of a pipe is open exactly as long as a file with references      *)
(* stands for it or a process is about to close it: pipeclose() runs once  *)
(* for each end, and the page is freed by the second run and no earlier.   *)
EndsMatch ==
  \A g \in Page, w \in BOOLEAN :
    (IF w THEN pipe[g].writeopen ELSE pipe[g].readopen) <=>
      \/ \E f \in File : ref[f] > 0 /\ type[f] = "pipe" /\ fpipe[f] = g /\ writable[f] = w
      \/ \E p \in Proc : pc[p] = "pipeclose" /\ copy[p] = <<g, w>>

(* A process inside pipewrite(), piperead() or pipeclose(), asleep or not, *)
(* is there on a page that still holds that pipe, with its own end open.   *)
NoUseAfterFree ==
  \A p \in Proc :
    /\ pc[p] \in {"pipewrite", "wtest", "wsleep"} => pipe[page[p]].writeopen
    /\ pc[p] \in {"piperead", "rtest", "rsleep"} => pipe[page[p]].readopen
    /\ pc[p] = "pipeclose" => pipe[copy[p][1]].alive

(* filedup() and fileclose() never panic.                                  *)
NoFilePanic == ~panicked

(* The file table is exact: each structure has the references that       *)
(* descriptors and calls in progress hold, between any two steps of      *)
(* fork(), dup(), pipe(), close() and exit(), so that filedup() and      *)
(* fileclose() never panic, and the counters of a pipe stay in range     *)
(* (file.c:27-85).                                                       *)
FilesExact == TypeOK /\ RefExact /\ NoFilePanic

(* Pipes are safe to use: an end is open as long as somebody has it,     *)
(* pipeclose() runs once for each, and nobody is inside a pipe whose     *)
(* page has been freed (pipe.c:58-75, file.c:55-85).                     *)
PipesSafe == EndsMatch /\ NoUseAfterFree


(* Whatever the interleaving of readers, writers, closes and kills, and    *)
(* across the wrap of nread and nwrite, bytes leave a pipe in the order in *)
(* which they entered it, none lost, doubled or left from an older pipe.   *)
Streams == INSTANCE Stream WITH
  q <- [g \in Page |-> Contents(pipe[g])], Capacity <- PIPESIZE
InOrder == Streams!Spec

(* A system call that does not sleep in a pipe comes to its end.           *)
CallsEnd ==
  \A p \in Proc : (life[p] = "exit" \/ pc[p] \in {"fork", "dup", "pipealloc", "fileclose"})
    ~> (pc[p] = "user" /\ life[p] # "exit")
(* A page goes back to the allocator once no descriptor leads to its pipe. *)
PagesReturned ==
  \A g \in Page :
    pipe[g].alive /\ (\A p \in Proc, d \in FD :
        ofile[p][d] = NoFile \/ fpipe[ofile[p][d]] # g \/ type[ofile[p][d]] # "pipe")
      ~> ~pipe[g].alive
==============================================================================

---------------------------------- MODULE Vm ----------------------------------
(***************************************************************************)
(* Physical pages (kalloc.c) and the address spaces built from them (vm.c) *)
(* by fork(), exec() and sbrk(), and torn down by exec() and wait().       *)
(*                                                                         *)
(* Processes run at the same time, and any kalloc() may find the free list *)
(* empty.  A step of a call makes at most one of kalloc() and kfree()'s    *)
(* changes to the list, or two where the second only adds a page table.    *)
(* The rest of a call is a list of steps, as in Inode.                     *)
(*                                                                         *)
(* An address is a number below KERNBASE, a page has PGSIZE of them, and a *)
(* page table NPTENTRIES pages.  The contents of pages, and the bits of    *)
(* page table entries other than PTE_P, are left out.                      *)
(***************************************************************************)
EXTENDS Integers, Sequences, FiniteSets

CONSTANTS
  Proc, initproc,
  NFRAME,      \* number of physical pages
  PGSIZE, NPTENTRIES,
  UserPages,   \* pages below KERNBASE
  Programs,    \* what exec() loads: the end addresses of the segments
  Increments   \* the arguments of sbrk()

None == 0
Frame == 1 .. NFRAME
KERNBASE == UserPages * PGSIZE
Page == 0 .. UserPages - 1
Table == {v \div NPTENTRIES : v \in Page}

VARIABLES
  free,     \* kmem.freelist
  pgdir,    \* proc->pgdir
  new,      \* the address space that fork() or exec() is building
  kstack,   \* proc->kstack
  sz,       \* proc->sz
  state,
  cr3,      \* the page directory loaded where the process runs
  todo,     \* the steps left of each process's call
  leaked,   \* history: pages that nobody will free
  panicked

vars == <<free, pgdir, new, kstack, sz, state, cr3, todo, leaked, panicked>>

(* An address space: its directory, the tables for the kernel's part, the  *)
(* tables and pages of the user's part, and whether a page is missing      *)
(* because allocuvm() did not notice that it could not map it, or because  *)
(* growproc() gave up all pages and kept the size.                         *)
NoSpace == [dir |-> None, ktab |-> None, tab |-> [t \in Table |-> None],
            page |-> [v \in Page |-> None], hole |-> FALSE]

(* userinit(): the first process has one page.                             *)
Init ==
  /\ free = Frame \ (1 .. 5)
  /\ kstack = [p \in Proc |-> IF p = initproc THEN 1 ELSE None]
  /\ pgdir = [p \in Proc |->
       IF p = initproc
       THEN [NoSpace EXCEPT !.dir = 2, !.ktab = 3, !.tab[0] = 4, !.page[0] = 5]
       ELSE NoSpace]
  /\ new = [p \in Proc |-> NoSpace]
  /\ sz = [p \in Proc |-> IF p = initproc THEN PGSIZE ELSE 0]
  /\ state = [p \in Proc |-> IF p = initproc THEN "running" ELSE "unused"]
  /\ cr3 = [p \in Proc |-> IF p = initproc THEN 2 ELSE None]
  /\ todo = [p \in Proc |-> <<>>]
  /\ leaked = {}
  /\ panicked = "none"

-----------------------------------------------------------------------------
Least(set) == CHOOSE x \in set : \A y \in set : x <= y

(* The page kalloc() returns; which one does not matter.                   *)
kalloc == Least(free)

PagesUpTo(addr) == (addr + PGSIZE - 1) \div PGSIZE
PGROUNDUP(addr) == PagesUpTo(addr) * PGSIZE

(* Steps, and lists of them: n is a page, a size or the number of a        *)
(* segment, as the step needs.  Space "cur" is the process's own, "new" the  *)
(* one it builds.                                                          *)
Do(do) == [do |-> do, in |-> "cur", n |-> 0, frame |-> None,
           prog |-> <<>>, child |-> initproc]
Kfree(f) == [Do("kfree") EXCEPT !.frame = f]
Kfrees(frames) == [i \in DOMAIN frames |-> Kfree(frames[i])]

Present(f) == f # None
FramesOf(fn, n) == SelectSeq([i \in 1 .. n |-> fn[i - 1]], Present)

TablesForgotten(s) ==
  FramesOf(s.page, UserPages) \o SelectSeq(<<s.ktab, s.dir>>, Present)

(* freevm(): the pages from the bottom up, the tables, the directory.      *)
FramesIn(s) ==
  FramesOf(s.page, UserPages) \o FramesOf(s.tab, Cardinality(Table))
  \o SelectSeq(<<s.ktab, s.dir>>, Present)
freevm(s) == Kfrees(FramesIn(s))

RoundedDown(s, oldsz, newsz) ==
  LET Visit[v \in 0 .. UserPages + NPTENTRIES] ==
        IF v * PGSIZE >= oldsz THEN {}
        ELSE IF ~Present(s.tab[v \div NPTENTRIES]) THEN Visit[v + NPTENTRIES]
        ELSE {v} \cup Visit[v + 1]
  IN Visit[newsz \div PGSIZE]

(* The pages deallocuvm() visits on its way from newsz up to oldsz.  Where *)
(* a page table is missing it goes on NPTENTRIES pages further.            *)
Visited(s, oldsz, newsz) ==
  LET Visit[v \in 0 .. UserPages + NPTENTRIES] ==
        IF v * PGSIZE >= oldsz THEN {}
        ELSE IF ~Present(s.tab[v \div NPTENTRIES]) THEN Visit[v + NPTENTRIES]
        ELSE {v} \cup Visit[v + 1]
  IN Visit[PagesUpTo(newsz)]

(* deallocuvm(): the space without those pages, and the steps.             *)
Shrunk(s, oldsz, newsz) ==
  [s EXCEPT !.page = [v \in Page |->
     IF v \in Visited(s, oldsz, newsz) THEN None ELSE s.page[v]]]
deallocuvm(s, oldsz, newsz) ==
  Kfrees(FramesOf([v \in Page |->
    IF v \in Visited(s, oldsz, newsz) THEN s.page[v] ELSE None], UserPages))

FromRoundedDown(in, oldsz, newsz) ==
  [i \in 1 .. PagesUpTo(newsz) - oldsz \div PGSIZE |->
     [Do("page") EXCEPT !.in = in, !.n = oldsz \div PGSIZE + i - 1]]

(* allocuvm(): a page for each address from oldsz to newsz.                *)
allocuvm(in, oldsz, newsz) ==
  [i \in 1 .. PagesUpTo(newsz) - PagesUpTo(oldsz) |->
     [Do("page") EXCEPT !.in = in, !.n = PagesUpTo(oldsz) + i - 1]]

-----------------------------------------------------------------------------
Due(p, do) == todo[p] # <<>> /\ Head(todo[p]).do = do
At(p, do) == panicked = "none" /\ Due(p, do)
Idle(p) == panicked = "none" /\ state[p] = "running" /\ todo[p] = <<>>
Step(p) == Head(todo[p])
Then(p, steps) == todo' = [todo EXCEPT ![p] = steps \o Tail(@)]
Goto(p, steps) == todo' = [todo EXCEPT ![p] = steps]

Panic(msg) ==
  /\ panicked' = msg
  /\ UNCHANGED <<kstack, free, pgdir, new, sz, state, cr3, todo, leaked>>

(* The space a step works on, and the same step's change of it.            *)
Space(p) == IF Step(p).in = "cur" THEN pgdir[p] ELSE new[p]
SetSpace(p, s) ==
  IF Step(p).in = "cur"
  THEN pgdir' = [pgdir EXCEPT ![p] = s] /\ UNCHANGED new
  ELSE new' = [new EXCEPT ![p] = s] /\ UNCHANGED pgdir

DoKfree(p) ==
  /\ At(p, "kfree")
  /\ free' = free \cup {Step(p).frame}
  /\ Then(p, <<>>)
  /\ UNCHANGED <<kstack, pgdir, new, sz, state, cr3, leaked, panicked>>

(* setupkvm(), its first kalloc().  Without a page directory fork() and    *)
(* exec() have nothing to undo but the embryo and its stack.               *)
Undo(p) == SelectSeq(todo[p], LAMBDA s : s.do \in {"unfork", "embryo"})
GiveUp(p) == Goto(p, Undo(p))

SetupDir(p) ==
  /\ At(p, "setupkvm")
  /\ IF free = {}
     THEN GiveUp(p) /\ UNCHANGED <<free, new>>
     ELSE /\ free' = free \ {kalloc}
          /\ new' = [new EXCEPT ![p].dir = kalloc]
          /\ Then(p, <<>>)
  /\ UNCHANGED <<kstack, pgdir, sz, state, cr3, leaked, panicked>>

(* setupkvm(), mapping the kernel: when a table cannot be had it returns 0 *)
(* and forgets the directory.                                              *)
SetupTables(p) ==
  /\ At(p, "kmap")
  /\ IF free = {}
     THEN /\ leaked' = leaked \cup {new[p].dir}
          /\ new' = [new EXCEPT ![p] = NoSpace]
          /\ GiveUp(p)
          /\ UNCHANGED free
     ELSE /\ free' = free \ {kalloc}
          /\ new' = [new EXCEPT ![p].ktab = kalloc]
          /\ Then(p, <<>>)
          /\ UNCHANGED leaked
  /\ UNCHANGED <<kstack, pgdir, sz, state, cr3, panicked>>

(* What fork() and exec() do after `bad', and allocuvm() without memory.   *)
Bad(p) ==
  /\ Goto(p, freevm(new[p]) \o Undo(p))
  /\ new' = [new EXCEPT ![p] = NoSpace]
  /\ UNCHANGED pgdir

NewSize(p) == todo[p][Len(todo[p])].n

OutOfMemory(p) ==
  IF Step(p).in = "new"
  THEN Bad(p)
  ELSE /\ Goto(p, deallocuvm(pgdir[p], NewSize(p), sz[p]))
       /\ pgdir' = [pgdir EXCEPT ![p] = Shrunk(@, NewSize(p), sz[p])]
       /\ UNCHANGED new

(* The kalloc() of allocuvm() and copyuvm(); copyuvm() looks at the        *)
(* parent's page first.                                                    *)
AllocPage(p) ==
  /\ At(p, "page") \/ At(p, "copy")
  /\ IF Due(p, "copy") /\ ~Present(pgdir[p].tab[Step(p).n \div NPTENTRIES])
     THEN Panic("copyuvm: pte should exist")
     ELSE IF Due(p, "copy") /\ ~Present(pgdir[p].page[Step(p).n])
     THEN Panic("copyuvm: page not present")
     ELSE /\ IF free = {}
             THEN OutOfMemory(p) /\ UNCHANGED free
             ELSE /\ free' = free \ {kalloc}
                  /\ Then(p, <<[Step(p) EXCEPT !.frame = kalloc,
                                  !.do = IF @ = "copy" THEN "mapcopy" ELSE "map"]>>)
                  /\ UNCHANGED <<pgdir, new>>
          /\ UNCHANGED <<kstack, sz, state, cr3, leaked, panicked>>

(* mappages() for that page.  When the page table cannot be had, copyuvm() *)
(* gives up without freeing the page, and allocuvm() goes on.              *)
MapPage(p) ==
  LET step == Step(p)
      table == step.n \div NPTENTRIES
      Mapped == [Space(p) EXCEPT !.page[step.n] = step.frame]
  IN
  /\ At(p, "map") \/ At(p, "mapcopy")
  /\ CASE Present(Space(p).page[step.n]) -> Panic("remap")
       [] ~Present(Space(p).page[step.n]) /\ Present(Space(p).tab[table]) ->
            /\ SetSpace(p, Mapped)
            /\ Then(p, <<>>)
            /\ UNCHANGED <<kstack, free, sz, state, cr3, leaked, panicked>>
       [] ~Present(Space(p).page[step.n]) /\ ~Present(Space(p).tab[table]) /\ free # {} ->
            /\ free' = free \ {kalloc}
            /\ SetSpace(p, [Mapped EXCEPT !.tab[table] = kalloc])
            /\ Then(p, <<>>)
            /\ UNCHANGED <<kstack, sz, state, cr3, leaked, panicked>>
       [] OTHER ->
            /\ leaked' = leaked \cup {step.frame}
            /\ IF step.do = "mapcopy"
               THEN Bad(p)
               ELSE SetSpace(p, [Space(p) EXCEPT !.hole = TRUE]) /\ Then(p, <<>>)
            /\ UNCHANGED <<kstack, free, sz, state, cr3, panicked>>

-----------------------------------------------------------------------------
UpToKernbase(p, n) ==
  LET newsz == sz[p] + n IN
  /\ Idle(p)
  /\ IF n > 0
     THEN /\ newsz <= KERNBASE
          /\ Goto(p, allocuvm("cur", sz[p], newsz) \o <<[Do("grown") EXCEPT !.n = newsz]>>)
          /\ UNCHANGED pgdir
     ELSE /\ newsz >= 0
          /\ Goto(p, deallocuvm(pgdir[p], sz[p], newsz)
                     \o IF newsz = 0 THEN <<>> ELSE <<[Do("grown") EXCEPT !.n = newsz]>>)
          /\ pgdir' = [pgdir EXCEPT ![p] = [Shrunk(@, sz[p], newsz)
                                              EXCEPT !.hole = @ \/ newsz = 0]]
  /\ UNCHANGED <<kstack, free, new, sz, state, cr3, leaked, panicked>>

(* sys_sbrk() and growproc().  To shrink to nothing frees the pages, fails *)
(* and keeps the size; to shrink below nothing wraps around to a size that *)
(* is larger, and does nothing.                                            *)
Sbrk(p, n) ==
  LET newsz == sz[p] + n IN
  /\ Idle(p)
  /\ IF n > 0
     THEN /\ newsz < KERNBASE
          /\ Goto(p, allocuvm("cur", sz[p], newsz) \o <<[Do("grown") EXCEPT !.n = newsz]>>)
          /\ UNCHANGED pgdir
     ELSE /\ newsz >= 0
          /\ Goto(p, deallocuvm(pgdir[p], sz[p], newsz)
                     \o IF newsz = 0 THEN <<>> ELSE <<[Do("grown") EXCEPT !.n = newsz]>>)
          /\ pgdir' = [pgdir EXCEPT ![p] = [Shrunk(@, sz[p], newsz)
                                              EXCEPT !.hole = @ \/ newsz = 0]]
  /\ UNCHANGED <<kstack, free, new, sz, state, cr3, leaked, panicked>>

Grown(p) ==
  /\ At(p, "grown")
  /\ sz' = [sz EXCEPT ![p] = Step(p).n]
  /\ cr3' = [cr3 EXCEPT ![p] = pgdir[p].dir]
  /\ Then(p, <<>>)
  /\ UNCHANGED <<kstack, free, pgdir, new, state, leaked, panicked>>

(* fork(): allocproc() with its kernel stack, copyuvm(), then the child    *)
(* runs.  The steps `unfork' and `embryo' give back what it had, after a   *)
(* failure.                                                                *)
Fork(p, c) ==
  LET Child(do) == [Do(do) EXCEPT !.child = c] IN
  /\ Idle(p)
  /\ state[c] = "unused"
  /\ state' = [state EXCEPT ![c] = "embryo"]
  /\ Goto(p, <<Child("kstack"), Do("setupkvm"), Do("kmap")>>
             \o [i \in 1 .. PagesUpTo(sz[p]) |->
                   [Do("copy") EXCEPT !.in = "new", !.n = i - 1]]
             \o <<Child("forked"), Child("unfork"), Child("embryo")>>)
  /\ UNCHANGED <<free, pgdir, new, kstack, sz, cr3, leaked, panicked>>

AllocStack(p) ==
  /\ At(p, "kstack")
  /\ IF free = {}
     THEN Goto(p, <<[Step(p) EXCEPT !.do = "embryo"]>>) /\ UNCHANGED <<free, kstack>>
     ELSE /\ free' = free \ {kalloc}
          /\ kstack' = [kstack EXCEPT ![Step(p).child] = kalloc]
          /\ Then(p, <<>>)
  /\ UNCHANGED <<pgdir, new, sz, state, cr3, leaked, panicked>>

Forked(p) ==
  LET c == Step(p).child IN
  /\ At(p, "forked")
  /\ pgdir' = [pgdir EXCEPT ![c] = new[p]]
  /\ sz' = [sz EXCEPT ![c] = sz[p]]
  /\ state' = [state EXCEPT ![c] = "running"]
  /\ cr3' = [cr3 EXCEPT ![c] = new[p].dir]
  /\ new' = [new EXCEPT ![p] = NoSpace]
  /\ Goto(p, <<>>)
  /\ UNCHANGED <<kstack, free, leaked, panicked>>

Unfork(p) ==
  LET c == Step(p).child IN
  /\ At(p, "unfork")
  /\ free' = free \cup {kstack[c]}
  /\ kstack' = [kstack EXCEPT ![c] = None]
  /\ Then(p, <<>>)
  /\ UNCHANGED <<pgdir, new, sz, state, cr3, leaked, panicked>>

FreeEmbryo(p) ==
  /\ At(p, "embryo")
  /\ state' = [state EXCEPT ![Step(p).child] = "unused"]
  /\ Then(p, <<>>)
  /\ UNCHANGED <<free, pgdir, new, kstack, sz, cr3, leaked, panicked>>

-----------------------------------------------------------------------------
(* exec(): the size after the first i segments of a program.               *)
SizeAfter(prog, i) ==
  LET ends == {prog[j] : j \in 1 .. i} \cup {0}
  IN CHOOSE e \in ends : \A d \in ends : d <= e

ExecStep(do, prog, n) == [Do(do) EXCEPT !.in = "new", !.prog = prog, !.n = n]

Exec(p, prog) ==
  /\ Idle(p)
  /\ Goto(p, <<Do("setupkvm"), Do("kmap"), ExecStep("check", prog, 0)>>)
  /\ UNCHANGED <<kstack, free, pgdir, new, sz, state, cr3, leaked, panicked>>

(* The permission bits, and a header that is cut short.                    *)
ExecCheck(p) ==
  /\ At(p, "check")
  /\ \/ Bad(p)
     \/ Then(p, <<ExecStep("segment", Step(p).prog, 1)>>) /\ UNCHANGED <<pgdir, new>>
  /\ UNCHANGED <<kstack, free, sz, state, cr3, leaked, panicked>>

(* Memory for segment n, or for the two pages of the stack after the last. *)
ExecAlloc(p) ==
  LET prog == Step(p).prog
      n == Step(p).n
      last == n > Len(prog)
      oldsz == IF last THEN PGROUNDUP(SizeAfter(prog, n - 1)) ELSE SizeAfter(prog, n - 1)
      newsz == IF last THEN oldsz + 2 * PGSIZE ELSE SizeAfter(prog, n)
  IN
  /\ At(p, "segment")
  /\ IF newsz >= KERNBASE \/ newsz = 0
     THEN Bad(p)
     ELSE /\ Then(p, allocuvm("new", oldsz, newsz)
                     \o IF last THEN <<ExecStep("stack", prog, newsz)>>
                        ELSE <<ExecStep("load", prog, n)>>)
          /\ UNCHANGED <<pgdir, new>>
  /\ UNCHANGED <<kstack, free, sz, state, cr3, leaked, panicked>>

(* loaduvm(): the read may fall short.                                     *)
ExecLoad(p) ==
  LET prog == Step(p).prog
      n == Step(p).n
      pages == PagesUpTo(SizeAfter(prog, n - 1)) .. PagesUpTo(SizeAfter(prog, n)) - 1
  IN
  /\ At(p, "load")
  /\ IF \E v \in pages : ~Present(new[p].tab[v \div NPTENTRIES])
     THEN Panic("loaduvm: address should exist")
     ELSE /\ \/ Bad(p)
             \/ Then(p, <<ExecStep("segment", prog, n + 1)>>) /\ UNCHANGED <<pgdir, new>>
          /\ UNCHANGED <<kstack, free, sz, state, cr3, leaked, panicked>>

(* clearpteu() on the first of the stack's pages, copyout() of the         *)
(* arguments to the second, which fails when they do not fit, and the      *)
(* commitment: the new directory is loaded before the old one is freed.    *)
ExecStack(p) ==
  LET guard == Step(p).n \div PGSIZE - 2 IN
  /\ At(p, "stack")
  /\ IF ~Present(new[p].tab[guard \div NPTENTRIES])
     THEN Panic("clearpteu")
     ELSE /\ \/ Bad(p)
             \/ /\ Present(new[p].page[guard + 1])
                /\ Then(p, <<[Step(p) EXCEPT !.do = "commit"]>>)
                /\ UNCHANGED <<pgdir, new>>
          /\ UNCHANGED <<kstack, free, sz, state, cr3, leaked, panicked>>

NotSwitched(p) ==
  /\ At(p, "commit")
  /\ pgdir' = [pgdir EXCEPT ![p] = new[p]]
  /\ sz' = [sz EXCEPT ![p] = Step(p).n]
  /\ new' = [new EXCEPT ![p] = NoSpace]
  /\ Then(p, freevm(pgdir[p]))
  /\ UNCHANGED <<kstack, free, state, cr3, leaked, panicked>>

ExecCommit(p) ==
  /\ At(p, "commit")
  /\ pgdir' = [pgdir EXCEPT ![p] = new[p]]
  /\ sz' = [sz EXCEPT ![p] = Step(p).n]
  /\ cr3' = [cr3 EXCEPT ![p] = new[p].dir]
  /\ new' = [new EXCEPT ![p] = NoSpace]
  /\ Then(p, freevm(pgdir[p]))
  /\ UNCHANGED <<kstack, free, state, leaked, panicked>>

-----------------------------------------------------------------------------
(* exit() leaves the address space to wait(), which frees it.              *)
Exit(p) ==
  /\ Idle(p) /\ p # initproc
  /\ state' = [state EXCEPT ![p] = "zombie"]
  /\ cr3' = [cr3 EXCEPT ![p] = None]
  /\ UNCHANGED <<kstack, free, pgdir, new, sz, todo, leaked, panicked>>

Wait(p, z) ==
  /\ Idle(p)
  /\ state[z] = "zombie"
  /\ state' = [state EXCEPT ![z] = "unused"]
  /\ Goto(p, <<Kfree(kstack[z])>> \o freevm(pgdir[z]))
  /\ kstack' = [kstack EXCEPT ![z] = None]
  /\ pgdir' = [pgdir EXCEPT ![z] = NoSpace]
  /\ sz' = [sz EXCEPT ![z] = 0]
  /\ UNCHANGED <<free, new, cr3, leaked, panicked>>

Next ==
  \E p \in Proc :
    \/ \E n \in Increments : Sbrk(p, n)
    \/ \E c \in Proc : Fork(p, c) \/ Wait(p, c)
    \/ \E prog \in Programs : Exec(p, prog)
    \/ Exit(p)
    \/ DoKfree(p) \/ SetupDir(p) \/ SetupTables(p) \/ AllocPage(p) \/ MapPage(p)
    \/ Grown(p) \/ AllocStack(p) \/ Forked(p) \/ Unfork(p) \/ FreeEmbryo(p)
    \/ ExecCheck(p) \/ ExecAlloc(p) \/ ExecLoad(p) \/ ExecStack(p) \/ ExecCommit(p)

Spec == Init /\ [][Next]_vars

-----------------------------------------------------------------------------
Spaces == [dir: Frame \cup {None}, ktab: Frame \cup {None},
           tab: [Table -> Frame \cup {None}], page: [Page -> Frame \cup {None}],
           hole: BOOLEAN]

(* The variables have the types of the data they stand for.                *)
TypeOK ==
  /\ free \subseteq Frame /\ leaked \subseteq Frame
  /\ pgdir \in [Proc -> Spaces] /\ new \in [Proc -> Spaces]
  /\ kstack \in [Proc -> Frame \cup {None}]
  /\ sz \in [Proc -> 0 .. KERNBASE - 1]
  /\ state \in [Proc -> {"unused", "embryo", "running", "zombie"}]
  /\ cr3 \in [Proc -> Frame \cup {None}]
  /\ panicked \in {"none", "remap", "copyuvm: pte should exist",
                   "copyuvm: page not present", "loaduvm: address should exist",
                   "clearpteu"}

(* The places that hold a page, each with the page: in an address space,   *)
(* or in the hands of a call.                                              *)
Entries(s) ==
  {<<"page", v, s.page[v]>> : v \in Page} \cup {<<"tab", t, s.tab[t]>> : t \in Table}
  \cup {<<"ktab", 0, s.ktab>>, <<"dir", 0, s.dir>>}
InCall(p) == {<<"step", i, todo[p][i].frame>> : i \in DOMAIN todo[p]}
Held ==
  UNION {{<<p, "cur", e>> : e \in Entries(pgdir[p]) \cup {<<"kstack", 0, kstack[p]>>}}
         \cup {<<p, "new", e>> : e \in Entries(new[p]) \cup InCall(p)} : p \in Proc}

(* Every page is in exactly one place: no page is freed twice, mapped in   *)
(* two address spaces or at two addresses, used as a page and as a table,  *)
(* or lost without being accounted for, whichever kalloc() fails.          *)
FrameExact ==
  LET held == {h \in Held : Present(h[3][3])} IN
  /\ Frame = free \cup leaked \cup {h[3][3] : h \in held}
  /\ Cardinality(Frame) = Cardinality(free) + Cardinality(leaked) + Cardinality(held)

(* A process that is not in a call has a page at each address below its    *)
(* size and at no other, unless allocuvm() ignored a failure of mappages() *)
(* or growproc() failed to shrink to nothing.                              *)
SizeExact ==
  \A p \in Proc :
    state[p] = "running" /\ todo[p] = <<>> =>
      \A v \in Page :
        /\ Present(pgdir[p].page[v]) => v * PGSIZE < sz[p]
        /\ v * PGSIZE < sz[p] /\ ~pgdir[p].hole => Present(pgdir[p].page[v])

(* The page directory a running process has loaded is never one that has   *)
(* been freed, or is about to be: exec() switches before it frees.         *)
LoadedLive ==
  \A p \in Proc :
    state[p] = "running" => cr3[p] = pgdir[p].dir /\ cr3[p] \notin free

(* Each of the panics of vm.c takes such a missing page.                   *)
NoVmPanic ==
  panicked # "none" =>
    panicked # "remap" /\ \E p \in Proc : pgdir[p].hole \/ new[p].hole

(* Memory is exact, whichever kalloc() fails: every page is in one place *)
(* or lost on one of the paths known to lose it, sizes agree with page   *)
(* tables, no loaded directory is freed, and vm.c panics only after a    *)
(* mapping that failed unnoticed (kalloc.c:60-95, vm.c:50-345,           *)
(* exec.c:20-140).                                                       *)
PagesExact == TypeOK /\ FrameExact /\ SizeExact /\ LoadedLive /\ NoVmPanic
=============================================================================

-------------------------------- MODULE Inode --------------------------------
(***************************************************************************)
(* The inode cache of fs.c and the system calls of sysfile.c that walk and *)
(* change the directory tree.                                              *)
(*                                                                         *)
(* What is left of a process's call is a list of steps.  Each one names    *)
(* what it does, the cache entries it works on and, for some, a name or a  *)
(* path; it may put further steps in its place.  A section under           *)
(* icache.lock is one step, and so is what a process does to inodes it     *)
(* has locked.  ilock() sleeps while the inode is busy: its step waits.    *)
(*                                                                         *)
(* The disk is what bread() shows, with the changes of running             *)
(* transactions (Log tells what of it survives a crash).  A directory is a *)
(* function from names to inode numbers, and the contents of a file are    *)
(* left out (Blocks has them).                                             *)
(***************************************************************************)
EXTENDS Naturals, Sequences, FiniteSets

CONSTANTS
  Proc,
  Name,      \* file names, other than "." and ".."
  Requests,  \* the system calls each process makes, as [call, path, new]
  NINODES,   \* inodes on the disk
  NINODE,    \* entries of the inode cache
  MaxLeak    \* bound: references lost by chown, chgrp and chmod

Entry == Name \cup {".", ".."}

ASSUME InodeAssumption ==
  /\ NINODES \in Nat \ {0}
  /\ NINODE \in Nat \ {0}
  /\ MaxLeak \in Nat
  /\ Name \cap {".", ".."} = {}
  /\ \A p \in Proc : \A r \in Requests[p] : \A path \in {r.path, r.new} :
       path.abs \in BOOLEAN /\ path.elems \in Seq(Entry)

VARIABLES
  disk,      \* the inodes on disk
  icache,    \* icache.inode[]
  todo,      \* the steps left of each process's system call
  cwd,       \* proc->cwd
  ofile,     \* the inode of a process's open file
  leaked,    \* history: references nobody has and nobody will drop
  panicked

vars == <<disk, icache, todo, cwd, ofile, leaked, panicked>>

ROOTINO == 1
Inum == 1 .. NINODES
Slot == 1 .. NINODE
None == 0

FreeInode == [type |-> "none", nlink |-> 0, ents |-> [n \in Entry |-> None]]
FreeSlot == [inum |-> None, ref |-> 0, busy |-> FALSE, valid |-> FALSE,
             type |-> "none", nlink |-> 0]

Dots(dir, parent) == [n \in Entry |->
  CASE n = "." -> dir [] n = ".." -> parent [] OTHER -> None]

(* A fresh image: every process is in the root directory.                  *)
Init ==
  /\ disk = [i \in Inum |->
       IF i = ROOTINO
       THEN [type |-> "dir", nlink |-> 1, ents |-> Dots(ROOTINO, ROOTINO)]
       ELSE FreeInode]
  /\ icache = [s \in Slot |->
       IF s = 1 THEN [FreeSlot EXCEPT !.inum = ROOTINO, !.ref = Cardinality(Proc)]
                ELSE FreeSlot]
  /\ todo = [p \in Proc |-> <<>>]
  /\ cwd = [p \in Proc |-> 1]
  /\ ofile = [p \in Proc |-> None]
  /\ leaked = [s \in Slot |-> 0]
  /\ panicked = "none"

-----------------------------------------------------------------------------
(* Steps.                                                                  *)

Step(do, slots, arg) == [do |-> do, on |-> slots, arg |-> arg]
Nothing == [name |-> ""]
On(do, s) == Step(do, <<s>>, Nothing)

(* Faulty variant: the reference is kept.                                  *)
UnlockOnly(s) == <<On("iunlock", s)>>

iunlockput(s) == <<On("iunlock", s), On("iput", s)>>

Due(p, do) == todo[p] # <<>> /\ Head(todo[p]).do = do
At(p, do) == panicked = "none" /\ Due(p, do)
Idle(p) == panicked = "none" /\ todo[p] = <<>>
S(p) == Head(todo[p]).on[1]
S2(p) == Head(todo[p]).on[2]
Arg(p) == Head(todo[p]).arg

(* The step at the head of the list is done, with these to follow.         *)
Then(p, steps) == todo' = [todo EXCEPT ![p] = steps \o Tail(@)]

Panic(msg) ==
  /\ panicked' = msg
  /\ UNCHANGED <<disk, icache, todo, cwd, ofile, leaked>>

-----------------------------------------------------------------------------
(* The inode cache.                                                        *)

Least(set) == CHOOSE x \in set : \A y \in set : x <= y

(* Faulty variant: an inode is found only once it is valid.                *)
CachedValid(i) ==
  {s \in Slot : icache[s].ref > 0 /\ icache[s].valid /\ icache[s].inum = i}

Cached(i) == {s \in Slot : icache[s].ref > 0 /\ icache[s].inum = i}
Unused == {s \in Slot : icache[s].ref = 0}

(* iget() finds the inode's entry, or takes the first unused one, and      *)
(* counts a reference.  Get is the entry and Got the cache after it.       *)
Get(i) == Least(IF Cached(i) # {} THEN Cached(i) ELSE Unused)
Got(i) ==
  [icache EXCEPT ![Get(i)] =
     IF Cached(i) # {} THEN [@ EXCEPT !.ref = @ + 1]
     ELSE [FreeSlot EXCEPT !.inum = i, !.ref = 1]]
CannotGet(i) == Cached(i) = {} /\ Unused = {}

(* The entry with a reference less.  What an unused entry holds does not   *)
(* matter: iget() overwrites it.                                           *)
Dropped(slot) == IF slot.ref = 1 THEN FreeSlot ELSE [slot EXCEPT !.ref = @ - 1]

(* ilock(): wait for the entry and mark it busy; read the inode unless the *)
(* entry is valid.                                                         *)
Ilock(p) ==
  LET s == S(p) IN
  /\ At(p, "ilock")
  /\ IF icache[s].ref < 1
     THEN Panic("ilock")
     ELSE /\ ~icache[s].busy
          /\ icache' = [icache EXCEPT ![s].busy = TRUE]
          /\ Then(p, IF icache[s].valid THEN <<>> ELSE <<On("iload", s)>>)
          /\ UNCHANGED <<disk, cwd, ofile, leaked, panicked>>

Iload(p) ==
  LET s == S(p)
      d == disk[icache[s].inum]
  IN
  /\ At(p, "iload")
  /\ IF d.type = "none"
     THEN Panic("ilock: no type")
     ELSE /\ icache' = [icache EXCEPT ![s].valid = TRUE, ![s].type = d.type,
                                      ![s].nlink = d.nlink]
          /\ Then(p, <<>>)
          /\ UNCHANGED <<disk, cwd, ofile, leaked, panicked>>

Iunlock(p) ==
  LET s == S(p) IN
  /\ At(p, "iunlock")
  /\ IF ~icache[s].busy \/ icache[s].ref < 1
     THEN Panic("iunlock")
     ELSE /\ icache' = [icache EXCEPT ![s].busy = FALSE]
          /\ Then(p, <<>>)
          /\ UNCHANGED <<disk, cwd, ofile, leaked, panicked>>


(* Faulty variant: the count is tested after it is lowered.                *)
LastTestedLate(s) ==
  icache[s].ref = 0 /\ icache[s].valid /\ icache[s].nlink = 0

(* The last reference to an inode that has no links frees the inode.       *)
LastOfUnlinked(s) ==
  icache[s].ref = 1 /\ icache[s].valid /\ icache[s].nlink = 0

Iput(p) ==
  LET s == S(p) IN
  /\ At(p, "iput")
  /\ IF LastOfUnlinked(s) /\ icache[s].busy
     THEN Panic("iput busy")
     ELSE /\ IF LastOfUnlinked(s)
             THEN /\ icache' = [icache EXCEPT ![s].busy = TRUE]
                  /\ Then(p, <<On("itrunc", s)>>)
             ELSE /\ icache' = [icache EXCEPT ![s] = Dropped(@)]
                  /\ Then(p, <<>>)
          /\ UNCHANGED <<disk, cwd, ofile, leaked, panicked>>

(* The lock is given up to free the inode on disk, with its contents.      *)
Itrunc(p) ==
  LET s == S(p) IN
  /\ At(p, "itrunc")
  /\ disk' = [disk EXCEPT ![icache[s].inum] = FreeInode]
  /\ icache' = [icache EXCEPT ![s].type = "none"]
  /\ Then(p, <<On("ifree", s)>>)
  /\ UNCHANGED <<cwd, ofile, leaked, panicked>>

(* Faulty variant: the freed inode stays valid in the cache.               *)
FlagsKept(slot) == [slot EXCEPT !.busy = FALSE]

FlagsCleared(slot) ==
  [slot EXCEPT !.busy = FALSE, !.valid = FALSE, !.type = "none", !.nlink = 0]

Ifree(p) ==
  LET s == S(p) IN
  /\ At(p, "ifree")
  /\ icache' = [icache EXCEPT ![s] = Dropped(FlagsCleared(@))]
  /\ Then(p, <<>>)
  /\ UNCHANGED <<disk, cwd, ofile, leaked, panicked>>

-----------------------------------------------------------------------------
(* Path lookup.                                                            *)

(* The rest of a walk is a record: the elements left, whether namex() is   *)
(* to stop at the parent, the step that takes the inode it finds, locked,  *)
(* with its argument.  link() keeps its first inode during its second      *)
(* walk, and undoes the link it has counted when that fails.               *)
UndoLink(s) == <<On("ilock", s), On("droplink", s)>> \o iunlockput(s)
NotFound(keep) == IF keep = <<>> THEN <<>> ELSE UndoLink(keep[1])
Found(s, keep, walk) == <<On("ilock", s), Step(walk.then, <<s>> \o keep, walk.arg)>>

(* namex() goes on from inode s.                                           *)
WalkFrom(s, keep, walk) ==
  IF walk.elems # <<>>
  THEN <<On("ilock", s), Step("lookup", <<s>> \o keep, walk)>>
  ELSE IF walk.parent THEN <<On("iput", s)>> \o NotFound(keep)
  ELSE Found(s, keep, walk)

Keep(p) == Tail(Head(todo[p]).on)

Namex(p) ==
  LET abs == Arg(p).abs
      s == IF abs THEN Get(ROOTINO) ELSE cwd[p]
  IN
  /\ At(p, "namex")
  /\ IF abs /\ CannotGet(ROOTINO)
     THEN Panic("iget: no inodes")
     ELSE /\ icache' = IF abs THEN Got(ROOTINO)
                       ELSE [icache EXCEPT ![s].ref = @ + 1]
          /\ Then(p, WalkFrom(s, Head(todo[p]).on, Arg(p)))
          /\ UNCHANGED <<disk, cwd, ofile, leaked, panicked>>

(* The inode number a directory has for a name.                            *)
dirlookup(s, name) == disk[icache[s].inum].ents[name]

(* One element of the path, with the inode locked.                         *)
Lookup(p) ==
  LET s == S(p)
      walk == Arg(p)
      last == walk.parent /\ Len(walk.elems) = 1
      next == dirlookup(s, Head(walk.elems))
  IN
  /\ At(p, "lookup")
  /\ IF icache[s].type # "dir" \/ (~last /\ next = None)
     THEN /\ Then(p, iunlockput(s) \o NotFound(Keep(p)))
          /\ UNCHANGED <<disk, icache, cwd, ofile, leaked, panicked>>
     ELSE IF last
     THEN /\ Then(p, <<On("iunlock", s)>> \o Found(s, Keep(p), walk))
          /\ UNCHANGED <<disk, icache, cwd, ofile, leaked, panicked>>
     ELSE IF CannotGet(next)
     THEN Panic("iget: no inodes")
     ELSE /\ icache' = Got(next)
          /\ Then(p, iunlockput(s) \o
                     WalkFrom(Get(next), Keep(p), [walk EXCEPT !.elems = Tail(@)]))
          /\ UNCHANGED <<disk, cwd, ofile, leaked, panicked>>

(* A walk along the path, to the inode it names or to that one's parent.   *)
namei(path, then, arg) ==
  [abs |-> path.abs, elems |-> path.elems, parent |-> FALSE, then |-> then, arg |-> arg]
nameiparent(path, then, arg) == [namei(path, then, arg) EXCEPT !.parent = TRUE]
LastElem(path) == IF path.elems = <<>> THEN "" ELSE path.elems[Len(path.elems)]

(* A call begins with a walk.                                              *)
Begin(p, walk) ==
  /\ Idle(p)
  /\ todo' = [todo EXCEPT ![p] = <<Step("namex", <<>>, walk)>>]
  /\ UNCHANGED <<disk, icache, cwd, ofile, leaked, panicked>>

(* iupdate() after a change of nlink: the copy on disk follows.            *)
SetLinks(s, n) ==
  /\ icache' = [icache EXCEPT ![s].nlink = n]
  /\ disk' = [disk EXCEPT ![icache[s].inum].nlink = n]

-----------------------------------------------------------------------------
(* open() and close().                                                     *)

SysOpen(p, r) ==
  r.call = "open" /\ Begin(p, namei(r.path, "openfd", Nothing))

(* A file and a descriptor are there, or are not; a directory is not       *)
(* opened for writing.                                                     *)
OpenFd(p) ==
  LET s == S(p) IN
  /\ At(p, "openfd")
  /\ \/ /\ ofile[p] = None
        /\ ofile' = [ofile EXCEPT ![p] = s]
        /\ Then(p, <<On("iunlock", s)>>)
     \/ /\ Then(p, iunlockput(s))
        /\ UNCHANGED ofile
  /\ UNCHANGED <<disk, icache, cwd, leaked, panicked>>

SysClose(p) ==
  /\ Idle(p)
  /\ ofile[p] # None
  /\ todo' = [todo EXCEPT ![p] = <<On("iput", ofile[p])>>]
  /\ ofile' = [ofile EXCEPT ![p] = None]
  /\ UNCHANGED <<disk, icache, cwd, leaked, panicked>>

-----------------------------------------------------------------------------
(* create(), for open() with O_CREATE, mkdir() and mknod().                *)

TypeMade == [create |-> "file", mkdir |-> "dir", mknod |-> "dev"]

SysCreate(p, r) ==
  /\ r.call \in DOMAIN TypeMade
  /\ Begin(p, nameiparent(r.path, "create",
                          [type |-> TypeMade[r.call], name |-> LastElem(r.path)]))

(* The name is there already, or an inode is allocated on the disk.        *)
CreateLook(p) ==
  LET dp == S(p)
      i == dirlookup(dp, Arg(p).name)
      Frees == {j \in Inum : disk[j].type = "none"}
  IN
  /\ At(p, "create")
  /\ IF icache[dp].type # "dir"
     THEN Panic("dirlookup not DIR")
     ELSE IF i # None
     THEN IF CannotGet(i)
          THEN Panic("iget: no inodes")
          ELSE /\ icache' = Got(i)
               /\ Then(p, iunlockput(dp) \o
                          <<On("ilock", Get(i)), Step("old", <<Get(i)>>, Arg(p))>>)
               /\ UNCHANGED <<disk, cwd, ofile, leaked, panicked>>
     ELSE IF Frees = {}
     THEN Panic("ialloc: no inodes")
     ELSE /\ disk' = [disk EXCEPT ![Least(Frees)] =
                        [FreeInode EXCEPT !.type = Arg(p).type]]
          /\ Then(p, <<Step("ialloc", <<dp>>, [name |-> Arg(p).name, inum |-> Least(Frees)])>>)
          /\ UNCHANGED <<icache, cwd, ofile, leaked, panicked>>

(* ialloc() ends with iget(): the new inode's entry may still be there,    *)
(* busy with the death of the inode's former self.                         *)
CreateGet(p) ==
  LET i == Arg(p).inum IN
  /\ At(p, "ialloc")
  /\ IF CannotGet(i)
     THEN Panic("iget: no inodes")
     ELSE /\ icache' = Got(i)
          /\ Then(p, <<On("ilock", Get(i)),
                       Step("new", <<S(p), Get(i)>>, [name |-> Arg(p).name])>>)
          /\ UNCHANGED <<disk, cwd, ofile, leaked, panicked>>

(* What open(), and not mkdir() and mknod(), does with the new inode.      *)
Created(s, type) == IF type = "file" THEN <<On("openfd", s)>> ELSE iunlockput(s)

(* Faulty variant: an inode of the wrong type is put and stays locked.     *)
CreateOldLocked(p) ==
  LET s == S(p) IN
  /\ At(p, "old")
  /\ Then(p, IF Arg(p).type = "file" /\ icache[s].type = "file"
             THEN Created(s, "file") ELSE <<On("iput", s)>>)
  /\ UNCHANGED <<disk, icache, cwd, ofile, leaked, panicked>>

CreateOld(p) ==
  LET s == S(p) IN
  /\ At(p, "old")
  /\ Then(p, IF Arg(p).type = "file" /\ icache[s].type = "file"
             THEN Created(s, "file") ELSE iunlockput(s))
  /\ UNCHANGED <<disk, icache, cwd, ofile, leaked, panicked>>

(* One link; a directory gets its dots and counts as a link to the parent; *)
(* and the parent's entry for the name.                                    *)
CreateNew(p) ==
  LET dp == S(p)  s == S2(p)
      i == icache[s].inum  parent == icache[dp].inum
      isdir == icache[s].type = "dir"
  IN
  /\ At(p, "new")
  /\ icache' = [icache EXCEPT ![s].nlink = 1,
                              ![dp].nlink = IF isdir THEN @ + 1 ELSE @]
  /\ disk' = [disk EXCEPT
       ![i].nlink = 1,
       ![i].ents = IF isdir THEN Dots(i, parent) ELSE @,
       ![parent].nlink = IF isdir THEN @ + 1 ELSE @,
       ![parent].ents[Arg(p).name] = i]
  /\ Then(p, iunlockput(dp) \o Created(s, icache[s].type))
  /\ UNCHANGED <<cwd, ofile, leaked, panicked>>

-----------------------------------------------------------------------------
(* unlink().                                                               *)

SysUnlink(p, r) ==
  /\ r.call = "unlink"
  /\ Begin(p, nameiparent(r.path, "unlink", [name |-> LastElem(r.path)]))

UnlinkLook(p) ==
  LET dp == S(p)
      i == dirlookup(dp, Arg(p).name)
  IN
  /\ At(p, "unlink")
  /\ IF Arg(p).name \in {".", ".."}
     THEN /\ Then(p, iunlockput(dp))
          /\ UNCHANGED <<disk, icache, cwd, ofile, leaked, panicked>>
     ELSE IF icache[dp].type # "dir"
     THEN Panic("dirlookup not DIR")
     ELSE IF i = None
     THEN /\ Then(p, iunlockput(dp))
          /\ UNCHANGED <<disk, icache, cwd, ofile, leaked, panicked>>
     ELSE IF CannotGet(i)
     THEN Panic("iget: no inodes")
     ELSE /\ icache' = Got(i)
          /\ Then(p, <<On("ilock", Get(i)), Step("remove", <<dp, Get(i)>>, Arg(p))>>)
          /\ UNCHANGED <<disk, cwd, ofile, leaked, panicked>>

isdirempty(i) == \A n \in Name : disk[i].ents[n] = None

(* Both inodes are locked: the entry goes, and with a directory the link   *)
(* its ".." was; the inode's own link goes after the parent is released.   *)
UnlinkRemove(p) ==
  LET dp == S(p)  s == S2(p)
      parent == icache[dp].inum
      isdir == icache[s].type = "dir"
  IN
  /\ At(p, "remove")
  /\ IF icache[s].nlink < 1
     THEN Panic("unlink: nlink < 1")
     ELSE IF isdir /\ ~isdirempty(icache[s].inum)
     THEN /\ Then(p, iunlockput(s) \o iunlockput(dp))
          /\ UNCHANGED <<disk, icache, cwd, ofile, leaked, panicked>>
     ELSE /\ icache' = [icache EXCEPT ![dp].nlink = IF isdir THEN @ - 1 ELSE @]
          /\ disk' = [disk EXCEPT ![parent].ents[Arg(p).name] = None,
                                  ![parent].nlink = IF isdir THEN @ - 1 ELSE @]
          /\ Then(p, iunlockput(dp) \o <<On("droplink", s)>> \o iunlockput(s))
          /\ UNCHANGED <<cwd, ofile, leaked, panicked>>

(* ip->nlink--, also where link() fails.                                   *)
DropLink(p) ==
  /\ At(p, "droplink")
  /\ SetLinks(S(p), icache[S(p)].nlink - 1)
  /\ Then(p, <<>>)
  /\ UNCHANGED <<cwd, ofile, leaked, panicked>>

-----------------------------------------------------------------------------
(* link().                                                                 *)

SysLink(p, r) ==
  r.call = "link" /\ Begin(p, namei(r.path, "addlink", r.new))

(* Faulty variant: the link is not counted.                                *)
AddLinkLater(p) ==
  LET s == S(p) IN
  /\ At(p, "addlink")
  /\ Then(p, IF icache[s].type = "dir" THEN iunlockput(s)
             ELSE <<On("iunlock", s),
                    Step("namex", <<s>>,
                         nameiparent(Arg(p), "linkentry", [name |-> LastElem(Arg(p))]))>>)
  /\ UNCHANGED <<disk, icache, cwd, ofile, leaked, panicked>>

(* The link is counted before the entry is made.                           *)
AddLink(p) ==
  LET s == S(p) IN
  /\ At(p, "addlink")
  /\ IF icache[s].type = "dir"
     THEN /\ Then(p, iunlockput(s))
          /\ UNCHANGED <<disk, icache>>
     ELSE /\ SetLinks(s, icache[s].nlink + 1)
          /\ Then(p, <<On("iunlock", s),
                       Step("namex", <<s>>, nameiparent(Arg(p), "linkentry", [name |-> LastElem(Arg(p))]))>>)
  /\ UNCHANGED <<cwd, ofile, leaked, panicked>>

(* dirlink() fails when the name is there; it drops what it looked up.     *)
LinkEntry(p) ==
  LET dp == S(p)  s == S2(p)
      parent == icache[dp].inum
      i == dirlookup(dp, Arg(p).name)
  IN
  /\ At(p, "linkentry")
  /\ IF icache[dp].type # "dir"
     THEN Panic("dirlookup not DIR")
     ELSE IF i = None
     THEN /\ disk' = [disk EXCEPT ![parent].ents[Arg(p).name] = icache[s].inum]
          /\ Then(p, iunlockput(dp) \o <<On("iput", s)>>)
          /\ UNCHANGED <<icache, cwd, ofile, leaked, panicked>>
     ELSE IF CannotGet(i)
     THEN Panic("iget: no inodes")
     ELSE /\ icache' = Got(i)
          /\ Then(p, <<On("iput", Get(i))>> \o iunlockput(dp) \o UndoLink(s))
          /\ UNCHANGED <<disk, cwd, ofile, leaked, panicked>>

-----------------------------------------------------------------------------
(* chdir(), and chown(), chgrp() and chmod().                              *)

SysChdir(p, r) ==
  r.call = "chdir" /\ Begin(p, namei(r.path, "chdir", Nothing))

ChdirCheck(p) ==
  LET s == S(p) IN
  /\ At(p, "chdir")
  /\ Then(p, IF icache[s].type # "dir" THEN iunlockput(s)
             ELSE <<On("iunlock", s), On("iput", cwd[p]), On("setcwd", s)>>)
  /\ UNCHANGED <<disk, icache, cwd, ofile, leaked, panicked>>

ChdirSet(p) ==
  /\ At(p, "setcwd")
  /\ cwd' = [cwd EXCEPT ![p] = S(p)]
  /\ Then(p, <<>>)
  /\ UNCHANGED <<disk, icache, ofile, leaked, panicked>>

SysChown(p, r) ==
  /\ r.call = "chown"
  /\ \A s \in Slot : leaked[s] < MaxLeak
  /\ Begin(p, namei(r.path, "chown", Nothing))

(* The owner, group or mode is written; the reference is never given back. *)
ChownSet(p) ==
  LET s == S(p) IN
  /\ At(p, "chown")
  /\ leaked' = [leaked EXCEPT ![s] = @ + 1]
  /\ Then(p, <<On("iunlock", s)>>)
  /\ UNCHANGED <<disk, icache, cwd, ofile, panicked>>

-----------------------------------------------------------------------------
CacheStep(p) == Ilock(p) \/ Iload(p) \/ Iunlock(p) \/ Iput(p) \/ Itrunc(p) \/ Ifree(p)
PathStep(p) == Namex(p) \/ Lookup(p)
CreateStep(p) == CreateLook(p) \/ CreateGet(p) \/ CreateOld(p) \/ CreateNew(p)
UnlinkStep(p) == UnlinkLook(p) \/ UnlinkRemove(p) \/ DropLink(p)
LinkStep(p) == AddLink(p) \/ LinkEntry(p)

(* What a process does inside a system call.                               *)
KernelStep(p) ==
  CacheStep(p) \/ PathStep(p) \/ OpenFd(p) \/ CreateStep(p) \/ UnlinkStep(p)
    \/ LinkStep(p) \/ ChdirCheck(p) \/ ChdirSet(p) \/ ChownSet(p)

SysCall(p) ==
  \/ SysClose(p)
  \/ \E r \in Requests[p] : SysOpen(p, r) \/ SysCreate(p, r) \/ SysUnlink(p, r)
                         \/ SysLink(p, r) \/ SysChdir(p, r) \/ SysChown(p, r)

Next == \E p \in Proc : SysCall(p) \/ KernelStep(p)

Spec == Init /\ [][Next]_vars

-----------------------------------------------------------------------------
(* The inodes on disk, the entries of the cache and what processes hold    *)
(* have their types; no link count and no reference count goes below 0     *)
(* (fs.c:328-349, sysfile.c:130-235).                                      *)
TypeOK ==
  /\ disk \in [Inum -> [type : {"none", "dir", "file", "dev"}, nlink : Nat,
                        ents : [Entry -> Inum \cup {None}]]]
  /\ icache \in [Slot -> [inum : Inum \cup {None}, ref : Nat, busy : BOOLEAN,
                          valid : BOOLEAN, nlink : Nat,
                          type : {"none", "dir", "file", "dev"}]]
  /\ cwd \in [Proc -> Slot]
  /\ ofile \in [Proc -> Slot \cup {None}]
  /\ leaked \in [Slot -> Nat]

(* The steps that use entries of which a later step of the list, and not   *)
(* they, will drop the reference.                                          *)
Borrows == {"ilock", "iload", "iunlock", "droplink"}
MaxSteps == 9

(* The references that the rest of the calls in progress have to drop.     *)
Owed(s) ==
  {<<p, i, j>> \in Proc \X (1 .. MaxSteps) \X {1, 2} :
     /\ i <= Len(todo[p])
     /\ todo[p][i].do \notin Borrows
     /\ j <= Len(todo[p][i].on)
     /\ todo[p][i].on[j] = s}

(* chdir() has given up the old directory, or is about to.                 *)
Leaving(p) == \E i \in DOMAIN todo[p] : todo[p][i].do = "setcwd"

(* Every pointer to a cache entry is counted, and every count is for a     *)
(* pointer that someone has and will drop, whatever the interleaving of    *)
(* the calls and on every error path: so no entry is recycled under a      *)
(* user, and none is lost, but for what chown(), chgrp() and chmod() leak. *)
RefExact ==
  \A s \in Slot :
    icache[s].ref = Cardinality({p \in Proc : ofile[p] = s})
                  + Cardinality({p \in Proc : cwd[p] = s /\ ~Leaving(p)})
                  + Cardinality(Owed(s))
                  + leaked[s]

(* An inode has one entry in the cache: two processes that look up the     *)
(* same file lock the same entry.                                          *)
CacheUnique ==
  \A s, t \in Slot :
    s # t /\ icache[s].ref > 0 /\ icache[t].ref > 0 => icache[s].inum # icache[t].inum

(* Who locks a valid entry sees the inode that is on the disk, even when   *)
(* the inode was freed and allocated again while the entry was in use.     *)
CacheCoherent ==
  \A s \in Slot :
    icache[s].ref > 0 /\ icache[s].valid /\ ~icache[s].busy =>
      LET d == disk[icache[s].inum] IN
      icache[s].type = d.type /\ icache[s].nlink = d.nlink

(* The entries that name an inode, other than the dots.                    *)
Links(i) == {<<d, n>> \in Inum \X Name : disk[d].ents[n] = i}

(* No entry dangles: an inode that directories name is allocated, and is   *)
(* counted at least as often as it is named, also between the steps of     *)
(* link() and unlink().                                                    *)
NoDangling ==
  \A i \in Inum : Links(i) # {} =>
    disk[i].type # "none" /\ Cardinality(Links(i)) <= disk[i].nlink

(* No inode is lost: one without links is in the cache, for somebody's     *)
(* last iput() to free it, or its creator is about to get it.              *)
NoLostInode ==
  \A i \in Inum : disk[i].type # "none" /\ disk[i].nlink = 0 =>
    \/ Cached(i) # {}
    \/ \E p \in Proc : Due(p, "ialloc") /\ Arg(p).inum = i

(* The kernel does not find its inodes inconsistent.  It may run out of    *)
(* them, on disk or in the cache, and panics then too.                     *)
NoFsPanic == panicked \in {"none", "iget: no inodes", "ialloc: no inodes"}

(* The inode cache is exact: an entry counts the references that         *)
(* processes and calls in progress hold, on every error path, an inode   *)
(* has one entry, and a valid entry is what is on disk, also after the   *)
(* inode was freed and allocated again (fs.c:225-349).                   *)
CacheExact == TypeOK /\ RefExact /\ CacheUnique /\ CacheCoherent


Waits(p) == Due(p, "ilock") /\ icache[S(p)].busy
WorksOn(p, s) == \E i \in DOMAIN todo[p] : \E j \in DOMAIN todo[p][i].on : todo[p][i].on[j] = s

(* Nobody is stuck: whoever waits for an inode waits for a process that    *)
(* is inside a call and works on that inode, and never do all processes    *)
(* that are inside a call wait for one another.                            *)
NobodyStuck ==
  /\ \A p \in Proc : Waits(p) => \E q \in Proc \ {p} : WorksOn(q, S(p))
  /\ (\E p \in Proc : Waits(p)) => \E p \in Proc : todo[p] # <<>> /\ ~Waits(p)
==============================================================================

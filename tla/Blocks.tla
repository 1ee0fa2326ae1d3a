-------------------------------- MODULE Blocks --------------------------------
(***************************************************************************)
(* The contents of files: the image mkfs builds, and the kernel's blocks,  *)
(* inode contents and file offsets (the middle of fs.c, filewrite() and    *)
(* fileread()), used by processes at the same time.                        *)
(*                                                                         *)
(* A block holds BSIZE words, and a block number is one word, so that an   *)
(* indirect block names BSIZE blocks.  The buffer cache and the log are    *)
(* those of BufCache and Log: a block is read and written in one step, and *)
(* here only the blocks that a transaction writes are counted.  What       *)
(* directories mean is the subject of Inode: here they are files.          *)
(***************************************************************************)
EXTENDS Integers, Sequences, FiniteSets

CONSTANTS
  Proc, File,  \* processes and open-file structures
  Opened,      \* the inode each was first opened for
  FSSIZE, nmeta, BSIZE, NDIRECT, LOGSIZE,
  Images,      \* the sizes of the files given to mkfs
  ReadCounts, WriteCounts, \* the numbers of words asked for
  Value,       \* the word each process writes
  MaxCalls     \* bound on the number of system calls

Block == 0 .. FSSIZE - 1
Root == 1
Inum == UNION {Root .. Root + Len(image) : image \in Images}
MAXFILE == NDIRECT + BSIZE
Nobody == "nobody"

(* The bitmap and the block of the inode, among the blocks of a transaction.*)
BitmapBlock == FSSIZE
InodeBlock == FSSIZE + 1

VARIABLES
  booted,    \* whether mkfs is done and the kernel runs
  appends,   \* the words mkfs still has to append, each with its inode
  freeblock, \* mkfs's next block
  used,      \* the bitmap: blocks marked in use
  data,      \* the contents of each block
  inode,     \* addrs[] and size of each inode
  lock,      \* who holds each inode (I_BUSY)
  file,      \* struct file: inode and offset
  op,        \* what each process is doing
  logged,    \* blocks written so far in each process's transaction
  contents,  \* history: what was written to each file
  moved,     \* history: words read and written through each open file
  panicked,
  calls      \* system calls made

vars == <<booted, appends, freeblock, used, data, inode, lock, file, op, logged,
          contents, moved, panicked, calls>>

mkfs == <<booted, appends, freeblock>>
kernel == <<lock, file, op, logged, moved, panicked, calls>>

Zeroes == [k \in 0 .. BSIZE - 1 |-> 0]
Repeat(x, n) == [k \in 1 .. n |-> x]
NoInode == [addrs |-> Append(Repeat(0, NDIRECT), 0), size |-> 0]
Resting == [do |-> "rest", f |-> CHOOSE f \in File : TRUE, left |-> 0, n |-> 0,
            tot |-> 0, todo |-> <<>>]

Least(set) == CHOOSE x \in set : \A y \in set : x <= y
Smaller(a, b) == IF a < b THEN a ELSE b


(* The words mkfs appends for files of these sizes: the root's "." and     *)
(* "..", then for each file its entry in the root and its contents.        *)
Plan(image) ==
  LET Upto[j \in 0 .. Len(image)] ==
        IF j = 0 THEN Repeat(<<Root, Root>>, 2)
        ELSE Upto[j - 1] \o <<<<Root, Root + j>>>> \o Repeat(<<Root + j, Root + j>>, image[j])
  IN Upto[Len(image)]

Init ==
  /\ booted = FALSE
  /\ \E image \in Images : appends = Plan(image)
  /\ freeblock = nmeta
  /\ used = {}
  /\ data = [b \in Block |-> Zeroes]
  /\ inode = [i \in Inum |-> NoInode]
  /\ lock = [i \in Inum |-> Nobody]
  /\ file = [f \in File |-> [ino |-> Opened[f], off |-> 0]]
  /\ op = [p \in Proc |-> Resting]
  /\ logged = [p \in Proc |-> {}]
  /\ contents = [i \in Inum |-> <<>>]
  /\ moved = [f \in File |-> 0]
  /\ panicked = "none"
  /\ calls = 0

-----------------------------------------------------------------------------
(* The block of number bn of an inode, 0 if there is none.                 *)
Addr(i, bn) ==
  IF bn < NDIRECT THEN inode[i].addrs[bn + 1]
  ELSE IF inode[i].addrs[NDIRECT + 1] = 0 THEN 0
  ELSE data[inode[i].addrs[NDIRECT + 1]][bn - NDIRECT]

NeedsIndirect(i, bn) == bn >= NDIRECT /\ inode[i].addrs[NDIRECT + 1] = 0
NeedsData(i, bn) == ~NeedsIndirect(i, bn) /\ Addr(i, bn) = 0
Mapped(i, bn) == ~NeedsIndirect(i, bn) /\ Addr(i, bn) # 0

NotZeroed(i, b) ==
  /\ inode' = [inode EXCEPT ![i].addrs[NDIRECT + 1] = b]
  /\ UNCHANGED data

(* The changes bmap() and iappend() make when they have a new block b; the *)
(* kernel's balloc() zeroes it, in mkfs's image every block is zero.       *)
SetIndirect(i, b) ==
  /\ inode' = [inode EXCEPT ![i].addrs[NDIRECT + 1] = b]
  /\ data' = [data EXCEPT ![b] = Zeroes]
SetAddr(i, bn, b) ==
  IF bn < NDIRECT
  THEN /\ inode' = [inode EXCEPT ![i].addrs[bn + 1] = b]
       /\ data' = [data EXCEPT ![b] = Zeroes]
  ELSE /\ data' = [data EXCEPT ![b] = Zeroes,
                               ![inode[i].addrs[NDIRECT + 1]][bn - NDIRECT] = b]
       /\ UNCHANGED inode

(* What a write of n words at off makes of a file.                         *)
Overwritten(old, off, word, n) ==
  [k \in 1 .. (IF off + n > Len(old) THEN off + n ELSE Len(old)) |->
     IF k > off /\ k <= off + n THEN word ELSE IF k <= Len(old) THEN old[k] ELSE 0]

(* mkfs: iappend(), in the steps of its loop.                              *)
MkfsBlock ==
  /\ ~booted /\ appends # <<>>
  /\ LET i == Head(appends)[1]
         fbn == inode[i].size \div BSIZE
     IN \/ NeedsIndirect(i, fbn) /\ SetIndirect(i, freeblock)
        \/ NeedsData(i, fbn) /\ SetAddr(i, fbn, freeblock)
  /\ freeblock' = freeblock + 1
  /\ UNCHANGED <<booted, appends, used, contents, kernel>>

MkfsCopy ==
  LET i == Head(appends)[1]
      word == Head(appends)[2]
      size == inode[i].size
  IN
  /\ ~booted /\ appends # <<>>
  /\ Mapped(i, size \div BSIZE)
  /\ data' = [data EXCEPT ![Addr(i, size \div BSIZE)][size % BSIZE] = word]
  /\ inode' = [inode EXCEPT ![i].size = size + 1]
  /\ contents' = [contents EXCEPT ![i] = Append(@, word)]
  /\ appends' = Tail(appends)
  /\ UNCHANGED <<booted, freeblock, used, kernel>>

(* mkfs at the end: the size of the root is rounded up, by a whole block   *)
(* when its entries fill the last one, and the bitmap is written.          *)
RoundedUp(size) == (size \div BSIZE + 1) * BSIZE
MkfsFinish ==
  /\ ~booted /\ appends = <<>>
  /\ booted' = TRUE
  /\ LET size == RoundedUp(inode[Root].size) IN
     /\ inode' = [inode EXCEPT ![Root].size = size]
     /\ contents' = [contents EXCEPT ![Root] = @ \o Repeat(0, size - Len(@))]
  /\ used' = 0 .. freeblock - 1
  /\ UNCHANGED <<appends, freeblock, data, kernel>>

-----------------------------------------------------------------------------
Ready(p, do) == booted /\ panicked = "none" /\ op[p].do = do

Call(p) == /\ Ready(p, "rest") /\ calls < MaxCalls
           /\ calls' = calls + 1

Panic(msg) ==
  /\ panicked' = msg
  /\ UNCHANGED <<mkfs, used, data, inode, lock, file, op, logged, contents, moved>>

(* balloc(): the first block that is free.                                 *)
balloc == Least(Block \ used)
Balloc(p) ==
  /\ used' = used \cup {balloc}
  /\ logged' = [logged EXCEPT ![p] = @ \cup {BitmapBlock, balloc}]

(* open() of an inode, by a struct file nobody is using.                   *)
Busy(f) == \E p \in Proc : op[p].do # "rest" /\ op[p].f = f
Open(p, f, i) ==
  /\ Call(p) /\ ~Busy(f)
  /\ \A q \in Proc : op[q].do = "trunc" => op[q].n # i
  /\ file' = [file EXCEPT ![f] = [ino |-> i, off |-> 0]]
  /\ moved' = [moved EXCEPT ![f] = 0]
  /\ UNCHANGED <<mkfs, used, data, inode, lock, op, logged, contents, panicked>>

RequestAdded(p, f, n) ==
  LET i == file[f].ino
      off == file[f].off
      m == Smaller(n, inode[i].size - off)
  IN
  /\ Call(p) /\ lock[i] = Nobody
  /\ off <= inode[i].size
  /\ IF \E bn \in off \div BSIZE .. (off + m - 1) \div BSIZE : ~Mapped(i, bn)
     THEN Panic("log_write outside of trans")
     ELSE /\ file' = [file EXCEPT ![f].off = off + n]
          /\ moved' = [moved EXCEPT ![f] = @ + m]
          /\ UNCHANGED <<mkfs, used, data, inode, lock, op, logged, contents, panicked>>

(* fileread(): readi() under the inode's lock; a read is in no transaction *)
(* and may not need a new block.                                           *)
FileRead(p, f, n) ==
  LET i == file[f].ino
      off == file[f].off
      m == Smaller(n, inode[i].size - off)
  IN
  /\ Call(p) /\ lock[i] = Nobody
  /\ off <= inode[i].size
  /\ IF \E bn \in off \div BSIZE .. (off + m - 1) \div BSIZE : ~Mapped(i, bn)
     THEN Panic("log_write outside of trans")
     ELSE /\ file' = [file EXCEPT ![f].off = off + m]
          /\ moved' = [moved EXCEPT ![f] = @ + m]
          /\ UNCHANGED <<mkfs, used, data, inode, lock, op, logged, contents, panicked>>


(* filewrite(): a transaction for each piece of at most max words.         *)
max == ((LOGSIZE - 1 - 1 - 2) \div 2) * BSIZE

(* A piece: begin_op(), ilock() and the tests at the start of writei(),    *)
(* which fail without a change; filewrite() then gives up.                 *)
Piece(p, f, left) ==
  LET i == file[f].ino
      off == file[f].off
      n1 == Smaller(left, max)
  IN
  /\ lock[i] = Nobody
  /\ IF off > inode[i].size \/ off + n1 > MAXFILE * BSIZE
     THEN op' = [op EXCEPT ![p] = Resting] /\ UNCHANGED <<lock, logged>>
     ELSE /\ op' = [op EXCEPT ![p] = [Resting EXCEPT
               !.do = "writei", !.f = f, !.left = left, !.n = n1]]
          /\ lock' = [lock EXCEPT ![i] = p]
          /\ logged' = [logged EXCEPT ![p] = {}]
  /\ UNCHANGED <<mkfs, used, data, inode, file, contents, moved, panicked>>

FileWrite(p, f, n) == Call(p) /\ Piece(p, f, n)
NextPiece(p) == Ready(p, "write") /\ Piece(p, op[p].f, op[p].left) /\ UNCHANGED calls

(* The loop of writei(): bmap(), in the steps that call balloc(), and the  *)
(* copy to one block.                                                      *)
At(p) == file[op[p].f].off + op[p].tot
Bn(p) == At(p) \div BSIZE

Bmap(p) ==
  LET i == file[op[p].f].ino IN
  /\ Ready(p, "writei") /\ op[p].tot < op[p].n
  /\ ~Mapped(i, Bn(p))
  /\ IF Block \subseteq used
     THEN Panic("balloc: out of blocks") /\ UNCHANGED calls
     ELSE /\ \/ NeedsIndirect(i, Bn(p)) /\ SetIndirect(i, balloc) /\ Balloc(p)
             \/ /\ NeedsData(i, Bn(p)) /\ SetAddr(i, Bn(p), balloc)
                /\ used' = used \cup {balloc}
                /\ logged' = [logged EXCEPT ![p] = @ \cup {BitmapBlock, balloc} \cup
                     IF Bn(p) < NDIRECT THEN {} ELSE {inode[i].addrs[NDIRECT + 1]}]
          /\ UNCHANGED <<mkfs, lock, file, op, contents, moved, panicked, calls>>

WriteBlock(p) ==
  LET i == file[op[p].f].ino
      b == Addr(i, Bn(p))
      m == Smaller(op[p].n - op[p].tot, BSIZE - (At(p) % BSIZE))
  IN
  /\ Ready(p, "writei") /\ op[p].tot < op[p].n
  /\ Mapped(i, Bn(p))
  /\ data' = [data EXCEPT ![b] = [k \in 0 .. BSIZE - 1 |->
       IF k >= At(p) % BSIZE /\ k < (At(p) % BSIZE) + m THEN Value[p] ELSE @[k]]]
  /\ op' = [op EXCEPT ![p].tot = @ + m]
  /\ logged' = [logged EXCEPT ![p] = @ \cup {b}]
  /\ UNCHANGED <<mkfs, used, inode, lock, file, contents, moved, panicked, calls>>

SizeOneMore(p) ==
  LET f == op[p].f
      i == file[f].ino
      n == op[p].n
      grows == At(p) > inode[i].size
  IN
  /\ Ready(p, "writei") /\ op[p].tot = n
  /\ inode' = [inode EXCEPT ![i].size = IF grows THEN At(p) + 1 ELSE @]
  /\ logged' = [logged EXCEPT ![p] = IF grows THEN @ \cup {InodeBlock} ELSE @]
  /\ contents' = [contents EXCEPT ![i] = Overwritten(@, file[f].off, Value[p], n)]
  /\ file' = [file EXCEPT ![f].off = @ + n]
  /\ moved' = [moved EXCEPT ![f] = @ + n]
  /\ lock' = [lock EXCEPT ![i] = Nobody]
  /\ op' = [op EXCEPT ![p] = IF @.left = n THEN Resting
                             ELSE [@ EXCEPT !.do = "write", !.left = @ - n]]
  /\ UNCHANGED <<mkfs, used, data, panicked, calls>>

SizeAhead(p) ==
  LET f == op[p].f
      i == file[f].ino
      n == op[p].n
      grows == At(p) > inode[i].size
  IN
  /\ Ready(p, "writei") /\ op[p].tot = n
  /\ inode' = [inode EXCEPT ![i].size = IF grows THEN file[f].off + op[p].left ELSE @]
  /\ logged' = [logged EXCEPT ![p] = IF grows THEN @ \cup {InodeBlock} ELSE @]
  /\ contents' = [contents EXCEPT ![i] = Overwritten(@, file[f].off, Value[p], n)]
  /\ file' = [file EXCEPT ![f].off = @ + n]
  /\ moved' = [moved EXCEPT ![f] = @ + n]
  /\ lock' = [lock EXCEPT ![i] = Nobody]
  /\ op' = [op EXCEPT ![p] = IF @.left = n THEN Resting
                             ELSE [@ EXCEPT !.do = "write", !.left = @ - n]]
  /\ UNCHANGED <<mkfs, used, data, panicked, calls>>

(* The end of writei(), iunlock(), end_op(), and the next piece if any.    *)
WriteEnd(p) ==
  LET f == op[p].f
      i == file[f].ino
      n == op[p].n
      grows == At(p) > inode[i].size
  IN
  /\ Ready(p, "writei") /\ op[p].tot = n
  /\ inode' = [inode EXCEPT ![i].size = IF grows THEN At(p) ELSE @]
  /\ logged' = [logged EXCEPT ![p] = IF grows THEN @ \cup {InodeBlock} ELSE @]
  /\ contents' = [contents EXCEPT ![i] = Overwritten(@, file[f].off, Value[p], n)]
  /\ file' = [file EXCEPT ![f].off = @ + n]
  /\ moved' = [moved EXCEPT ![f] = @ + n]
  /\ lock' = [lock EXCEPT ![i] = Nobody]
  /\ op' = [op EXCEPT ![p] = IF @.left = n THEN Resting
                             ELSE [@ EXCEPT !.do = "write", !.left = @ - n]]
  /\ UNCHANGED <<mkfs, used, data, panicked, calls>>

-----------------------------------------------------------------------------
NonZero(b) == b # 0
IndirectForgotten(i) ==
  LET ptr == inode[i].addrs[NDIRECT + 1]
  IN SelectSeq(SubSeq(inode[i].addrs, 1, NDIRECT)
               \o [k \in 1 .. BSIZE |-> IF ptr = 0 THEN 0 ELSE data[ptr][k - 1]], NonZero)

(* itrunc() of a file that was removed and that nobody has open: bfree()   *)
(* of its direct blocks, of those the indirect block names, and of it.     *)
Named(i) ==
  LET direct == [k \in 1 .. NDIRECT |-> inode[i].addrs[k]]
      ptr == inode[i].addrs[NDIRECT + 1]
      indirect == [k \in 1 .. BSIZE |-> IF ptr = 0 THEN 0 ELSE data[ptr][k - 1]]
  IN SelectSeq(direct \o indirect \o <<ptr>>, NonZero)

Freed(p, i, blocks) ==
  op' = [op EXCEPT ![p] = IF blocks = <<>> THEN Resting
                          ELSE [Resting EXCEPT !.do = "trunc", !.n = i, !.todo = blocks]]

Remove(p, i) ==
  /\ Call(p) /\ i # Root
  /\ \A f \in File : file[f].ino # i
  /\ \A q \in Proc : op[q].do = "trunc" => op[q].n # i
  /\ Freed(p, i, Named(i))
  /\ inode' = [inode EXCEPT ![i] = NoInode]
  /\ contents' = [contents EXCEPT ![i] = <<>>]
  /\ logged' = [logged EXCEPT ![p] = {InodeBlock}]
  /\ UNCHANGED <<mkfs, used, data, lock, file, moved, panicked>>

bfree(p) ==
  LET b == Head(op[p].todo) IN
  /\ Ready(p, "trunc")
  /\ IF b \notin used
     THEN Panic("freeing free block")
     ELSE /\ used' = used \ {b}
          /\ logged' = [logged EXCEPT ![p] = @ \cup {BitmapBlock}]
          /\ Freed(p, op[p].n, Tail(op[p].todo))
          /\ UNCHANGED <<mkfs, data, inode, lock, file, contents, moved, panicked>>
  /\ UNCHANGED calls

Next ==
  \/ MkfsBlock \/ MkfsCopy \/ MkfsFinish
  \/ \E p \in Proc :
       \/ \E f \in File, i \in Inum : Open(p, f, i)
       \/ \E f \in File, n \in ReadCounts : FileRead(p, f, n)
       \/ \E f \in File, n \in WriteCounts : FileWrite(p, f, n)
       \/ NextPiece(p) \/ Bmap(p) \/ WriteBlock(p) \/ WriteEnd(p)
       \/ \E i \in Inum : Remove(p, i)
       \/ bfree(p)

Spec == Init /\ [][Next]_vars

-----------------------------------------------------------------------------
(* The variables have the types of the data they stand for.                *)
Ops == [do: {"rest", "write", "writei", "trunc"}, f: File, left: Nat, n: Nat,
        tot: Nat, todo: Seq(Block)]
TypeOK ==
  /\ booted \in BOOLEAN
  /\ freeblock \in nmeta .. FSSIZE
  /\ used \subseteq Block
  /\ data \in [Block -> [0 .. BSIZE - 1 -> Nat]]
  /\ inode \in [Inum -> [addrs: Seq(Block), size: 0 .. MAXFILE * BSIZE]]
  /\ lock \in [Inum -> Proc \cup {Nobody}]
  /\ file \in [File -> [ino: Inum, off: Nat]]
  /\ op \in [Proc -> Ops]
  /\ logged \in [Proc -> SUBSET (0 .. InodeBlock)]

(* Blocks that belong to something: to a file, or to a removal under way.  *)
Range(s) == {s[k] : k \in DOMAIN s}
Owners(b) == {i \in Inum : b \in Range(Named(i))}
             \cup {p \in Proc : op[p].do = "trunc" /\ b \in Range(op[p].todo)}

(* The bitmap marks exactly mkfs's own blocks and those of some file, and  *)
(* no block belongs to two files, or twice to one, whatever was allocated  *)
(* and freed at the same time.                                             *)
BitmapExact ==
  booted =>
    /\ used = {b \in Block : b < nmeta \/ Owners(b) # {}}
    /\ \A b \in Block : Cardinality(Owners(b)) <= 1 /\ (b < nmeta => Owners(b) = {})
    /\ \A i \in Inum : Cardinality(Range(Named(i))) = Len(Named(i))

(* A file that nobody is writing reads back as what was written to it,     *)
(* from mkfs on.                                                           *)
Reads(i, k) ==
  IF Mapped(i, k \div BSIZE) THEN data[Addr(i, k \div BSIZE)][k % BSIZE] ELSE 0
ReadsBack ==
  booted => \A i \in Inum :
    lock[i] = Nobody =>
      /\ inode[i].size = Len(contents[i])
      /\ \A k \in 0 .. inode[i].size - 1 : Reads(i, k) = contents[i][k + 1]

(* Every block below a file's size exists, so that no read needs a new one *)
(* outside of a transaction; bfree() never meets a free block.  The one    *)
(* exception is the block that mkfs adds to the size of a root directory   *)
(* whose entries fill the last one.                                        *)
Hole(i) == \E bn \in 0 .. MAXFILE - 1 : bn * BSIZE < inode[i].size /\ ~Mapped(i, bn)
NoHole ==
  /\ \A i \in Inum \ {Root} : ~Hole(i)
  /\ panicked \in {"none", "balloc: out of blocks"} \/ Hole(Root)

(* Processes that share an open file do not lose each other's moves of its *)
(* offset: it is the number of words that went through the file.           *)
OffsetExact == \A f \in File : file[f].off = moved[f]


(* Blocks are accounted for: the bitmap marks those some inode names,    *)
(* each has one owner, and every block below a file's size is there, but *)
(* for the root of an image that mkfs rounded up (fs.c:53-93, 366-429,   *)
(* mkfs.c:161).                                                          *)
BlocksExact == TypeOK /\ BitmapExact /\ NoHole

(* A file reads back what was written to it, whichever blocks were freed *)
(* and allocated again and whoever shares its offset (fs.c:366-507,      *)
(* file.c:95-150).                                                       *)
FilesReadBack == ReadsBack /\ OffsetExact
=============================================================================

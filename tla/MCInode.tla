------------------------------- MODULE MCInode -------------------------------
(***************************************************************************)
(* The file system: names and inodes, Inode, and the contents of files,    *)
(* Blocks, each on an instance of its own.  They share no state here: a    *)
(* behaviour picks one and runs it while the other stays as it started.    *)
(*                                                                         *)
(* Inode: one process makes and removes what is at /a, opens and links     *)
(* what is below it; the other moves in and out of /a, and makes and       *)
(* removes b where it is.  Blocks: two open files with two direct and two  *)
(* indirect blocks each on a disk they can fill, and two images, of which  *)
(* one has a root directory that fills its blocks.                         *)
(***************************************************************************)
EXTENDS Inode, Integers

CONSTANTS p1, p2

Path(abs, elems) == [abs |-> abs, elems |-> elems]
Top == Path(TRUE, <<>>)
A == Path(TRUE, <<"a">>)
AB == Path(TRUE, <<"a", "b">>)
B == Path(FALSE, <<"b">>)

Request(call, path) == [call |-> call, path |-> path, new |-> Top]
Link(old, new) == [call |-> "link", path |-> old, new |-> new]

MCName == {"a", "b"}
MCRequests == [p \in Proc |->
  IF p = p1
  THEN {Request("mkdir", A), Request("unlink", A), Request("open", AB),
        Request("chown", AB), Link(AB, B)}
  ELSE {Request("chdir", A), Request("chdir", Top), Request("create", B), Request("unlink", B)}]

VARIABLES part, booted, appends, freeblock, used, data, inode, lock, file, op, logged,
          contents, moved, diskpanic, calls

fileVars == <<booted, appends, freeblock, used, data, inode, lock, file, op, logged,
              contents, moved, diskpanic, calls>>

Content == INSTANCE Blocks WITH
  File <- {1, 2}, Opened <- <<2, 1>>, FSSIZE <- 9, nmeta <- 1, BSIZE <- 2, NDIRECT <- 2,
  LOGSIZE <- 6, Images <- {<<1>>, <<1, 0>>}, MaxCalls <- 4, ReadCounts <- {1},
  WriteCounts <- {7}, Value <- [p \in Proc |-> IF p = p1 THEN 7 ELSE 8],
  panicked <- diskpanic

FsInit ==
  /\ part \in {"names", "contents"}
  /\ Init
  /\ Content!Init
  /\ part = "names" => appends = Content!Plan(<<1>>)

FsNext ==
  \/ part = "names" /\ Next /\ UNCHANGED <<part, fileVars>>
  \/ part = "contents" /\ Content!Next /\ UNCHANGED <<part, vars>>

(* The bitmap is exact and no file has a hole, except the root of an     *)
(* image that mkfs rounded up (fs.c:53-93, 366-429, mkfs.c:161).         *)
BlocksExact == part = "contents" => Content!BlocksExact

(* Files read back what was written to them, and shared offsets are      *)
(* exact (fs.c:366-507, file.c:95-150).                                  *)
FilesReadBack == part = "contents" => Content!FilesReadBack

==============================================================================

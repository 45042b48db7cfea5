------------------------------ MODULE FileTable ------------------------------
(***************************************************************************)
(* The kernel's one table of file descriptors, src/kernel/fileio.c,        *)
(* with the open files it points to, fs_open, fs_close, fs_read and        *)
(* fs_write of src/kernel/fs/fs.c.                                         *)
(*                                                                         *)
(* A node is identified by what kopen's search of the tree ends at; the    *)
(* search itself, and the FAT driver behind a node on the disk, are seen   *)
(* from here only through what they return.  The memory of open files      *)
(* comes from kmalloc, which never fails and hands out memory nobody holds *)
(* (module Heap): here, a pointer that is not in use.                      *)
(*                                                                         *)
(* A directory has no buffer, and yet may be opened for writing: fat_write *)
(* then takes its buffer's place and address from low memory, and stores   *)
(* there.  What such a write does to memory and disk is undefined, and     *)
(* nothing follows it here: the machine is lost.                           *)
(***************************************************************************)
EXTENDS Integers, FiniteSets

CONSTANTS
  MaxFds,         \* MAX_NUM_FDS
  Files, Dirs,    \* the nodes of the disk
  Ptrs,           \* the addresses open files can have
  StdPtrs,        \* those the heap gives the first three, for 0, 1 and 2
  NULL,           \* the null pointer
  MaxCount,       \* bound: the longest read or write
  IdxRange        \* bound: file positions count modulo this (2^32 in the code)

Fds == 0 .. MaxFds - 1

ASSUME FileTableAssumption ==
  /\ MaxFds \in Nat /\ MaxFds > 3
  /\ MaxCount \in Nat
  /\ IdxRange \in Nat \ {0}
  /\ NULL \notin Ptrs
  /\ StdPtrs \in [0 .. 2 -> Ptrs] /\ \A i, j \in 0 .. 2 : StdPtrs[i] = StdPtrs[j] => i = j

\* The nodes that kfdinit makes; the standard descriptors 0, 1 and 2.
StdNodes == {"stdin", "stdout", "stderr"}
Nodes == Files \cup Dirs \cup StdNodes

\* A node is of one kind.
ASSUME NodesAssumption ==
  /\ Files \cap Dirs = {} /\ StdNodes \cap (Files \cup Dirs) = {}
  /\ NULL \notin Nodes

\* A mode is the set of letters of the mode string; x is any letter but r and w.
Modes == SUBSET {"r", "w"}
ModeStrings == SUBSET {"r", "w", "x"}

VARIABLES
  fds,    \* the table: a pointer to an open file, or NULL, for each descriptor
  files,  \* the memory of open files: a record for each pointer in use, or NULL
  ret,    \* the value the last call returned
  lost    \* whether a driver has stored through a buffer that is not there

tableVars == << fds, files, ret, lost >>

FreePtrs == { p \in Ptrs : files[p] = NULL }

\* The driver that serves a node (n->fs): the console, the disk, or none.
\* stderr_n is a copy of itself before it exists, of a null pointer, so no
\* driver is copied to it.
Driver(n) == CASE n \in {"stdin", "stdout"} -> "stdio"
               [] n \in Files \cup Dirs     -> "fat"
               [] OTHER                     -> "none"

\* `mask & FS_TYPE != FS_DIR' is `mask & 1' to the compiler, which is right for
\* what the tree holds: files and character devices are odd, directories even.
NotDir(n) == n \notin Dirs

\* The open file fs_open makes, with the buffer fat_open attaches to it.
fs_open(n, m) == [n |-> n, m |-> m, idx |-> 0,
                  d |-> NotDir(n) /\ Driver(n) = "fat"]

-----------------------------------------------------------------------------
\* kfdinit: three open files, of which the first three descriptors are the
\* only holders.
kfdinit ==
  /\ fds = [fd \in Fds |-> IF fd \in 0 .. 2 THEN StdPtrs[fd] ELSE NULL]
  /\ files = [p \in Ptrs |-> CASE p = StdPtrs[0] -> fs_open("stdin", {"r"})
                               [] p = StdPtrs[1] -> fs_open("stdout", {"w"})
                               [] p = StdPtrs[2] -> fs_open("stderr", {"w"})
                               [] OTHER          -> NULL]

FreeFds == { fd \in Fds : fds[fd] = NULL }
\* Mutation: the search goes on after the first free descriptor.
HighestFree(fd) == fd \in FreeFds /\ \A i \in FreeFds : fd >= i

LowestFree(fd) == fd \in FreeFds /\ \A i \in FreeFds : fd <= i

\* The table and the memory of files after descriptor fd is given the node n.
OpenAs(fd, n, m) ==
  \E p \in FreePtrs : /\ fds' = [fds EXCEPT ![fd] = p]
                      /\ files' = [files EXCEPT ![p] = fs_open(n, m)]

\* Mutation: the file's record not freed.
CloseKeeps(fd) == /\ fds' = [fds EXCEPT ![fd] = NULL]
                  /\ UNCHANGED files

\* ... and after the open file of descriptor fd is freed.
CloseAs(fd) == /\ fds' = [fds EXCEPT ![fd] = NULL]
               /\ files' = [files EXCEPT ![fds[fd]] = NULL]

kopenFails(n, m) == n = NULL \/ m \notin Modes \/ FreeFds = {}

\* n is the node the path leads to, NULL when it leads nowhere or does not
\* start with a slash.
kopen(n, m) ==
  \/ /\ kopenFails(n, m)
     /\ ret' = -1
     /\ UNCHANGED << fds, files, lost >>
  \/ /\ ~ kopenFails(n, m)
     /\ \E fd \in Fds : /\ LowestFree(fd)
                        /\ OpenAs(fd, n, m)
                        /\ ret' = fd
     /\ UNCHANGED lost

\* The test the calls on a descriptor begin with.
IsOpen(fd) == fd \in Fds /\ fds[fd] # NULL

\* Mutation: the standard descriptors not excepted.
ClosableStd(fd) == IsOpen(fd)

Closable(fd) == IsOpen(fd) /\ fd >= 3

kclose(fd) == /\ IF Closable(fd) THEN CloseAs(fd) ELSE UNCHANGED << fds, files >>
              /\ ret' = 0
              /\ UNCHANGED lost

kgetnode(fd) == IF IsOpen(fd) THEN files[fds[fd]].n ELSE NULL

\* What the driver's read and write may return for c bytes.  The console reads
\* as much as was asked for, and the disk up to it; a file that is not open in
\* just the mode r, or w, transfers nothing.  A directory has no length to read.
\* fat_write returns a variable it never sets: any value at all.
ReadCounts(f, c) ==
  IF f.m # {"r"} THEN {0}
  ELSE CASE Driver(f.n) = "stdio" -> {c}
         [] Driver(f.n) = "fat"   -> IF f.n \in Dirs THEN {0} ELSE 0 .. c
         [] OTHER                 -> {0}

WriteCounts(f, c) ==
  IF f.m # {"w"} THEN {0}
  ELSE CASE Driver(f.n) = "stdio" -> {c}
         [] Driver(f.n) = "fat"   -> 0 .. IdxRange - 1
         [] OTHER                 -> {0}

Advance(p, k) == files' = [files EXCEPT ![p].idx = (@ + k) % IdxRange]

\* The conversion of a count, a u32, to the int that is returned.
Signed(k) == IF 2 * k < IdxRange THEN k ELSE k - IdxRange

kread(fd, c) ==
  /\ IF IsOpen(fd)
     THEN \E k \in ReadCounts(files[fds[fd]], c) : Advance(fds[fd], k) /\ ret' = Signed(k)
     ELSE UNCHANGED files /\ ret' = -1
  /\ UNCHANGED << fds, lost >>

\* Mutation: the disk's files taken to have no buffers.
MissingAnyway(f, c) == Driver(f.n) = "fat" /\ f.m = {"w"} /\ c > 0

\* The loop of fat_write, which is entered for a byte, uses fp->d unseen.
MissesBuffer(f, c) == Driver(f.n) = "fat" /\ f.m = {"w"} /\ c > 0 /\ ~ f.d

kwrite(fd, c) ==
  \/ /\ ~ IsOpen(fd)
     /\ ret' = -1
     /\ UNCHANGED << fds, files, lost >>
  \/ /\ IsOpen(fd) /\ ~ MissesBuffer(files[fds[fd]], c)
     /\ \E k \in WriteCounts(files[fds[fd]], c) : Advance(fds[fd], k) /\ ret' = Signed(k)
     /\ UNCHANGED << fds, lost >>
  \/ /\ IsOpen(fd) /\ MissesBuffer(files[fds[fd]], c)
     /\ lost' = TRUE
     /\ UNCHANGED << fds, files, ret >>

\* Programs name descriptors that exist, and one on either side that does not.
AnyFd == -1 .. MaxFds
Counts == 0 .. MaxCount

Init == kfdinit /\ ret = 0 /\ lost = FALSE

Next == /\ ~ lost
        /\ \/ \E n \in Files \cup Dirs \cup {NULL}, m \in ModeStrings : kopen(n, m)
           \/ \E fd \in AnyFd : kclose(fd)
           \/ \E fd \in AnyFd, c \in Counts : kread(fd, c) \/ kwrite(fd, c)

Spec == Init /\ [][Next]_tableVars

-----------------------------------------------------------------------------
File == [n : Nodes, m : Modes, idx : 0 .. IdxRange - 1, d : BOOLEAN]

\* A null pointer is none to an open file, and is not what is seen of one.
ASSUME NullAssumption ==
  NULL \notin File \cup [n : Nodes, m : Modes, idx : 0 .. IdxRange - 1]

TableTypeOK == /\ fds \in [Fds -> Ptrs \cup {NULL}]
               /\ files \in [Ptrs -> File \cup {NULL}]
               /\ ret \in Int
               /\ lost \in BOOLEAN

\* The open files in memory are exactly those the table points to, each from
\* one descriptor: nothing dangles, nothing is shared, nothing is lost.
FdsSound == /\ { fds[fd] : fd \in Fds } \ {NULL} = { p \in Ptrs : files[p] # NULL }
            /\ \A fd, gd \in Fds : fds[fd] = fds[gd] /\ fds[fd] # NULL => fd = gd

\* The driver's buffer is there for exactly the files that will free it when
\* they are closed.
BuffersPaired ==
  \A p \in Ptrs : files[p] # NULL => (files[p].d <=> files[p].n \in Files)

\* A missing buffer is used by nothing but a write to a directory opened for
\* writing: not by a file, whatever was opened and closed at its address before.
LostByDirectory ==
  lost => \E p \in Ptrs : files[p] # NULL /\ files[p].n \in Dirs /\ files[p].m = {"w"}

TableInv == TableTypeOK /\ FdsSound /\ BuffersPaired /\ LostByDirectory

\* The table implements the abstract descriptors: an open never gives away a
\* descriptor in use, a close or a read touches one file, and no sequence of
\* calls closes, moves or redirects a descriptor that was not named.
desc == [fd \in Fds |-> IF fds[fd] = NULL THEN NULL
                        ELSE [n |-> files[fds[fd]].n, m |-> files[fds[fd]].m,
                              idx |-> files[fds[fd]].idx]]

Desc == INSTANCE Descriptors WITH Std <- 0 .. 2, Closed <- NULL
DescriptorsSpec == Desc!Spec

\* An open gives away the lowest descriptor that was free.  A call that returns an
\* error has left the table as it was; it has left the files too, but for one whose
\* position has moved by as much as the result says, a count being returned as an
\* int: fat_write's can be any.
LowestGiven ==
  [][ /\ \A fd \in Fds : fds[fd] = NULL /\ fds'[fd] # NULL
            => ret' = fd /\ \A i \in 0 .. fd - 1 : fds[i] # NULL
      /\ ret' < 0 => UNCHANGED fds
      /\ \A p \in Ptrs : ret' < 0 /\ files'[p] # files[p] =>
            files'[p] = [files[p] EXCEPT !.idx = (@ + ret') % IdxRange] ]_tableVars
=============================================================================

----------------------------- MODULE ProcessProofs -----------------------------
(***************************************************************************)
(* Theorems about the table of file descriptors and about processes, for   *)
(* every number of descriptors and of processes, every set of files,       *)
(* however many addresses open files can have, and programs that make      *)
(* calls in any order.                                                     *)
(***************************************************************************)
EXTENDS Process, FiniteSetTheorems, TLAPS

-----------------------------------------------------------------------------
\* The table of descriptors.

\* What fs_open makes is an open file, with a driver's buffer if it is of the disk.
LEMMA OpenFileOK ==
  ASSUME NEW n \in Nodes, NEW m \in Modes
  PROVE  /\ fs_open(n, m) \in File /\ fs_open(n, m) # NULL
         /\ fs_open(n, m).d <=> n \in Files
         /\ fs_open(n, m).n = n
<1>1. 0 \in 0 .. IdxRange - 1
  BY FileTableAssumption
<1>2. Driver(n) = IF n \in Files \cup Dirs THEN "fat"
                  ELSE IF n = "stderr" THEN "none" ELSE "stdio"
  BY NodesAssumption DEF Driver, Nodes, StdNodes
<1>3. (NotDir(n) /\ Driver(n) = "fat") <=> n \in Files
  BY <1>2, NodesAssumption DEF NotDir, Nodes, StdNodes
<1>4. (NotDir(n) /\ Driver(n) = "fat") \in BOOLEAN
  BY DEF NotDir
<1>5. fs_open(n, m) \in File
  BY <1>1, <1>4 DEF fs_open, File
<1> QED BY <1>3, <1>5, NullAssumption DEF fs_open

-----------------------------------------------------------------------------
\* The invariant with the memory of files seen from the table: every pointer of
\* the table is to an open file, and every open file has its one descriptor.
LEMMA SoundTable ==
  ASSUME TableTypeOK
  PROVE  FdsSound <=>
           /\ \A fd \in Fds : fds[fd] # NULL => files[fds[fd]] # NULL
           /\ \A p \in Ptrs : files[p] # NULL => \E fd \in Fds : fds[fd] = p
           /\ \A fd, gd \in Fds : fds[fd] = fds[gd] /\ fds[fd] # NULL => fd = gd
<1>1. NULL \notin Ptrs /\ \A fd \in Fds : fds[fd] # NULL => fds[fd] \in Ptrs
  BY FileTableAssumption DEF TableTypeOK
<1> QED BY <1>1 DEF FdsSound

LEMMA InitInv == Init => TableInv
<1> SUFFICES ASSUME Init PROVE TableInv
  OBVIOUS
<1>1. 0 .. 2 \subseteq Fds
  BY FileTableAssumption DEF Fds
<1>2. \A i \in 0 .. 2 : StdPtrs[i] \in Ptrs /\ StdPtrs[i] # NULL
  BY FileTableAssumption
<1>3. /\ fs_open("stdin", {"r"}) \in File /\ ~ fs_open("stdin", {"r"}).d
      /\ fs_open("stdout", {"w"}) \in File /\ ~ fs_open("stdout", {"w"}).d
      /\ fs_open("stderr", {"w"}) \in File /\ ~ fs_open("stderr", {"w"}).d
      /\ fs_open("stdin", {"r"}).n = "stdin"
      /\ fs_open("stdout", {"w"}).n = "stdout"
      /\ fs_open("stderr", {"w"}).n = "stderr"
  BY OpenFileOK, NodesAssumption DEF Nodes, StdNodes, Modes
<1>4. \A p \in Ptrs : files[p] = CASE p = StdPtrs[0] -> fs_open("stdin", {"r"})
                                   [] p = StdPtrs[1] -> fs_open("stdout", {"w"})
                                   [] p = StdPtrs[2] -> fs_open("stderr", {"w"})
                                   [] OTHER          -> NULL
  BY DEF Init, kfdinit
<1>5. \A p \in Ptrs : files[p] # NULL => files[p] \in File /\ ~ files[p].d /\ files[p].n \in StdNodes
  BY <1>3, <1>4 DEF StdNodes
<1>6. TableTypeOK /\ LostByDirectory
  <2>1. fds \in [Fds -> Ptrs \cup {NULL}] /\ files \in [Ptrs -> File \cup {NULL}]
    BY <1>1, <1>2, <1>5 DEF Init, kfdinit
  <2>2. lost = FALSE /\ ret \in Int
    BY DEF Init
  <2>3. LostByDirectory
    BY <2>2, Zenon DEF LostByDirectory
  <2>4. lost \in BOOLEAN
    BY <2>2, Zenon
  <2> QED BY <2>1, <2>2, <2>3, <2>4 DEF TableTypeOK
<1>7. \A i \in 0 .. 2 : files[StdPtrs[i]] # NULL
  <2>1. StdPtrs[0] # StdPtrs[1] /\ StdPtrs[0] # StdPtrs[2] /\ StdPtrs[1] # StdPtrs[2]
    BY FileTableAssumption
  <2> QED BY <1>2, <1>3, <1>4, <2>1, NullAssumption
<1>8. \A fd \in Fds : fds[fd] = IF fd \in 0 .. 2 THEN StdPtrs[fd] ELSE NULL
  BY DEF Init, kfdinit
<1>9. \A p \in Ptrs : files[p] # NULL => \E fd \in 0 .. 2 : StdPtrs[fd] = p
  BY <1>4
<1>10. FdsSound
  BY <1>1, <1>2, <1>6, <1>7, <1>8, <1>9, SoundTable, FileTableAssumption
<1>11. BuffersPaired
  BY <1>5, NodesAssumption DEF BuffersPaired
<1> QED BY <1>6, <1>10, <1>11 DEF TableInv

-----------------------------------------------------------------------------
\* A descriptor that was free gets a file in memory that was.
LEMMA OpenInv ==
  ASSUME TableInv, NEW fd \in FreeFds, NEW n \in Nodes, NEW m \in Modes,
         OpenAs(fd, n, m), ret' \in Int, ~ lost, UNCHANGED lost
  PROVE  TableInv'
<1>1. PICK p \in FreePtrs : /\ fds' = [fds EXCEPT ![fd] = p]
                            /\ files' = [files EXCEPT ![p] = fs_open(n, m)]
  BY DEF OpenAs
<1>2. p \in Ptrs /\ p # NULL /\ files[p] = NULL /\ fd \in Fds /\ fds[fd] = NULL
  BY FileTableAssumption DEF FreePtrs, FreeFds
<1>3. TableTypeOK /\ FdsSound /\ BuffersPaired
  BY DEF TableInv
<1>4. TableTypeOK'
  BY <1>1, <1>2, <1>3, OpenFileOK DEF TableTypeOK
<1>5. \A q \in Ptrs : files'[q] = IF q = p THEN fs_open(n, m) ELSE files[q]
  BY <1>1, <1>3 DEF TableTypeOK
<1>6. \A gd \in Fds : fds'[gd] = IF gd = fd THEN p ELSE fds[gd]
  BY <1>1, <1>3 DEF TableTypeOK
<1>7. \A gd \in Fds : fds[gd] # p
  BY <1>2, <1>3, SoundTable
<1>8. FdsSound'
  <2>1. \A gd \in Fds : fds[gd] # NULL => fds[gd] \in Ptrs
    BY <1>3 DEF TableTypeOK
  <2>2. \A gd \in Fds : fds'[gd] # NULL => files'[fds'[gd]] # NULL
    BY <1>2, <1>3, <1>5, <1>6, <2>1, OpenFileOK, SoundTable
  <2>3. \A q \in Ptrs : files'[q] # NULL => \E gd \in Fds : fds'[gd] = q
    <3> SUFFICES ASSUME NEW q \in Ptrs, files'[q] # NULL, q # p
                 PROVE  \E gd \in Fds : fds'[gd] = q
      BY <1>2, <1>6
    <3>1. PICK gd \in Fds : fds[gd] = q
      BY <1>3, <1>5, SoundTable
    <3>2. fds'[gd] = q
      BY <1>2, <1>6, <3>1, FileTableAssumption
    <3> QED BY <3>2
  <2>4. \A gd, hd \in Fds : fds'[gd] = fds'[hd] /\ fds'[gd] # NULL => gd = hd
    BY <1>3, <1>6, <1>7, SoundTable
  <2>5. NULL \notin Ptrs /\ \A gd \in Fds : fds'[gd] # NULL => fds'[gd] \in Ptrs
    BY <1>4, FileTableAssumption DEF TableTypeOK
  <2> QED BY <2>2, <2>3, <2>4, <2>5 DEF FdsSound
<1>9. BuffersPaired'
  BY <1>2, <1>3, <1>5, OpenFileOK DEF BuffersPaired
<1> QED BY <1>4, <1>8, <1>9 DEF TableInv, LostByDirectory

\* A descriptor is closed together with the one file it holds.
LEMMA CloseInv ==
  ASSUME TableInv, NEW fd \in Fds, fds[fd] # NULL, CloseAs(fd), ret' \in Int,
         ~ lost, UNCHANGED lost
  PROVE  TableInv'
<1>1. TableTypeOK /\ FdsSound /\ BuffersPaired
  BY DEF TableInv
<1> DEFINE p == fds[fd]
<1>2. p \in Ptrs /\ NULL \notin Ptrs
  BY <1>1, FileTableAssumption DEF TableTypeOK
<1>3. TableTypeOK'
  BY <1>1 DEF TableTypeOK, CloseAs
<1>4. \A q \in Ptrs : files'[q] = IF q = p THEN NULL ELSE files[q]
  BY <1>1 DEF TableTypeOK, CloseAs
<1>5. \A gd \in Fds : fds'[gd] = IF gd = fd THEN NULL ELSE fds[gd]
  BY <1>1 DEF TableTypeOK, CloseAs
<1>6. FdsSound'
  <2>1. \A gd \in Fds : fds[gd] # NULL => fds[gd] \in Ptrs
    BY <1>1 DEF TableTypeOK
  <2>2. \A gd \in Fds : fds'[gd] # NULL => files'[fds'[gd]] # NULL
    BY <1>1, <1>4, <1>5, <2>1, SoundTable
  <2>3. \A q \in Ptrs : files'[q] # NULL => \E gd \in Fds : fds'[gd] = q
    BY <1>1, <1>4, <1>5, SoundTable
  <2>4. \A gd, hd \in Fds : fds'[gd] = fds'[hd] /\ fds'[gd] # NULL => gd = hd
    BY <1>1, <1>5, SoundTable
  <2>5. \A gd \in Fds : fds'[gd] # NULL => fds'[gd] \in Ptrs
    BY <1>3 DEF TableTypeOK
  <2> QED BY <1>2, <2>2, <2>3, <2>4, <2>5 DEF FdsSound
<1>7. BuffersPaired'
  BY <1>1, <1>4 DEF BuffersPaired
<1> QED BY <1>3, <1>6, <1>7 DEF TableInv, LostByDirectory

\* A position that is moved stays one, and nothing else of the file changes.
LEMMA AdvanceOK ==
  ASSUME TableTypeOK, NEW p \in Ptrs, files[p] # NULL, NEW k \in Int, Advance(p, k)
  PROVE  /\ \A q \in Ptrs \ {p} : files'[q] = files[q]
         /\ files'[p] = [files[p] EXCEPT !.idx = (files[p].idx + k) % IdxRange]
         /\ files'[p] \in File /\ files' \in [Ptrs -> File \cup {NULL}]
<1>1. files[p] \in File
  BY DEF TableTypeOK
<1>2. (files[p].idx + k) % IdxRange \in 0 .. IdxRange - 1
  BY <1>1, FileTableAssumption DEF File
<1>3. [files[p] EXCEPT !.idx = (files[p].idx + k) % IdxRange] \in File
  BY <1>1, <1>2 DEF File
<1> QED BY <1>3 DEF Advance, TableTypeOK

LEMMA AdvanceInv ==
  ASSUME TableInv, NEW fd \in Fds, fds[fd] # NULL, NEW k \in Int, Advance(fds[fd], k),
         UNCHANGED fds, ret' \in Int, ~ lost, UNCHANGED lost
  PROVE  TableInv'
<1>1. TableTypeOK /\ FdsSound /\ BuffersPaired
  BY DEF TableInv
<1>2. fds[fd] \in Ptrs /\ files[fds[fd]] # NULL
  BY <1>1, SoundTable DEF TableTypeOK
<1>3. TableTypeOK'
  BY <1>1, <1>2, AdvanceOK DEF TableTypeOK
<1>4. files[fds[fd]] \in File
  BY <1>1, <1>2 DEF TableTypeOK
<1>5. files'[fds[fd]] # NULL /\ files'[fds[fd]].d = files[fds[fd]].d
      /\ files'[fds[fd]].n = files[fds[fd]].n
  <2> DEFINE f == files[fds[fd]]
  <2>1. files'[fds[fd]] = [f EXCEPT !.idx = (f.idx + k) % IdxRange] /\ files'[fds[fd]] \in File
    BY <1>1, <1>2, AdvanceOK
  <2>2. f \in [n : Nodes, m : Modes, idx : 0 .. IdxRange - 1, d : BOOLEAN]
    BY <1>4 DEF File
  <2> QED BY <2>1, <2>2, NullAssumption
<1>6. \A q \in Ptrs : /\ files'[q] = NULL <=> files[q] = NULL
                      /\ files[q] # NULL => files'[q].d = files[q].d /\ files'[q].n = files[q].n
  BY <1>1, <1>2, <1>5, AdvanceOK
<1>7. FdsSound'
  BY <1>1, <1>6 DEF FdsSound
<1>8. BuffersPaired'
  BY <1>1, <1>6 DEF BuffersPaired
<1> QED BY <1>3, <1>7, <1>8 DEF TableInv, LostByDirectory

\* What drivers return is a number, and an int of the same remainder.
LEMMA CountsNat ==
  ASSUME NEW f, NEW c \in Counts
  PROVE  /\ \A k \in ReadCounts(f, c) : k \in Int
         /\ \A k \in WriteCounts(f, c) : k \in Int
<1>1. c \in Nat /\ IdxRange \in Nat
  BY FileTableAssumption DEF Counts
<1>2. Driver(f.n) = "stdio" \/ Driver(f.n) = "fat" \/ Driver(f.n) = "none"
  BY DEF Driver
<1> QED BY <1>1, <1>2 DEF ReadCounts, WriteCounts

LEMMA RemainderSame ==
  ASSUME NEW d \in Nat \ {0}, NEW x \in Int
  PROVE  (x - d) % d = x % d
<1> DEFINE q == x \div d
           r == x % d
           p == (x - d) \div d
           s == (x - d) % d
           t == q - p - 1
<1>1. q \in Int /\ r \in 0 .. d - 1 /\ x = d * q + r
  OBVIOUS
<1>2. p \in Int /\ s \in 0 .. d - 1 /\ x - d = d * p + s
  OBVIOUS
<1> HIDE DEF q, r, p, s
<1>3. t \in Int /\ d * t = s - r
  <2>1. d * (q - p - 1) = d * q - d * p - d
    BY <1>1, <1>2
  <2> QED BY <1>1, <1>2, <2>1
<1> HIDE DEF t
<1>4. ~ (t >= 1)
  <2>1. t >= 1 => d * t >= d
    BY <1>3
  <2> QED BY <1>1, <1>2, <1>3, <2>1
<1>5. ~ (t <= -1)
  <2>1. t <= -1 => d * t <= -d
    BY <1>3
  <2> QED BY <1>1, <1>2, <1>3, <2>1
<1>6. t = 0
  BY <1>3, <1>4, <1>5
<1> QED BY <1>1, <1>2, <1>3, <1>6 DEF r, s

LEMMA SignedSame ==
  ASSUME NEW k \in Int, NEW i \in Int
  PROVE  Signed(k) \in Int /\ (i + Signed(k)) % IdxRange = (i + k) % IdxRange
<1>1. IdxRange \in Nat \ {0}
  BY FileTableAssumption
<1>2. CASE 2 * k < IdxRange
  BY <1>2 DEF Signed
<1>3. CASE ~ (2 * k < IdxRange)
  <2>1. \A x \in Int : (x - IdxRange) % IdxRange = x % IdxRange
    BY <1>1, RemainderSame
  <2>2. PICK x \in Int : x = i + k
    OBVIOUS
  <2>3. Signed(k) \in Int /\ i + Signed(k) = x - IdxRange
    BY <1>1, <1>3, <2>2 DEF Signed
  <2>4. (i + Signed(k)) % IdxRange = x % IdxRange
    BY <2>1, <2>3
  <2> QED BY <2>2, <2>3, <2>4
<1> QED BY <1>2, <1>3

\* The calls.
LEMMA KopenInv ==
  ASSUME TableInv, ~ lost, NEW n \in Files \cup Dirs \cup {NULL}, NEW m \in ModeStrings, kopen(n, m)
  PROVE  TableInv'
<1>1. CASE UNCHANGED << fds, files, lost >> /\ ret' = -1
  BY <1>1 DEF TableInv, TableTypeOK, FdsSound, BuffersPaired, LostByDirectory
<1>2. CASE ~ kopenFails(n, m) /\ UNCHANGED lost
           /\ \E fd \in Fds : LowestFree(fd) /\ OpenAs(fd, n, m) /\ ret' = fd
  <2>1. n \in Nodes /\ m \in Modes
    BY <1>2 DEF kopenFails, Nodes
  <2>2. PICK fd \in Fds : LowestFree(fd) /\ OpenAs(fd, n, m) /\ ret' = fd
    BY <1>2
  <2>3. fd \in FreeFds /\ ret' \in Int
    BY <2>2, FileTableAssumption DEF LowestFree, Fds
  <2> QED BY <1>2, <2>1, <2>2, <2>3, OpenInv
<1> QED BY <1>1, <1>2 DEF kopen

LEMMA KcloseInv ==
  ASSUME TableInv, ~ lost, NEW fd \in AnyFd, kclose(fd)
  PROVE  TableInv'
<1>1. CASE Closable(fd)
  BY <1>1, CloseInv DEF kclose, Closable, IsOpen
<1>2. CASE ~ Closable(fd)
  BY <1>2 DEF kclose, TableInv, TableTypeOK, FdsSound, BuffersPaired, LostByDirectory
<1> QED BY <1>1, <1>2

\* A transfer moves a position, by what it returns; or it fails; or it was a write
\* through a buffer that is not there, to a directory.
LEMMA Transfers ==
  ASSUME TableInv, NEW fd \in AnyFd, NEW c \in Counts, kread(fd, c) \/ kwrite(fd, c)
  PROVE  \/ UNCHANGED << fds, files, lost >> /\ ret' = -1
         \/ /\ fd \in Fds /\ fds[fd] # NULL /\ UNCHANGED << fds, lost >>
            /\ \E k \in Int : Advance(fds[fd], k) /\ ret' = Signed(k)
         \/ /\ lost' = TRUE /\ UNCHANGED << fds, files, ret >>
            /\ \E p \in Ptrs : files[p] # NULL /\ files[p].n \in Dirs /\ files[p].m = {"w"}
<1> DEFINE f == files[fds[fd]]
<1>1. CASE ~ IsOpen(fd)
  BY <1>1 DEF kread, kwrite
<1>2. CASE IsOpen(fd) /\ kread(fd, c)
  <2>1. PICK k \in ReadCounts(f, c) : Advance(fds[fd], k) /\ ret' = Signed(k)
    BY <1>2 DEF kread
  <2> QED BY <1>2, <2>1, CountsNat DEF kread, IsOpen
<1>3. CASE IsOpen(fd) /\ kwrite(fd, c) /\ ~ MissesBuffer(f, c)
  <2>1. PICK k \in WriteCounts(f, c) : Advance(fds[fd], k) /\ ret' = Signed(k)
    BY <1>3 DEF kwrite
  <2> QED BY <1>3, <2>1, CountsNat DEF kwrite, IsOpen
<1>4. CASE IsOpen(fd) /\ kwrite(fd, c) /\ MissesBuffer(f, c)
  <2>1. lost' = TRUE /\ UNCHANGED << fds, files, ret >>
    BY <1>4 DEF kwrite
  <2>2. fds[fd] \in Ptrs /\ f # NULL /\ f \in File
    BY <1>4, SoundTable DEF IsOpen, TableInv, TableTypeOK
  <2>3. f.m = {"w"} /\ f.n \in Files \cup Dirs /\ ~ f.d
    <3>1. Driver(f.n) = "fat" /\ f.m = {"w"} /\ ~ f.d
      BY <1>4 DEF MissesBuffer
    <3>2. f.n \in Nodes
      BY <2>2 DEF File
    <3> QED BY <3>1, <3>2 DEF Driver, Nodes, StdNodes
  <2>4. f.n \in Dirs
    BY <2>2, <2>3 DEF TableInv, BuffersPaired
  <2> QED BY <2>1, <2>2, <2>3, <2>4
<1> QED BY <1>1, <1>2, <1>3, <1>4

LEMMA TransferInv ==
  ASSUME TableInv, ~ lost, NEW fd \in AnyFd, NEW c \in Counts, kread(fd, c) \/ kwrite(fd, c)
  PROVE  TableInv'
<1>1. CASE UNCHANGED << fds, files, lost >> /\ ret' = -1
  BY <1>1 DEF TableInv, TableTypeOK, FdsSound, BuffersPaired, LostByDirectory
<1>2. CASE /\ fd \in Fds /\ fds[fd] # NULL /\ UNCHANGED << fds, lost >>
           /\ \E k \in Int : Advance(fds[fd], k) /\ ret' = Signed(k)
  <2>1. PICK k \in Int : Advance(fds[fd], k) /\ ret' = Signed(k)
    BY <1>2
  <2>2. ret' \in Int
    BY <2>1, SignedSame
  <2> QED BY <1>2, <2>1, <2>2, AdvanceInv
<1>3. CASE /\ lost' = TRUE /\ UNCHANGED << fds, files, ret >>
           /\ \E p \in Ptrs : files[p] # NULL /\ files[p].n \in Dirs /\ files[p].m = {"w"}
  BY <1>3 DEF TableInv, TableTypeOK, FdsSound, BuffersPaired, LostByDirectory
<1> QED BY <1>1, <1>2, <1>3, Transfers

LEMMA NextInv == TableInv /\ [Next]_tableVars => TableInv'
<1> SUFFICES ASSUME TableInv, [Next]_tableVars PROVE TableInv'
  OBVIOUS
<1>1. CASE UNCHANGED tableVars
  BY <1>1 DEF tableVars, TableInv, TableTypeOK, FdsSound, BuffersPaired, LostByDirectory
<1>2. CASE Next
  BY <1>2, KopenInv, KcloseInv, TransferInv DEF Next
<1> QED BY <1>1, <1>2

-----------------------------------------------------------------------------
\* The table and the memory of open files stay in step under all calls of kopen,
\* kread, kwrite and kclose: nothing dangles, is shared or is lost, and a driver's
\* buffer is there for exactly the files that will free one.
THEOREM TableInvariant == Spec => []TableInv
<1>1. Init => TableInv
  BY InitInv
<1>2. TableInv /\ [Next]_tableVars => TableInv'
  BY NextInv
<1> QED BY <1>1, <1>2, PTL DEF Spec

-----------------------------------------------------------------------------
\* kopen gives the lowest descriptor that was free, in one step, and a call that
\* fails leaves the table, and what it moves it moves by its result.
Given == \A fd \in Fds : fds[fd] = NULL /\ fds'[fd] # NULL
            => ret' = fd /\ \A i \in 0 .. fd - 1 : fds[i] # NULL
FailureSeen == /\ ret' < 0 => UNCHANGED fds
               /\ \A p \in Ptrs : ret' < 0 /\ files'[p] # files[p] =>
                     files'[p] = [files[p] EXCEPT !.idx = (@ + ret') % IdxRange]

LEMMA LowestStep ==
  ASSUME TableInv, Next
  PROVE  Given /\ FailureSeen
<1>1. TableTypeOK /\ MaxFds \in Nat
  BY FileTableAssumption DEF TableInv
<1>2. ASSUME NEW n \in Files \cup Dirs \cup {NULL}, NEW m \in ModeStrings, kopen(n, m)
      PROVE  Given /\ FailureSeen
  <2>1. CASE UNCHANGED << fds, files >>
    BY <2>1 DEF Given, FailureSeen
  <2>2. CASE \E fd \in Fds : LowestFree(fd) /\ OpenAs(fd, n, m) /\ ret' = fd
    <3>1. PICK fd \in Fds : LowestFree(fd) /\ OpenAs(fd, n, m) /\ ret' = fd
      BY <2>2
    <3>2. \A gd \in Fds \ {fd} : fds'[gd] = fds[gd]
      BY <3>1, <1>1 DEF OpenAs, TableTypeOK
    <3>3. \A i \in 0 .. fd - 1 : i \in Fds /\ ~ (fd <= i)
      BY <1>1 DEF Fds
    <3>4. \A i \in 0 .. fd - 1 : fds[i] # NULL
      BY <3>1, <3>3 DEF LowestFree, FreeFds
    <3>5. ~ (ret' < 0)
      BY <3>1, <1>1 DEF Fds
    <3> QED BY <3>1, <3>2, <3>4, <3>5 DEF Given, FailureSeen
  <2> QED BY <1>2, <2>1, <2>2 DEF kopen
<1>3. ASSUME NEW fd \in AnyFd, kclose(fd) PROVE Given /\ FailureSeen
  <2>1. \A gd \in Fds : fds'[gd] = fds[gd] \/ fds'[gd] = NULL
    BY <1>1, <1>3 DEF kclose, CloseAs, TableTypeOK
  <2>2. ret' = 0
    BY <1>3 DEF kclose
  <2> QED BY <2>1, <2>2 DEF Given, FailureSeen
<1>4. ASSUME NEW fd \in AnyFd, NEW c \in Counts, kread(fd, c) \/ kwrite(fd, c)
      PROVE  Given /\ FailureSeen
  <2>1. CASE UNCHANGED << fds, files >>
    BY <2>1 DEF Given, FailureSeen
  <2>2. CASE /\ fd \in Fds /\ fds[fd] # NULL /\ UNCHANGED fds
             /\ \E k \in Int : Advance(fds[fd], k) /\ ret' = Signed(k)
    <3> DEFINE p == fds[fd]
    <3>1. PICK k \in Int : Advance(p, k) /\ ret' = Signed(k)
      BY <2>2
    <3>2. p \in Ptrs /\ files[p] # NULL /\ files[p] \in File /\ files[p].idx \in Int
      BY <1>1, <2>2, SoundTable, FileTableAssumption DEF TableInv, TableTypeOK, File
    <3>3. /\ \A q \in Ptrs \ {p} : files'[q] = files[q]
          /\ files'[p] = [files[p] EXCEPT !.idx = (files[p].idx + k) % IdxRange]
      BY <1>1, <3>1, <3>2, AdvanceOK
    <3>4. (files[p].idx + ret') % IdxRange = (files[p].idx + k) % IdxRange
      BY <3>1, <3>2, SignedSame
    <3> HIDE DEF p
    <3> QED BY <2>2, <3>3, <3>4 DEF Given, FailureSeen
  <2> QED BY <1>4, <2>1, <2>2, Transfers
<1> QED BY <1>2, <1>3, <1>4 DEF Next

\* In every behaviour kopen gives the lowest free descriptor, and a call that returns
\* an error leaves the table as it was, and the files but for a position that has
\* moved by what was returned.
THEOREM TableLowestGiven == Spec => LowestGiven
<1>1. TableInv /\ [Next]_tableVars =>
        [ /\ \A fd \in Fds : fds[fd] = NULL /\ fds'[fd] # NULL
                => ret' = fd /\ \A i \in 0 .. fd - 1 : fds[i] # NULL
          /\ ret' < 0 => UNCHANGED fds
          /\ \A p \in Ptrs : ret' < 0 /\ files'[p] # files[p] =>
                files'[p] = [files[p] EXCEPT !.idx = (@ + ret') % IdxRange] ]_tableVars
  BY LowestStep DEF Given, FailureSeen
<1> QED BY <1>1, TableInvariant, PTL DEF Spec, LowestGiven

-----------------------------------------------------------------------------
\* What users see of a descriptor: an open file without its buffer, or that it is
\* closed.
LEMMA DescOK ==
  ASSUME TableInv
  PROVE  /\ desc \in [Fds -> [n : Nodes, m : Modes, idx : Nat] \cup {NULL}]
         /\ \A fd \in Fds : desc[fd] = NULL <=> fds[fd] = NULL
<1>1. TableTypeOK /\ FdsSound
  BY DEF TableInv
<1>2. \A fd \in Fds : fds[fd] # NULL => fds[fd] \in Ptrs /\ files[fds[fd]] \in File
  BY <1>1, SoundTable DEF TableTypeOK
<1>3. \A fd \in Fds : fds[fd] # NULL => desc[fd] \in [n : Nodes, m : Modes, idx : 0 .. IdxRange - 1]
  BY <1>2 DEF desc, File
<1>4. \A fd \in Fds : fds[fd] = NULL => desc[fd] = NULL
  BY DEF desc
<1>5. 0 .. IdxRange - 1 \subseteq Nat /\ desc = [fd \in Fds |-> desc[fd]]
  BY FileTableAssumption DEF desc
<1> QED BY <1>3, <1>4, <1>5, NullAssumption

\* Functions on the descriptors are equal if they are equal for each.
LEMMA DescFunction ==
  /\ desc = [fd \in Fds |-> desc[fd]]
  /\ desc' = [fd \in Fds |-> desc'[fd]]
BY DEF desc

LEMMA DescNext ==
  TableInv' => (\A fd \in Fds : desc[fd] = NULL <=> fds[fd] = NULL)'
<1>1. TableInv => \A fd \in Fds : desc[fd] = NULL <=> fds[fd] = NULL
  BY DescOK
<1> QED BY <1>1, PTL

LEMMA InitRefines == Init => Desc!Init
<1> SUFFICES ASSUME Init PROVE Desc!Init
  OBVIOUS
<1>1. TableInv
  BY InitInv
<1>2. \A fd \in 0 .. 2 : fd \in Fds /\ fds[fd] # NULL
  BY FileTableAssumption DEF Init, kfdinit, Fds
<1> QED BY <1>1, <1>2, DescOK DEF Desc!Init, Desc!OpenFile

\* An open is seen at the descriptor it takes, and at no other.
LEMMA OpenSeen ==
  ASSUME TableInv, NEW fd \in FreeFds, NEW n \in Nodes, NEW m \in Modes, OpenAs(fd, n, m)
  PROVE  /\ \A gd \in Fds \ {fd} : desc'[gd] = desc[gd]
         /\ desc'[fd] = [n |-> n, m |-> m, idx |-> 0] /\ fds[fd] = NULL
<1>1. PICK p \in FreePtrs : /\ fds' = [fds EXCEPT ![fd] = p]
                            /\ files' = [files EXCEPT ![p] = fs_open(n, m)]
  BY DEF OpenAs
<1>2. p \in Ptrs /\ p # NULL /\ files[p] = NULL /\ fd \in Fds /\ fds[fd] = NULL
  BY FileTableAssumption DEF FreePtrs, FreeFds
<1>3. \A gd \in Fds : fds[gd] # NULL => fds[gd] \in Ptrs \ {p}
  BY <1>2, SoundTable DEF TableInv, TableTypeOK
<1>4. \A gd \in Fds \ {fd} : desc'[gd] = desc[gd]
  <2> SUFFICES ASSUME NEW gd \in Fds \ {fd} PROVE desc'[gd] = desc[gd]
    OBVIOUS
  <2>1. fds'[gd] = fds[gd]
    BY <1>1, <1>2 DEF TableInv, TableTypeOK
  <2>2. fds[gd] # NULL => files'[fds[gd]] = files[fds[gd]]
    BY <1>1, <1>3 DEF TableInv, TableTypeOK
  <2> QED BY <2>1, <2>2 DEF desc
<1>5. desc'[fd] = [n |-> n, m |-> m, idx |-> 0]
  <2>1. fds'[fd] = p /\ files'[p] = fs_open(n, m)
    BY <1>1, <1>2 DEF TableInv, TableTypeOK
  <2> QED BY <1>2, <2>1 DEF desc, fs_open
<1> QED BY <1>2, <1>4, <1>5

\* An open changes the descriptor that it returns, and no other.
LEMMA KopenRefines ==
  ASSUME TableInv, TableInv', NEW n \in Files \cup Dirs \cup {NULL}, NEW m \in ModeStrings,
         kopen(n, m)
  PROVE  Desc!Next
<1>1. CASE UNCHANGED << fds, files >>
  BY <1>1 DEF Desc!Next, Desc!NoEffect, desc
<1>2. CASE ~ kopenFails(n, m) /\ \E fd \in Fds : LowestFree(fd) /\ OpenAs(fd, n, m) /\ ret' = fd
  <2>1. n \in Nodes /\ m \in Modes
    BY <1>2 DEF kopenFails, Nodes
  <2>2. PICK fd \in Fds : LowestFree(fd) /\ OpenAs(fd, n, m) /\ ret' = fd
    BY <1>2
  <2>3. \A gd \in Fds \ {fd} : desc'[gd] = desc[gd]
    BY <2>1, <2>2, OpenSeen DEF LowestFree
  <2>4. desc'[fd] = [n |-> n, m |-> m, idx |-> 0] /\ fds[fd] = NULL
    BY <2>1, <2>2, OpenSeen DEF LowestFree
  <2>5. desc[fd] = NULL
    BY <2>4 DEF desc
  <2>6. desc' = [desc EXCEPT ![ret'] = [n |-> n, m |-> m, idx |-> 0]]
    BY <2>2, <2>3, <2>4, DescFunction
  <2> QED BY <2>1, <2>2, <2>5, <2>6 DEF Desc!Next, Desc!Open
<1> QED BY <1>1, <1>2 DEF kopen

LEMMA KcloseRefines ==
  ASSUME TableInv, NEW fd \in AnyFd, kclose(fd)
  PROVE  Desc!Next
<1>1. CASE ~ Closable(fd)
  BY <1>1 DEF kclose, Desc!Next, Desc!NoEffect, desc
<1>2. CASE Closable(fd)
  <2>1. fd \in Fds /\ fds[fd] # NULL /\ fd \notin 0 .. 2 /\ CloseAs(fd)
    BY <1>2, FileTableAssumption DEF kclose, Closable, IsOpen, Fds
  <2>2. \A gd \in Fds \ {fd} : desc'[gd] = desc[gd]
    <3> SUFFICES ASSUME NEW gd \in Fds \ {fd} PROVE desc'[gd] = desc[gd]
      OBVIOUS
    <3>1. fds'[gd] = fds[gd]
      BY <2>1 DEF CloseAs, TableInv, TableTypeOK
    <3>2. fds[gd] # NULL => fds[gd] \in Ptrs /\ fds[gd] # fds[fd]
      BY <2>1, SoundTable DEF TableInv, TableTypeOK
    <3>3. fds[gd] # NULL => files'[fds[gd]] = files[fds[gd]]
      BY <2>1, <3>2 DEF CloseAs, TableInv, TableTypeOK
    <3> QED BY <3>1, <3>3 DEF desc
  <2>3. desc'[fd] = NULL
    BY <2>1 DEF CloseAs, TableInv, TableTypeOK, desc
  <2>4. desc' = [desc EXCEPT ![fd] = NULL]
    BY <2>2, <2>3, DescFunction
  <2>5. desc[fd] # NULL
    BY <2>1, DescOK
  <2> QED BY <2>1, <2>4, <2>5 DEF Desc!Next, Desc!Close
<1> QED BY <1>1, <1>2

LEMMA TransferRefines ==
  ASSUME TableInv, TableInv', NEW fd \in AnyFd, NEW c \in Counts, kread(fd, c) \/ kwrite(fd, c)
  PROVE  Desc!Next
<1>1. CASE UNCHANGED << fds, files >>
  BY <1>1 DEF Desc!Next, Desc!NoEffect, desc
<1>2. CASE /\ fd \in Fds /\ fds[fd] # NULL /\ UNCHANGED fds
           /\ \E k \in Int : Advance(fds[fd], k) /\ ret' = Signed(k)
  <2> DEFINE p == fds[fd]
  <2>1. fd \in Fds /\ p # NULL /\ UNCHANGED fds
    BY <1>2
  <2>2. PICK k \in Int : Advance(p, k)
    BY <1>2
  <2>3. p \in Ptrs /\ files[p] \in File /\ files[p] # NULL
    BY <2>1, SoundTable DEF TableInv, TableTypeOK
  <2>4. /\ \A q \in Ptrs \ {p} : files'[q] = files[q]
        /\ files'[p] = [files[p] EXCEPT !.idx = (files[p].idx + k) % IdxRange]
    BY <2>2, <2>3, AdvanceOK DEF TableInv
  <2>5. \A gd \in Fds \ {fd} : desc'[gd] = desc[gd]
    <3> SUFFICES ASSUME NEW gd \in Fds \ {fd} PROVE desc'[gd] = desc[gd]
      OBVIOUS
    <3>1. fds[gd] # NULL => fds[gd] \in Ptrs \ {p}
      BY <2>1, SoundTable DEF TableInv, TableTypeOK
    <3> QED BY <2>1, <2>4, <3>1 DEF desc
  <2>6. /\ desc[fd] = [n |-> files[p].n, m |-> files[p].m, idx |-> files[p].idx]
        /\ desc'[fd] = [n |-> files'[p].n, m |-> files'[p].m, idx |-> files'[p].idx]
    BY <2>1 DEF desc
  <2>7. files'[p].n = files[p].n /\ files'[p].m = files[p].m
    BY <2>3, <2>4 DEF File
  <2>8. desc'[fd] = [desc[fd] EXCEPT !.idx = desc'[fd].idx]
    BY <2>6, <2>7
  <2>9. desc' = [desc EXCEPT ![fd].idx = desc'[fd].idx]
    BY <2>1, <2>5, <2>8, DescFunction
  <2>10. desc[fd] # NULL /\ desc'[fd] # NULL
    BY <2>1, DescOK, DescNext
  <2> QED BY <2>1, <2>9, <2>10 DEF Desc!Next, Desc!Move
<1> QED BY <1>1, <1>2, Transfers

\* The kernel's table implements the abstract descriptors: whatever calls are made,
\* a descriptor changes only by a call that names it, or that returns it.
THEOREM TableImplementsDescriptors == Spec => DescriptorsSpec
<1>1. TableInv /\ TableInv' /\ [Next]_tableVars => [Desc!Next]_<< desc, ret >>
  <2> SUFFICES ASSUME TableInv, TableInv', [Next]_tableVars
               PROVE  [Desc!Next]_<< desc, ret >>
    OBVIOUS
  <2>1. CASE UNCHANGED tableVars
    BY <2>1 DEF tableVars, desc
  <2>2. CASE Next
    BY <2>2, KopenRefines, KcloseRefines, TransferRefines DEF Next
  <2> QED BY <2>1, <2>2
<1> QED BY <1>1, InitRefines, TableInvariant, PTL DEF Spec, DescriptorsSpec, Desc!Spec

-----------------------------------------------------------------------------
\* Processes.

\* The chain with what makes it inductive: there are finitely many structures, and
\* the first unit of memory holds init, which never exits, so that every process
\* that does has one below it.
ProcIInv == /\ TableInv /\ ProcInv
            /\ IsFiniteSet(Live)
            /\ image[1].prog = Root

LEMMA UnitsFact == 1 \in Units /\ MaxDepth \in Nat /\ NumPc \in Nat \ {0}
BY ProcessAssumption DEF Units

LEMMA InitProc == ProcInit => ProcIInv
<1> SUFFICES ASSUME ProcInit PROVE ProcIInv
  OBVIOUS
<1>1. TableInv
  BY InitInv DEF ProcInit, kmain, Init
<1>2. PICK q \in ProcPtrs :
        /\ cur = q
        /\ procs = [p \in ProcPtrs |-> IF p = q
                      THEN [id |-> 0, mem |-> 1, p |-> NULL, n |-> NULL, r |-> NULL, ent |-> TRUE]
                      ELSE NULL]
  BY DEF ProcInit, kmain
<1> DEFINE first == [id |-> 0, mem |-> 1, p |-> NULL, n |-> NULL, r |-> NULL, ent |-> TRUE]
<1>3. first \in Proc /\ first # NULL
  <2>1. first \in Proc
    BY UnitsFact DEF Proc, Units
  <2> QED BY <2>1, NullProcAssumption
<1>4. Live = {q}
  BY <1>2, <1>3 DEF Live
<1>5. image \in [Units -> [prog : Progs \cup {Junk}, argv : 0 .. MaxDepth]] /\ image[1].prog = Root
  BY UnitsFact, ProcessAssumption DEF ProcInit, kmain
<1>6. ProcTypeOK
  BY <1>1, <1>2, <1>3, <1>5, UnitsFact DEF ProcTypeOK, TableInv, ProcInit, kmain
<1>7. IsFiniteSet(Live) /\ Cardinality(Live) = 1
  BY <1>4, FS_Singleton
<1>8. procs[q] = first
  BY <1>2
<1>9. ChainOK
  BY <1>2, <1>4, <1>7, <1>8 DEF ChainOK
<1>10. RunningHasMemory /\ CurIsRunning
  BY <1>2, <1>4, <1>8 DEF RunningHasMemory, CurIsRunning, ProcInit, kmain
<1> QED BY <1>1, <1>5, <1>6, <1>7, <1>9, <1>10 DEF ProcIInv, ProcInv

-----------------------------------------------------------------------------
\* The chain after a process is put at its end.
LEMMA AllocOK ==
  ASSUME ProcIInv, NEW q \in ProcPtrs \ Live, procs[cur].id + 1 < MaxDepth
  PROVE  LET ps == process_alloc(q) IN
         /\ ps \in [ProcPtrs -> Proc \cup {NULL}]
         /\ ps[q] = [id |-> procs[cur].id + 1, mem |-> procs[cur].mem + 1,
                     p |-> cur, n |-> NULL, r |-> NULL, ent |-> FALSE]
         /\ ps[cur] = [procs[cur] EXCEPT !.n = q]
         /\ \A x \in ProcPtrs \ {q, cur} : ps[x] = procs[x]
         /\ ps[q] \in Proc /\ ps[cur] \in Proc /\ q # cur
         /\ procs[cur].mem + 1 \in Units
<1> DEFINE new == [id |-> procs[cur].id + 1, mem |-> procs[cur].mem + 1,
                   p |-> cur, n |-> NULL, r |-> NULL, ent |-> FALSE]
           old == [procs[cur] EXCEPT !.n = q]
<1>1. ProcTypeOK /\ ChainOK
  BY DEF ProcIInv, ProcInv
<1>2. cur \in Live /\ cur \in ProcPtrs /\ procs[cur] \in Proc /\ procs[cur].mem = procs[cur].id + 1
      /\ q # cur
  BY <1>1 DEF ProcTypeOK, ChainOK, Live
<1>3. procs[cur].id \in Nat /\ procs[cur].mem \in Nat
  BY <1>2, UnitsFact DEF Proc, Units
<1>4. new \in Proc /\ procs[cur].mem + 1 \in Units
  BY <1>2, <1>3, UnitsFact DEF Proc, Units
<1>5. old \in Proc
  BY <1>2 DEF Proc
<1>6. process_alloc(q) = [procs EXCEPT ![q] = new, ![cur] = old]
  <2>1. procs \in [ProcPtrs -> Proc \cup {NULL}]
    BY <1>1 DEF ProcTypeOK
  <2> QED BY <1>2, <2>1 DEF process_alloc
<1> HIDE DEF new, old
<1>7. /\ process_alloc(q) \in [ProcPtrs -> Proc \cup {NULL}]
      /\ process_alloc(q)[q] = new /\ process_alloc(q)[cur] = old
      /\ \A x \in ProcPtrs \ {q, cur} : process_alloc(q)[x] = procs[x]
  BY <1>1, <1>2, <1>4, <1>5, <1>6 DEF ProcTypeOK
<1> QED BY <1>2, <1>4, <1>5, <1>7 DEF new, old

\* A step that puts q at the end of the chain, whatever it stores into the last two
\* structures besides: the chain is only about ids, memory and links.
Grown(q) ==
  /\ q \in ProcPtrs \ Live /\ cur' = q
  /\ procs' \in [ProcPtrs -> Proc \cup {NULL}]
  /\ procs'[q] \in Proc /\ procs'[cur] \in Proc
  /\ procs'[q].id = procs[cur].id + 1 /\ procs'[q].mem = procs[cur].mem + 1
  /\ procs'[q].p = cur /\ procs'[q].n = NULL
  /\ procs'[cur].id = procs[cur].id /\ procs'[cur].mem = procs[cur].mem
  /\ procs'[cur].p = procs[cur].p /\ procs'[cur].n = q
  /\ procs'[cur].ent = procs[cur].ent
  /\ \A x \in ProcPtrs \ {q, cur} : procs'[x] = procs[x]

LEMMA GrowChain ==
  ASSUME ProcIInv, NEW q, Grown(q)
  PROVE  ChainOK' /\ Live' = Live \cup {q} /\ IsFiniteSet(Live')
         /\ \A x \in Live : procs'[x].mem = procs[x].mem
<1> USE DEF Grown
<1>1. ProcTypeOK /\ ChainOK /\ IsFiniteSet(Live)
  BY DEF ProcIInv, ProcInv
<1>2. cur \in Live /\ cur \in ProcPtrs /\ q \notin Live /\ procs[cur] \in Proc
  BY <1>1 DEF ProcTypeOK, ChainOK, Live
<1>3. Live' = Live \cup {q}
  BY <1>2, NullProcAssumption DEF Live
<1>4. IsFiniteSet(Live') /\ Cardinality(Live') = Cardinality(Live) + 1 /\ Cardinality(Live) \in Nat
  BY <1>1, <1>2, <1>3, FS_AddElement, FS_CardinalityType
<1>5. q # NULL /\ cur # NULL
  BY <1>2, ProcessAssumption
<1>6. procs[cur].id \in Int
  BY <1>2, UnitsFact DEF Proc
<1>7. \A x \in Live : procs[x].p # cur
  BY <1>1, <1>5, ProcessAssumption DEF ChainOK, Live
<1>8. \A x \in Live : procs[x].n # q
  BY <1>1, <1>2, <1>5 DEF ChainOK
<1>9. ASSUME NEW x \in Live'
      PROVE  /\ procs'[x].mem = procs'[x].id + 1
             /\ IF procs'[x].p = NULL THEN procs'[x].id = 0
                ELSE /\ procs'[x].p \in Live'
                     /\ procs'[procs'[x].p].n = x
                     /\ procs'[x].id = procs'[procs'[x].p].id + 1
             /\ procs'[x].n # NULL => procs'[x].n \in Live' /\ procs'[procs'[x].n].p = x
  <2>1. CASE x = q
    BY <1>1, <1>2, <1>3, <1>5, <1>6, <2>1 DEF ChainOK
  <2>2. CASE x = cur
    <3>1. procs[cur].p # cur /\ procs[cur].p # q
      BY <1>1, <1>2, <1>5, <1>7 DEF ChainOK
    <3>2. procs[cur].p \in Live => procs'[procs[cur].p] = procs[procs[cur].p]
      BY <3>1 DEF Live
    <3> QED BY <1>1, <1>2, <1>3, <1>5, <2>2, <3>2 DEF ChainOK
  <2>3. CASE x \in Live \ {cur}
    <3>1. procs'[x] = procs[x] /\ x \in ProcPtrs
      BY <1>2, <2>3 DEF Live
    <3>2. procs[x].p # NULL => procs[x].p \in Live \ {cur, q}
      BY <1>1, <1>2, <1>7, <2>3 DEF ChainOK
    <3>3. procs[x].p # NULL => procs'[procs[x].p] = procs[procs[x].p]
      BY <3>2 DEF Live
    <3>4. procs[x].n # NULL => procs[x].n \in Live /\ procs[procs[x].n].p = x
      BY <1>1, <2>3 DEF ChainOK
    <3>5. procs[x].n # NULL => procs'[procs[x].n].p = procs[procs[x].n].p
      BY <1>2, <3>4 DEF Live
    <3> QED BY <1>1, <1>3, <2>3, <3>1, <3>2, <3>3, <3>4, <3>5 DEF ChainOK
  <2> QED BY <1>3, <2>1, <2>2, <2>3
<1>10. procs'[q].id = Cardinality(Live') - 1
  BY <1>1, <1>4, <1>6 DEF ChainOK
<1>11. ChainOK'
  BY <1>3, <1>9, <1>10 DEF ChainOK
<1>12. \A x \in Live : procs'[x].mem = procs[x].mem
  BY <1>2 DEF Live
<1> QED BY <1>3, <1>4, <1>11, <1>12

\* The chain after its last process is taken away.
LEMMA ShrinkChain ==
  ASSUME ProcIInv, procs[cur].p # NULL,
         cur' = procs[cur].p,
         procs' = [procs EXCEPT ![cur] = NULL, ![procs[cur].p].n = NULL]
  PROVE  /\ ChainOK' /\ Live' = Live \ {cur} /\ IsFiniteSet(Live')
         /\ procs' \in [ProcPtrs -> Proc \cup {NULL}]
         /\ procs'[cur'].mem = procs[cur'].mem
         /\ cur' \in Live'
         /\ \A x \in Live' : /\ procs'[x].id = procs[x].id /\ procs'[x].mem = procs[x].mem
                             /\ procs'[x].r = procs[x].r /\ procs'[x].ent = procs[x].ent
                             /\ procs'[x].n = IF x = cur' THEN NULL ELSE procs[x].n
<1> DEFINE par == procs[cur].p
<1>1. ProcTypeOK /\ ChainOK /\ IsFiniteSet(Live)
  BY DEF ProcIInv, ProcInv
<1>2. /\ cur \in Live /\ cur \in ProcPtrs /\ procs[cur] \in Proc
      /\ par \in Live /\ par \in ProcPtrs /\ procs[par] \in Proc
      /\ procs[par].n = cur /\ procs[cur].id = procs[par].id + 1
  BY <1>1 DEF ProcTypeOK, ChainOK, Live
<1>3. par # cur
  BY <1>2, UnitsFact DEF Proc
<1>4. [procs[par] EXCEPT !.n = NULL] \in Proc
  BY <1>2 DEF Proc
<1>5. /\ procs' \in [ProcPtrs -> Proc \cup {NULL}]
      /\ procs'[cur] = NULL
      /\ procs'[par] = [procs[par] EXCEPT !.n = NULL]
      /\ \A x \in ProcPtrs \ {par, cur} : procs'[x] = procs[x]
  BY <1>1, <1>2, <1>3, <1>4 DEF ProcTypeOK
<1>6. /\ procs'[par].id = procs[par].id /\ procs'[par].mem = procs[par].mem
      /\ procs'[par].p = procs[par].p /\ procs'[par].n = NULL
  BY <1>2, <1>5 DEF Proc
<1>7. Live' = Live \ {cur}
  BY <1>2, <1>3, <1>4, <1>5, NullProcAssumption DEF Live
<1>8. IsFiniteSet(Live') /\ Cardinality(Live') = Cardinality(Live) - 1 /\ Cardinality(Live) \in Nat
  BY <1>1, <1>2, <1>7, FS_RemoveElement, FS_CardinalityType
<1>9. cur # NULL /\ par # NULL
  BY <1>2, ProcessAssumption
<1>10. \A x \in Live : procs[x].p # cur
  BY <1>1, <1>9, ProcessAssumption DEF ChainOK, Live
<1>11. \A x \in Live \ {cur} : procs[x].p # par
  BY <1>1, <1>2, <1>9 DEF ChainOK
<1>12. \A x \in Live \ {par} : procs[x].n # cur
  BY <1>1, <1>2, <1>9 DEF ChainOK
<1>13. ASSUME NEW x \in Live'
       PROVE  /\ procs'[x].mem = procs'[x].id + 1
              /\ IF procs'[x].p = NULL THEN procs'[x].id = 0
                 ELSE /\ procs'[x].p \in Live'
                      /\ procs'[procs'[x].p].n = x
                      /\ procs'[x].id = procs'[procs'[x].p].id + 1
              /\ procs'[x].n # NULL => procs'[x].n \in Live' /\ procs'[procs'[x].n].p = x
  <2>1. x \in Live \ {cur} /\ x \in ProcPtrs
    BY <1>7 DEF Live
  <2>2. /\ procs'[x].id = procs[x].id /\ procs'[x].mem = procs[x].mem /\ procs'[x].p = procs[x].p
        /\ procs'[x].n = IF x = par THEN NULL ELSE procs[x].n
    BY <1>5, <1>6, <2>1
  <2>3. procs[x].p # NULL => /\ procs[x].p \in Live' /\ procs'[procs[x].p] = procs[procs[x].p]
    BY <1>1, <1>5, <1>7, <1>10, <1>11, <2>1 DEF ChainOK, Live
  <2>4. x # par /\ procs[x].n # NULL =>
          procs[x].n \in Live' /\ procs'[procs[x].n].p = procs[procs[x].n].p
    BY <1>1, <1>5, <1>6, <1>7, <1>12, <2>1 DEF ChainOK, Live
  <2> QED BY <1>1, <2>1, <2>2, <2>3, <2>4 DEF ChainOK
<1>14. procs[par].id \in Int
  BY <1>2, UnitsFact DEF Proc
<1>15. procs'[par].id = Cardinality(Live') - 1
  BY <1>1, <1>2, <1>6, <1>8, <1>14 DEF ChainOK
<1>16. ChainOK'
  BY <1>2, <1>3, <1>6, <1>7, <1>13, <1>15 DEF ChainOK
<1>17. \A x \in Live' : /\ procs'[x].id = procs[x].id /\ procs'[x].mem = procs[x].mem
                        /\ procs'[x].r = procs[x].r /\ procs'[x].ent = procs[x].ent
                        /\ procs'[x].n = IF x = par THEN NULL ELSE procs[x].n
  <2>1. procs'[par].r = procs[par].r /\ procs'[par].ent = procs[par].ent
    BY <1>2, <1>5 DEF Proc
  <2> QED BY <1>5, <1>6, <1>7, <2>1 DEF Live
<1>18. procs'[cur'].mem = procs[cur'].mem /\ cur' \in Live' /\ cur' = par
  BY <1>2, <1>3, <1>6, <1>7
<1> HIDE DEF par
<1> QED BY <1>5, <1>7, <1>8, <1>16, <1>17, <1>18
-----------------------------------------------------------------------------
\* The system calls.
LEMMA LeakInv ==
  ASSUME TableInv, NEW f \in Nodes, LeakOpen(f), ret' \in Int, ~ lost, UNCHANGED lost
  PROVE  TableInv' /\ \A fd \in Fds : desc[fd] # NULL => desc'[fd] = desc[fd]
<1>1. PICK fd \in Fds : LowestFree(fd) /\ OpenAs(fd, f, {"r"})
  BY DEF LeakOpen
<1>2. fd \in FreeFds /\ {"r"} \in Modes
  BY <1>1 DEF LowestFree, Modes
<1>3. desc[fd] = NULL
  BY <1>2 DEF FreeFds, desc
<1> QED BY <1>1, <1>2, <1>3, OpenInv, OpenSeen

LEMMA NodeGiven ==
  ASSUME NEW f \in Files \cup Dirs \cup {NULL}, ~ kopenFails(f, {"r"})
  PROVE  f \in Nodes
BY DEF kopenFails, Nodes

\* A program goes on, and the table may change.
LEMMA GoesInv ==
  ASSUME ProcIInv, TableInv', Goes, UNCHANGED << cur, procs, image, pt, tlb >>
  PROVE  ProcIInv'
<1>1. eip' \in 0 .. NumPc - 1
  <2>1. eip \in 0 .. NumPc - 1
    BY DEF ProcIInv, ProcInv, ProcTypeOK
  <2> QED BY <2>1, UnitsFact DEF Goes
<1>2. ProcTypeOK'
  BY <1>1 DEF ProcIInv, ProcInv, ProcTypeOK, TableInv
<1>3. Live' = Live
  BY DEF Live
<1> QED BY <1>2, <1>3 DEF ProcIInv, ProcInv, ChainOK, RunningHasMemory, CurIsRunning, AllLoaded

LEMMA FileCallInv ==
  ASSUME ProcIInv, ~ lost, sysFile
  PROVE  ProcIInv'
<1>1. TableInv
  BY DEF ProcIInv
<1>2. ASSUME NEW n \in OpenNodes \cup {NULL}, NEW m \in OpenModes, kopen(n, m) PROVE TableInv'
  <2>1. n \in Files \cup Dirs \cup {NULL} /\ m \in ModeStrings
    BY ProcessAssumption
  <2> QED BY <1>1, <1>2, <2>1, KopenInv
<1>3. ASSUME UNCHANGED << fds, files, lost >>, ret' \in {-1, 0} PROVE TableInv'
  BY <1>1, <1>3 DEF TableInv, TableTypeOK, FdsSound, BuffersPaired,
      LostByDirectory
<1>4. TableInv'
  BY <1>1, <1>2, <1>3, KcloseInv, TransferInv DEF sysFile
<1> QED BY <1>4, GoesInv DEF sysFile

LEMMA ExecNoFileInv ==
  ASSUME ProcIInv, NEW f, execNoFile(f)
  PROVE  ProcIInv'
<1>1. TableInv'
  BY DEF ProcIInv, execNoFile, TableInv, TableTypeOK, FdsSound, BuffersPaired,
      LostByDirectory
<1> QED BY <1>1, GoesInv DEF execNoFile

LEMMA NotLoadedGrows ==
  ASSUME ProcIInv, NEW f, procs[cur].id + 1 < MaxDepth, execNotLoaded(f)
  PROVE  \E q : Grown(q) /\ procs'[q].ent = FALSE
<1>1. PICK q \in ProcPtrs \ Live : cur' = q /\ procs' = process_alloc(q)
  BY DEF execNotLoaded
<1>2. /\ procs' \in [ProcPtrs -> Proc \cup {NULL}]
      /\ procs'[q] = [id |-> procs[cur].id + 1, mem |-> procs[cur].mem + 1,
                      p |-> cur, n |-> NULL, r |-> NULL, ent |-> FALSE]
      /\ procs'[cur] = [procs[cur] EXCEPT !.n = q]
      /\ \A x \in ProcPtrs \ {q, cur} : procs'[x] = procs[x]
      /\ procs'[q] \in Proc /\ procs'[cur] \in Proc
  BY <1>1, AllocOK
<1>3. procs[cur] \in Proc
  BY DEF ProcIInv, ProcInv, ProcTypeOK, ChainOK, Live
<1>4. /\ procs'[cur].id = procs[cur].id /\ procs'[cur].mem = procs[cur].mem
      /\ procs'[cur].p = procs[cur].p /\ procs'[cur].n = q /\ procs'[cur].ent = procs[cur].ent
  BY <1>2, <1>3 DEF Proc
<1>5. /\ procs'[q].id = procs[cur].id + 1 /\ procs'[q].mem = procs[cur].mem + 1
      /\ procs'[q].p = cur /\ procs'[q].n = NULL /\ procs'[q].ent = FALSE
      /\ cur' = q
  BY <1>1, <1>2
<1> QED BY <1>2, <1>4, <1>5 DEF Grown

LEMMA ExecNotLoadedInv ==
  ASSUME ProcIInv, NEW f \in Files \cup Dirs \cup {NULL}, procs[cur].id + 1 < MaxDepth, ~ lost,
         execNotLoaded(f)
  PROVE  ProcIInv'
<1>1. TableInv'
  BY LeakInv, NodeGiven DEF ProcIInv, execNotLoaded
<1>2. PICK q : Grown(q) /\ procs'[q].ent = FALSE
  BY NotLoadedGrows
<1>3. /\ procs' \in [ProcPtrs -> Proc \cup {NULL}] /\ cur' \in ProcPtrs
  BY <1>2 DEF Grown
<1>6. /\ ChainOK' /\ Live' = Live \cup {q} /\ IsFiniteSet(Live')
      /\ \A x \in Live : procs'[x].mem = procs[x].mem
  BY <1>2, GrowChain
<1>7. eip \in 0 .. NumPc - 1 /\ eip' \in 0 .. NumPc - 1
  BY UnitsFact DEF ProcIInv, ProcInv, ProcTypeOK, execNotLoaded, Goes
<1>8. ProcTypeOK'
  BY <1>1, <1>3, <1>7 DEF execNotLoaded, ProcIInv, ProcInv, ProcTypeOK, TableInv
<1>9. RunningHasMemory'
  BY <1>6 DEF execNotLoaded, ProcIInv, ProcInv, RunningHasMemory
<1>10. ~ AllLoaded'
  BY <1>2, <1>6 DEF AllLoaded
<1> QED BY <1>1, <1>6, <1>8, <1>9, <1>10 DEF execNotLoaded, ProcIInv, ProcInv, CurIsRunning

\* What an exec that succeeds does to the chain, to memory and to the window.
Entered(f) ==
  /\ procs'[cur'].ent = TRUE
  /\ procs'[cur].r = (eip + 1) % NumPc
  /\ image' = [image EXCEPT ![procs[cur].mem + 1] =
                  [prog |-> IF f \in Progs THEN f ELSE Junk, argv |-> procs[cur].mem]]
  /\ pt' = procs[cur].mem + 1 /\ pt' \in Units

LEMMA LoadedGrows ==
  ASSUME ProcIInv, NEW f, procs[cur].id + 1 < MaxDepth, execLoaded(f)
  PROVE  \E q : Grown(q) /\ Entered(f)
<1>1. PICK q \in ProcPtrs \ Live :
        LET ps == process_alloc(q) IN
        /\ cur' = q
        /\ procs' = [ps EXCEPT ![q].ent = TRUE, ![cur].r = (eip + 1) % NumPc]
        /\ image' = [image EXCEPT ![ps[q].mem] =
                       [prog |-> IF f \in Progs THEN f ELSE Junk, argv |-> ps[cur].mem]]
        /\ process_map(ps[q].mem)
  BY DEF execLoaded
<1> DEFINE ps == process_alloc(q)
           new == [ps[q] EXCEPT !.ent = TRUE]
           old == [ps[cur] EXCEPT !.r = (eip + 1) % NumPc]
<1>2. /\ ps \in [ProcPtrs -> Proc \cup {NULL}]
      /\ ps[q] = [id |-> procs[cur].id + 1, mem |-> procs[cur].mem + 1,
                  p |-> cur, n |-> NULL, r |-> NULL, ent |-> FALSE]
      /\ ps[cur] = [procs[cur] EXCEPT !.n = q]
      /\ \A x \in ProcPtrs \ {q, cur} : ps[x] = procs[x]
      /\ ps[q] \in Proc /\ ps[cur] \in Proc /\ q # cur
      /\ procs[cur].mem + 1 \in Units
  BY AllocOK
<1>3. procs[cur] \in Proc /\ cur \in ProcPtrs /\ eip \in 0 .. NumPc - 1
      /\ image \in [Units -> [prog : Progs \cup {Junk}, argv : 0 .. MaxDepth]]
  BY DEF ProcIInv, ProcInv, ProcTypeOK, ChainOK, Live
<1>4. (eip + 1) % NumPc \in 0 .. NumPc - 1
  BY <1>3, UnitsFact
<1>5. new \in Proc /\ old \in Proc
  BY <1>2, <1>4 DEF Proc
<1>6. /\ new.id = procs[cur].id + 1 /\ new.mem = procs[cur].mem + 1
      /\ new.p = cur /\ new.n = NULL
      /\ old.id = procs[cur].id /\ old.mem = procs[cur].mem
      /\ old.p = procs[cur].p /\ old.n = q
      /\ new.ent = TRUE /\ old.ent = procs[cur].ent /\ old.r = (eip + 1) % NumPc
  BY <1>2, <1>3 DEF Proc
<1>7. ps[q].mem = procs[cur].mem + 1 /\ ps[cur].mem = procs[cur].mem
  BY <1>2, <1>3 DEF Proc
<1>8. /\ procs' = [ps EXCEPT ![q] = new, ![cur] = old] /\ cur' = q
      /\ image' = [image EXCEPT ![procs[cur].mem + 1] =
                     [prog |-> IF f \in Progs THEN f ELSE Junk, argv |-> procs[cur].mem]]
      /\ pt' = procs[cur].mem + 1
  <2>1. procs' = [ps EXCEPT ![q].ent = TRUE, ![cur].r = (eip + 1) % NumPc]
        /\ cur' = q
        /\ image' = [image EXCEPT ![ps[q].mem] =
                       [prog |-> IF f \in Progs THEN f ELSE Junk, argv |-> ps[cur].mem]]
        /\ pt' = ps[q].mem
    BY <1>1 DEF process_map
  <2> HIDE DEF ps
  <2> QED BY <1>2, <1>3, <1>7, <2>1
<1> HIDE DEF ps, new, old
<1>9. /\ procs' \in [ProcPtrs -> Proc \cup {NULL}]
       /\ procs'[q] = new /\ procs'[cur] = old
       /\ \A x \in ProcPtrs \ {q, cur} : procs'[x] = procs[x]
  BY <1>2, <1>3, <1>5, <1>8
<1>10. Grown(q)
  BY <1>5, <1>6, <1>8, <1>9 DEF Grown
<1>11. Entered(f)
  BY <1>2, <1>6, <1>8, <1>9 DEF Entered
<1> QED BY <1>10, <1>11

LEMMA ExecLoadedInv ==
  ASSUME ProcIInv, NEW f \in Files \cup Dirs \cup {NULL}, procs[cur].id + 1 < MaxDepth, ~ lost,
         execLoaded(f)
  PROVE  ProcIInv'
<1>1. TableInv'
  <2>1. ret' \in Int
    BY DEF execLoaded, SYS_EXEC
  <2> QED BY <2>1, LeakInv, NodeGiven DEF ProcIInv, execLoaded
<1>2. PICK q : Grown(q) /\ Entered(f)
  BY LoadedGrows
<1>3. ChainOK' /\ Live' = Live \cup {q} /\ IsFiniteSet(Live')
  BY <1>2, GrowChain
<1>4. tlb' = pt' /\ eip' = 0 /\ ret' \in Int
  BY DEF execLoaded, paging_invalidate, SYS_EXEC
<1>5. procs[cur].mem \in 1 .. MaxDepth
      /\ image \in [Units -> [prog : Progs \cup {Junk}, argv : 0 .. MaxDepth]]
  BY DEF ProcIInv, ProcInv, ProcTypeOK, ChainOK, Live, Proc, Units
<1>6. image' \in [Units -> [prog : Progs \cup {Junk}, argv : 0 .. MaxDepth]] /\ image'[1] = image[1]
  <2>1. [prog |-> IF f \in Progs THEN f ELSE Junk, argv |-> procs[cur].mem]
          \in [prog : Progs \cup {Junk}, argv : 0 .. MaxDepth]
    BY <1>5, UnitsFact
  <2>2. procs[cur].mem + 1 # 1
    BY <1>5, UnitsFact
  <2> QED BY <1>2, <1>5, <2>1, <2>2, UnitsFact DEF Entered
<1>7. ProcTypeOK'
  BY <1>1, <1>2, <1>4, <1>6, UnitsFact DEF ProcTypeOK, TableInv, Grown, Entered
<1>8. RunningHasMemory' /\ CurIsRunning'
  BY <1>2, <1>3, <1>4 DEF RunningHasMemory, CurIsRunning, Grown, Entered
<1> QED BY <1>1, <1>3, <1>6, <1>7, <1>8, UnitsFact DEF ProcIInv, ProcInv

\* A program that exits is not init, so it runs in memory above the first unit, and
\* that belongs to a process which is not the first; then the last one is not either.
LEMMA ExitHasParent ==
  ASSUME ProcIInv, Running # Root
  PROVE  procs[cur].p # NULL
<1>1. ProcTypeOK /\ ChainOK /\ IsFiniteSet(Live) /\ RunningHasMemory
  BY DEF ProcIInv, ProcInv
<1>2. tlb # 1
  BY DEF ProcIInv, Running
<1>3. PICK q \in Live : procs[q].mem = tlb
  BY <1>1 DEF RunningHasMemory
<1>4. procs[q].id # 0
  BY <1>1, <1>2, <1>3 DEF ChainOK
<1>5. CASE q = cur
  BY <1>1, <1>4, <1>5 DEF ChainOK
<1>6. CASE q # cur
  <2>1. /\ IsFiniteSet(Live \ {cur}) /\ Cardinality(Live \ {cur}) = Cardinality(Live) - 1
        /\ q \in Live \ {cur} /\ Cardinality(Live) \in Nat
    BY <1>1, <1>6, FS_RemoveElement, FS_CardinalityType DEF ChainOK
  <2>2. Cardinality(Live) # 1
    BY <2>1, FS_EmptySet
  <2>3. procs[cur].id # 0
    BY <1>1, <2>2 DEF ChainOK
  <2> QED BY <1>1, <2>3 DEF ChainOK
<1> QED BY <1>5, <1>6

LEMMA ExitInv ==
  ASSUME ProcIInv, Running # Root, NEW code \in Codes, sysExit(code)
  PROVE  ProcIInv'
<1> DEFINE par == procs[cur].p
<1>1. par # NULL
  BY ExitHasParent
<1>2. ProcTypeOK /\ ChainOK
  BY DEF ProcIInv, ProcInv
<1>3. par \in Live /\ procs[par].n = cur /\ procs[par] \in Proc /\ par \in ProcPtrs
  BY <1>1, <1>2 DEF ChainOK, ProcTypeOK, Live
<1>4. /\ cur' = par /\ procs' = [procs EXCEPT ![cur] = NULL, ![par].n = NULL]
      /\ eip' \in Saved(par) /\ ret' = code /\ pt' = procs[par].mem /\ tlb' = pt'
      /\ UNCHANGED << fds, files, lost, image >>
  BY <1>3 DEF sysExit, process_pop, process_map, paging_invalidate, PopKeeps
<1>5. /\ ChainOK' /\ Live' = Live \ {cur} /\ IsFiniteSet(Live')
      /\ procs' \in [ProcPtrs -> Proc \cup {NULL}]
      /\ procs'[cur'].mem = procs[cur'].mem
      /\ cur' \in Live'
  BY <1>1, <1>4, ShrinkChain
<1>6. TableInv'
  <2>1. ret' \in Int
    BY <1>4 DEF Codes
  <2> QED BY <1>4, <2>1 DEF ProcIInv, TableInv, TableTypeOK, FdsSound, BuffersPaired,
      LostByDirectory
<1>7. eip' \in 0 .. NumPc - 1
  BY <1>3, <1>4 DEF Saved, Proc
<1>8. pt' \in Units
  BY <1>3, <1>4 DEF Proc
<1>9. ProcTypeOK'
  BY <1>2, <1>3, <1>4, <1>5, <1>6, <1>7, <1>8 DEF ProcTypeOK, TableInv
<1>10. RunningHasMemory' /\ CurIsRunning'
  BY <1>4, <1>5 DEF RunningHasMemory, CurIsRunning
<1> QED BY <1>4, <1>5, <1>6, <1>9, <1>10 DEF ProcIInv, ProcInv

LEMMA ProcNext == ProcIInv /\ [ksysint]_vars => ProcIInv'
<1> SUFFICES ASSUME ProcIInv, [ksysint]_vars PROVE ProcIInv'
  OBVIOUS
<1>1. CASE ~ lost /\ sysFile
  BY <1>1, FileCallInv
<1>2. ASSUME ~ lost, NEW f \in Files \cup Dirs \cup {NULL}, sysExec(f) PROVE ProcIInv'
  BY <1>2, ExecNoFileInv, ExecNotLoadedInv, ExecLoadedInv DEF sysExec
<1>3. ASSUME Running # Root, NEW code \in Codes, sysExit(code) PROVE ProcIInv'
  BY <1>3, ExitInv
<1>4. CASE UNCHANGED vars
  <2>1. TableInv'
    BY <1>4 DEF vars, tableVars, ProcIInv, TableInv, TableTypeOK, FdsSound, BuffersPaired,
      LostByDirectory
  <2>2. Live' = Live
    BY <1>4 DEF vars, procVars, Live
  <2> QED BY <1>4, <2>1, <2>2 DEF vars, tableVars, procVars, ProcIInv, ProcInv, ProcTypeOK,
          TableTypeOK, ChainOK, RunningHasMemory, CurIsRunning, AllLoaded
<1> QED BY <1>1, <1>2, <1>3, <1>4 DEF ksysint

-----------------------------------------------------------------------------
\* The processes form one list in step with their ids and memory, the window is on
\* the memory of one of them, and the table of descriptors is sound: after any
\* programs, exits and failed execs.
THEOREM ProcInvariant == ProcSpec => [](ProcInv /\ TableInv)
<1>1. ProcIInv => ProcInv /\ TableInv
  BY DEF ProcIInv
<1> QED BY <1>1, InitProc, ProcNext, PTL DEF ProcSpec

LEMMA ProcIInvariant == ProcSpec => []ProcIInv
BY InitProc, ProcNext, PTL DEF ProcSpec

\* Running a program, or ending one, leaves every open descriptor as it was.
THEOREM ProcDescriptorsPersist == ProcSpec => DescriptorsPersist
<1> DEFINE Persist == cur' # cur => \A fd \in Fds : desc[fd] # NULL => desc'[fd] = desc[fd]
<1>1. ASSUME ProcIInv, ksysint PROVE Persist
  <2>1. CASE sysFile
    BY <2>1 DEF sysFile
  <2>2. ASSUME NEW f \in Files \cup Dirs \cup {NULL}, sysExec(f) PROVE Persist
    <3>1. CASE execNoFile(f)
      BY <3>1 DEF execNoFile
    <3>2. CASE execNotLoaded(f) \/ execLoaded(f)
      <4>1. f \in Nodes /\ LeakOpen(f) /\ ret' \in Int /\ ~ lost /\ UNCHANGED lost
        BY <1>1, <3>2, NodeGiven DEF ksysint, execNotLoaded, execLoaded, SYS_EXEC
      <4> QED BY <1>1, <4>1, LeakInv DEF ProcIInv
    <3> QED BY <2>2, <3>1, <3>2 DEF sysExec
  <2>3. ASSUME NEW code \in Codes, sysExit(code) PROVE Persist
    BY <2>3 DEF sysExit, process_pop, PopKeeps, desc
  <2> QED BY <1>1, <2>1, <2>2, <2>3 DEF ksysint
<1>2. ProcIInv /\ [ksysint]_vars => [Persist]_vars
  BY <1>1
<1> QED BY <1>2, ProcIInvariant, PTL DEF ProcSpec, DescriptorsPersist

-----------------------------------------------------------------------------
\* exec and exit are call and return: the processes, the window and the saved
\* registers implement the abstract stack of module CallStack.

\* The chain as a sequence: one process for each id up to that of cur, and each
\* that started a program has its registers saved.
ListInv ==
  /\ \A q, s \in Live : procs[q].id = procs[s].id => q = s
  /\ \A q \in Live : procs[q].id \in 0 .. procs[cur].id
  /\ \A i \in 0 .. procs[cur].id : \E q \in Live : procs[q].id = i
  /\ \A q \in Live : procs[q].n # NULL /\ procs[procs[q].n].ent => procs[q].r # NULL

StackIInv == ProcIInv /\ ListInv

LEMMA ProcFacts ==
  ASSUME ProcIInv
  PROVE  /\ cur \in Live /\ procs[cur].n = NULL
         /\ \A q \in Live : /\ q \in ProcPtrs /\ procs[q] \in Proc
                            /\ procs[q].id \in Nat /\ procs[q].mem = procs[q].id + 1
                            /\ procs[q].n # NULL => procs[q].n \in Live
         /\ eip \in 0 .. NumPc - 1
         /\ image \in [Units -> [prog : Progs \cup {Junk}, argv : 0 .. MaxDepth]]
         /\ tlb \in Units
BY UnitsFact DEF ProcIInv, ProcInv, ProcTypeOK, ChainOK, Live, Proc

LEMMA InitList == ProcInit => StackIInv
<1> SUFFICES ASSUME ProcInit PROVE StackIInv
  OBVIOUS
<1>1. ProcIInv
  BY InitProc
<1>2. \A q \in ProcPtrs : q # cur => procs[q] = NULL
  BY DEF ProcInit, kmain
<1>3. Live = {cur}
  BY <1>1, <1>2, ProcFacts DEF Live
<1>4. procs[cur].id = 0 /\ procs[cur].n = NULL
  BY <1>1, ProcFacts DEF ProcInit, kmain
<1> QED BY <1>1, <1>3, <1>4 DEF StackIInv, ListInv

-----------------------------------------------------------------------------
\* The sequence under the steps.
LEMMA ListSame ==
  ASSUME StackIInv, UNCHANGED << cur, procs >>
  PROVE  ListInv'
BY DEF StackIInv, ListInv, Live

LEMMA ListGrown ==
  ASSUME StackIInv, NEW q, Grown(q), procs'[q].ent => procs'[cur].r # NULL
  PROVE  ListInv'
<1>1. Live' = Live \cup {q} /\ q \notin Live /\ cur' = q /\ cur \in Live /\ q # cur
  BY GrowChain, ProcFacts DEF StackIInv, Grown
<1>2. \A x \in Live : procs'[x].id = procs[x].id /\ procs[x].id \in Nat
  BY ProcFacts DEF StackIInv, Grown, Live
<1>3. procs'[q].id = procs[cur].id + 1 /\ procs[cur].id \in Nat
  BY <1>1, <1>2 DEF Grown
<1>4. \A x, s \in Live' : procs'[x].id = procs'[s].id => x = s
  BY <1>1, <1>2, <1>3 DEF StackIInv, ListInv
<1>5. \A x \in Live' : procs'[x].id \in 0 .. procs'[cur'].id
  BY <1>1, <1>2, <1>3 DEF StackIInv, ListInv
<1>6. \A i \in 0 .. procs'[cur'].id : \E x \in Live' : procs'[x].id = i
  <2> TAKE i \in 0 .. procs'[cur'].id
  <2>1. CASE i = procs'[q].id
    BY <1>1, <2>1
  <2>2. CASE i # procs'[q].id
    <3>1. i \in 0 .. procs[cur].id
      BY <1>1, <1>3, <2>2
    <3> QED BY <1>1, <1>2, <3>1 DEF StackIInv, ListInv
  <2> QED BY <2>1, <2>2
<1>7. ASSUME NEW x \in Live', procs'[x].n # NULL, procs'[procs'[x].n].ent
      PROVE  procs'[x].r # NULL
  <2>1. CASE x = q
    BY <1>7, <2>1 DEF Grown
  <2>2. CASE x = cur
    BY <1>7, <2>2 DEF Grown
  <2>3. CASE x \in Live \ {cur}
    <3>1. procs'[x] = procs[x]
      BY <1>1, <2>3 DEF Grown, Live
    <3>2. procs[x].n \in Live
      BY <1>7, <2>3, <3>1, ProcFacts DEF StackIInv
    <3>3. procs'[procs[x].n].ent = procs[procs[x].n].ent
      BY <1>1, <3>2 DEF Grown, Live
    <3> QED BY <1>7, <2>3, <3>1, <3>3 DEF StackIInv, ListInv
  <2> QED BY <1>1, <2>1, <2>2, <2>3
<1> QED BY <1>4, <1>5, <1>6, <1>7 DEF ListInv

\* What exit does to the chain.
Left(code) ==
  /\ procs[cur].p # NULL /\ cur' = procs[cur].p
  /\ procs' = [procs EXCEPT ![cur] = NULL, ![procs[cur].p].n = NULL]
  /\ eip' \in Saved(cur')
  /\ ret' = code /\ tlb' = procs[cur'].mem
  /\ image' = image

LEMMA ExitLeaves ==
  ASSUME ProcIInv, Running # Root, NEW code \in Codes, sysExit(code)
  PROVE  Left(code)
<1> DEFINE par == procs[cur].p
<1>1. par # NULL
  BY ExitHasParent
<1>2. par \in Live /\ procs[par].n = cur
  BY <1>1 DEF ProcIInv, ProcInv, ChainOK
<1> QED BY <1>1, <1>2 DEF Left, sysExit, process_pop, process_map, paging_invalidate

LEMMA ShrunkFacts ==
  ASSUME ProcIInv, NEW code, Left(code)
  PROVE  /\ Live' = Live \ {cur} /\ cur' \in Live' /\ procs[cur'].n = cur
         /\ procs[cur].id = procs[cur'].id + 1
         /\ \A x \in Live' : /\ procs'[x].id = procs[x].id /\ procs'[x].mem = procs[x].mem
                             /\ procs'[x].r = procs[x].r /\ procs'[x].ent = procs[x].ent
                             /\ procs'[x].n = IF x = cur' THEN NULL ELSE procs[x].n
<1>1. procs[cur].p # NULL /\ cur' = procs[cur].p
      /\ procs' = [procs EXCEPT ![cur] = NULL, ![procs[cur].p].n = NULL]
  BY DEF Left
<1>2. procs[cur'].n = cur /\ procs[cur].id = procs[cur'].id + 1
  BY <1>1 DEF ProcIInv, ProcInv, ChainOK
<1> QED BY <1>1, <1>2, ShrinkChain

LEMMA ListShrunk ==
  ASSUME StackIInv, NEW code, Left(code)
  PROVE  ListInv'
<1>1. /\ Live' = Live \ {cur} /\ cur' \in Live' /\ cur \in Live
      /\ procs[cur].id = procs[cur'].id + 1
      /\ \A x \in Live' : /\ procs'[x].id = procs[x].id
                          /\ procs'[x].r = procs[x].r /\ procs'[x].ent = procs[x].ent
                          /\ procs'[x].n = IF x = cur' THEN NULL ELSE procs[x].n
  BY ShrunkFacts, ProcFacts DEF StackIInv
<1>2. \A x \in Live : procs[x].id \in Nat
  BY ProcFacts DEF StackIInv
<1>3. \A x \in Live' : procs[x].id # procs[cur].id
  BY <1>1 DEF StackIInv, ListInv
<1>4. \A x \in Live' : procs'[x].id \in 0 .. procs'[cur'].id
  BY <1>1, <1>2, <1>3 DEF StackIInv, ListInv
<1>5. \A i \in 0 .. procs'[cur'].id : \E x \in Live' : procs'[x].id = i
  <2> TAKE i \in 0 .. procs'[cur'].id
  <2>1. i \in 0 .. procs[cur].id /\ i # procs[cur].id
    BY <1>1, <1>2
  <2>2. PICK x \in Live : procs[x].id = i
    BY <2>1 DEF StackIInv, ListInv
  <2> QED BY <1>1, <2>1, <2>2
<1>6. ASSUME NEW x \in Live', procs'[x].n # NULL, procs'[procs'[x].n].ent
      PROVE  procs'[x].r # NULL
  <2>1. procs[x].n = procs'[x].n /\ procs[x].n \in Live /\ procs'[x].r = procs[x].r
    BY <1>1, <1>6, ProcFacts DEF StackIInv
  <2>2. procs[x].n # cur
    <3>1. procs[procs[x].n].p = x
      BY <1>1, <1>6, <2>1 DEF StackIInv, ProcIInv, ProcInv, ChainOK
    <3> QED BY <1>1, <1>6, <2>1, <3>1 DEF Left
  <2>3. procs'[procs[x].n].ent = procs[procs[x].n].ent
    BY <1>1, <2>1, <2>2
  <2> QED BY <1>1, <1>6, <2>1, <2>3 DEF StackIInv, ListInv
<1>7. \A x, s \in Live' : procs'[x].id = procs'[s].id => x = s
  BY <1>1 DEF StackIInv, ListInv
<1> QED BY <1>4, <1>5, <1>6, <1>7 DEF ListInv

LEMMA LoadedSaves ==
  ASSUME ProcIInv, NEW f, NEW q, Grown(q), Entered(f)
  PROVE  procs'[cur].r \in 0 .. NumPc - 1 /\ procs'[cur].r # NULL
<1>1. eip \in 0 .. NumPc - 1
  BY ProcFacts
<1>2. (eip + 1) % NumPc \in 0 .. NumPc - 1
  BY <1>1, UnitsFact
<1> QED BY <1>2, NullProcAssumption DEF Entered

LEMMA ListNext == StackIInv /\ [ksysint]_vars => StackIInv'
<1> SUFFICES ASSUME StackIInv, [ksysint]_vars PROVE StackIInv'
  OBVIOUS
<1>1. ProcIInv /\ ProcIInv'
  BY ProcNext DEF StackIInv
<1>2. CASE UNCHANGED << cur, procs >>
  BY <1>1, <1>2, ListSame DEF StackIInv
<1>3. ASSUME NEW f \in Files \cup Dirs \cup {NULL}, sysExec(f) PROVE ListInv'
  <2>1. CASE execNoFile(f)
    BY <2>1, ListSame DEF execNoFile
  <2>2. CASE execNotLoaded(f)
    <3>1. PICK q : Grown(q) /\ procs'[q].ent = FALSE
      BY <1>1, <1>3, <2>2, NotLoadedGrows DEF sysExec
    <3> QED BY <3>1, ListGrown
  <2>3. CASE execLoaded(f)
    <3>1. PICK q : Grown(q) /\ Entered(f)
      BY <1>1, <1>3, <2>3, LoadedGrows DEF sysExec
    <3> QED BY <1>1, <3>1, LoadedSaves, ListGrown
  <2> QED BY <1>3, <2>1, <2>2, <2>3 DEF sysExec
<1>4. ASSUME Running # Root, NEW code \in Codes, sysExit(code) PROVE ListInv'
  BY <1>1, <1>4, ExitLeaves, ListShrunk
<1> QED BY <1>1, <1>2, <1>3, <1>4 DEF ksysint, sysFile, vars, procVars, StackIInv

LEMMA StackAlways == ProcSpec => []StackIInv
BY InitList, ListNext, PTL DEF ProcSpec

-----------------------------------------------------------------------------
\* Frames, with Pos put into words of the chain: a process's memory is its place in
\* the stack, and the process there is the only one.
LEMMA PosAt == StackIInv => \A q \in Live : Pos(procs[q].id + 1) = q
<1> SUFFICES ASSUME StackIInv, NEW q \in Live PROVE Pos(procs[q].id + 1) = q
  OBVIOUS
<1>1. procs[q].id \in Nat
  BY ProcFacts DEF StackIInv
<1>2. (procs[q].id + 1) - 1 = procs[q].id
  BY <1>1
<1>3. \A x \in Live : procs[x].id = (procs[q].id + 1) - 1 <=> x = q
  BY <1>2 DEF StackIInv, ListInv
<1> QED BY <1>3 DEF Pos

LEMMA PosIn ==
  StackIInv => \A i \in 1 .. Depth : /\ Pos(i) \in Live /\ procs[Pos(i)].id = i - 1
                                    /\ procs[Pos(i)].mem = i
<1> SUFFICES ASSUME StackIInv, NEW i \in 1 .. Depth
             PROVE  Pos(i) \in Live /\ procs[Pos(i)].id = i - 1 /\ procs[Pos(i)].mem = i
  OBVIOUS
<1>1. procs[cur].id \in Nat
  BY ProcFacts DEF StackIInv
<1>2. i - 1 \in 0 .. procs[cur].id
  BY <1>1 DEF Depth
<1>3. \E q \in Live : procs[q].id = i - 1
  BY <1>2 DEF StackIInv, ListInv
<1>4. Pos(i) \in Live /\ procs[Pos(i)].id = i - 1
  BY <1>3 DEF Pos
<1> QED BY <1>4, ProcFacts DEF StackIInv

\* A frame while every process was loaded: the one that runs is then cur.
FrameAt(i) == [prog |-> image[i].prog, argv |-> image[i].argv,
               pc |-> IF i = Depth THEN eip ELSE procs[Pos(i)].r]

LEMMA FramesLoaded ==
  StackIInv /\ AllLoaded => /\ Frames = [i \in 1 .. Depth |-> FrameAt(i)]
                           /\ tlb = Depth /\ Depth \in Nat \ {0}
                           /\ Pos(Depth) = cur
<1> SUFFICES ASSUME StackIInv, AllLoaded
             PROVE  /\ Frames = [i \in 1 .. Depth |-> FrameAt(i)]
                    /\ tlb = Depth /\ Depth \in Nat \ {0}
                    /\ Pos(Depth) = cur
  OBVIOUS
<1>1. /\ cur \in Live /\ procs[cur].mem = Depth /\ tlb = procs[cur].mem
      /\ Depth \in Nat \ {0}
  BY ProcFacts DEF StackIInv, ProcIInv, ProcInv, CurIsRunning, Depth
<1>2. Pos(Depth) = cur
  BY <1>1, PosAt DEF Depth
<1>3. \A i \in 1 .. Depth : procs[Pos(i)].mem = i
  BY PosIn
<1> QED BY <1>1, <1>2, <1>3 DEF Frames, FrameAt

\* The same of the next state.
LEMMA FramesNext ==
  (StackIInv /\ AllLoaded => /\ Frames = [i \in 1 .. Depth |-> FrameAt(i)]
                            /\ tlb = Depth /\ Depth \in Nat \ {0}
                            /\ Pos(Depth) = cur)'
BY FramesLoaded, PTL

LEMMA PosNext == (StackIInv => \A q \in Live : Pos(procs[q].id + 1) = q)'
BY PosAt, PTL

-----------------------------------------------------------------------------
\* Every step from one state with all processes loaded to another is one of the
\* stack's.
LEMMA GoesIsCall ==
  ASSUME StackIInv, StackIInv', AllLoaded, AllLoaded', Goes,
         UNCHANGED << cur, procs, image >>
  PROVE  Calls!Call
<1>1. /\ Frames = [i \in 1 .. Depth |-> FrameAt(i)]
      /\ Frames' = [i \in 1 .. Depth |-> FrameAt(i)']
      /\ Depth \in Nat \ {0} /\ Depth' = Depth
  BY FramesLoaded, FramesNext DEF Depth
<1>2. \A i \in 1 .. Depth : Pos(i)' = Pos(i)
  BY DEF Pos, Live
<1>3. \A i \in 1 .. Depth :
        FrameAt(i)' = IF i = Depth THEN [FrameAt(i) EXCEPT !.pc = (@ + 1) % NumPc] ELSE FrameAt(i)
  BY <1>1, <1>2 DEF FrameAt, Goes
<1>4. Len(Frames) = Depth
  BY <1>1
<1>5. Frames' = [Frames EXCEPT ![Depth].pc = (@ + 1) % NumPc]
  <2> HIDE DEF Frames, FrameAt, Depth
  <2> QED BY <1>1, <1>3
<1> QED BY <1>4, <1>5 DEF Calls!Call, Calls!Resume, Calls!Depth

LEMMA ExecIsExec ==
  ASSUME StackIInv, StackIInv', AllLoaded, AllLoaded', NEW f, NEW q, Grown(q), Entered(f),
         eip' = 0
  PROVE  f \in Progs /\ Calls!Exec(f)
<1>1. /\ Frames = [i \in 1 .. Depth |-> FrameAt(i)]
      /\ Frames' = [i \in 1 .. Depth' |-> FrameAt(i)']
      /\ Depth \in Nat \ {0} /\ Pos(Depth) = cur
  BY FramesLoaded, FramesNext
<1>2. /\ cur \in Live /\ procs[cur].mem = Depth /\ procs[cur].id = Depth - 1
      /\ \A x \in Live : x \in ProcPtrs /\ procs[x].id \in Nat
      /\ image \in [Units -> [prog : Progs \cup {Junk}, argv : 0 .. MaxDepth]]
  BY <1>1, ProcFacts DEF StackIInv, Depth
<1>3. Depth' = Depth + 1 /\ Live' = Live \cup {q} /\ cur' = q /\ q # cur
  BY <1>1, <1>2, GrowChain DEF Grown, Depth, StackIInv
<1>4. \A x \in Live : procs'[x].id = procs[x].id
  BY <1>2 DEF Grown
<1>5. ASSUME NEW i \in 1 .. Depth PROVE Pos(i)' = Pos(i)
  <2>1. Pos(i) \in Live /\ procs[Pos(i)].id + 1 = i
    BY PosIn
  <2>2. Pos(i) \in Live' /\ procs'[Pos(i)].id + 1 = i
    BY <1>3, <1>4, <2>1
  <2> HIDE DEF Pos
  <2> DEFINE x == Pos(i)
  <2>3. x \in Live' /\ procs'[x].id + 1 = i
    BY <2>2
  <2> HIDE DEF x
  <2>4. \A y \in Live' : Pos(procs[y].id + 1)' = y
    BY PosNext
  <2> QED BY <2>3, <2>4 DEF x
<1>6. /\ image'[Depth + 1] = [prog |-> IF f \in Progs THEN f ELSE Junk, argv |-> Depth]
      /\ \A i \in 1 .. Depth : image'[i] = image[i]
  <2>1. Depth + 1 \in Units /\ image' = [image EXCEPT ![Depth + 1] =
                        [prog |-> IF f \in Progs THEN f ELSE Junk, argv |-> Depth]]
    BY <1>2 DEF Entered
  <2> QED BY <1>1, <1>2, <2>1
<1>7. f \in Progs
  <2>1. procs'[q].mem = Depth + 1 /\ q \in Live'
    BY <1>2, <1>3 DEF Grown
  <2> QED BY <1>6, <2>1 DEF AllLoaded
<1>8. \A i \in {Depth + 1} : FrameAt(i)' = [prog |-> f, pc |-> 0, argv |-> Depth]
  BY <1>1, <1>3, <1>6, <1>7 DEF FrameAt
<1>9. ASSUME NEW i \in 1 .. Depth
      PROVE  FrameAt(i)' = IF i = Depth THEN [FrameAt(i) EXCEPT !.pc = (@ + 1) % NumPc] ELSE FrameAt(i)
  <2>1. i # Depth'
    BY <1>1, <1>3
  <2>2. CASE i = Depth
    <3>1. Pos(i)' = cur
      BY <1>1, <1>5, <2>2
    <3>2. procs'[cur].r = (eip + 1) % NumPc
      BY DEF Entered
    <3> QED BY <1>6, <2>1, <2>2, <3>1, <3>2 DEF FrameAt
  <2>3. CASE i # Depth
    <3>1. Pos(i) \in Live /\ Pos(i) # cur
      BY <1>1, <1>2, <2>3, PosIn
    <3>2. procs'[Pos(i)] = procs[Pos(i)]
      BY <1>2, <3>1 DEF Grown
    <3>3. Pos(i)' = Pos(i)
      BY <1>5
    <3> QED BY <1>6, <2>1, <2>3, <3>2, <3>3 DEF FrameAt
  <2> QED BY <2>2, <2>3
<1>10. Len(Frames) = Depth
  BY <1>1
<1>11. Frames' = Append([Frames EXCEPT ![Depth].pc = (@ + 1) % NumPc],
                        [prog |-> f, pc |-> 0, argv |-> Depth])
  <2> HIDE DEF Frames, FrameAt, Depth
  <2> DEFINE F == [Frames EXCEPT ![Depth].pc = (@ + 1) % NumPc]
  <2>1. F = [i \in 1 .. Depth |-> FrameAt(i)']
    BY <1>1, <1>9
  <2> HIDE DEF F
  <2>2. Frames' = [i \in 1 .. Depth + 1 |-> FrameAt(i)']
    BY <1>1, <1>3
  <2>3. Append(F, [prog |-> f, pc |-> 0, argv |-> Depth])
          = [i \in 1 .. Depth + 1 |-> IF i = Depth + 1 THEN [prog |-> f, pc |-> 0, argv |-> Depth]
                                     ELSE F[i]]
    BY <1>1, <2>1
  <2>4. \A i \in 1 .. Depth + 1 :
          FrameAt(i)' = IF i = Depth + 1 THEN [prog |-> f, pc |-> 0, argv |-> Depth] ELSE F[i]
    BY <1>1, <1>8, <2>1
  <2>5. Frames' = Append(F, [prog |-> f, pc |-> 0, argv |-> Depth])
    BY <2>2, <2>3, <2>4
  <2> QED BY <2>5 DEF F
<1> QED BY <1>7, <1>10, <1>11 DEF Calls!Exec, Calls!Resume, Calls!Depth

LEMMA ExitIsExit ==
  ASSUME StackIInv, StackIInv', AllLoaded, AllLoaded', NEW code \in Codes, Left(code)
  PROVE  Calls!Exit
<1>1. /\ Frames = [i \in 1 .. Depth |-> FrameAt(i)]
      /\ Frames' = [i \in 1 .. Depth' |-> FrameAt(i)']
      /\ Depth \in Nat \ {0} /\ Depth' \in Nat \ {0}
      /\ Pos(Depth) = cur /\ Pos(Depth)' = cur'
  BY FramesLoaded, FramesNext
<1>2. /\ Live' = Live \ {cur} /\ cur' \in Live' /\ procs[cur'].n = cur
      /\ procs[cur].id = procs[cur'].id + 1
      /\ \A x \in Live' : procs'[x].id = procs[x].id /\ procs'[x].r = procs[x].r
  BY ShrunkFacts DEF StackIInv
<1>3. Depth' = Depth - 1
  <2>1. procs'[cur'].id = procs[cur].id - 1 /\ procs[cur].id \in Nat
    BY <1>2, ProcFacts DEF StackIInv
  <2> QED BY <2>1 DEF Depth
<1>4. ASSUME NEW i \in 1 .. Depth' PROVE Pos(i)' = Pos(i) /\ Pos(i) \in Live'
  <2>1. i \in 1 .. Depth /\ i # Depth
    BY <1>1, <1>3
  <2>2. Pos(i) \in Live /\ procs[Pos(i)].id = i - 1 /\ procs[cur].id = Depth - 1
    BY <1>1, <2>1, PosIn
  <2> DEFINE x == Pos(i)
  <2>3. x \in Live' /\ procs'[x].id + 1 = i
    BY <1>1, <1>2, <2>1, <2>2
  <2> HIDE DEF x
  <2>4. \A y \in Live' : Pos(procs[y].id + 1)' = y
    BY PosNext
  <2> QED BY <2>3, <2>4 DEF x
<1>5. eip' = procs[cur'].r
  <2>1. cur \in Live /\ procs[cur].ent /\ cur # NULL
    BY ProcFacts, ProcessAssumption DEF StackIInv, AllLoaded
  <2>2. procs[cur'].r # NULL
    BY <1>2, <2>1 DEF StackIInv, ListInv
  <2> QED BY <2>2 DEF Left, Saved
<1>6. ASSUME NEW i \in 1 .. Depth' PROVE FrameAt(i)' = FrameAt(i)
  <2>1. i # Depth /\ image' = image
    BY <1>1, <1>3 DEF Left
  <2>2. Pos(i)' = Pos(i) /\ procs'[Pos(i)].r = procs[Pos(i)].r
    BY <1>2, <1>4
  <2>3. i = Depth' => Pos(i) = cur'
    BY <1>1, <2>2
  <2> QED BY <1>5, <2>1, <2>2, <2>3 DEF FrameAt
<1>7. Len(Frames) = Depth /\ Depth > 1
  <2>1. Depth > 1
    BY <1>1, <1>3
  <2> QED BY <1>1, <2>1
<1>8. Frames' = SubSeq(Frames, 1, Depth - 1)
  <2> HIDE DEF Frames, FrameAt, Depth
  <2>1. SubSeq(Frames, 1, Depth - 1) = [i \in 1 .. Depth - 1 |-> Frames[i]]
    BY <1>1
  <2>3. \A i \in 1 .. Depth - 1 : Frames[i] = FrameAt(i)'
    BY <1>1, <1>3, <1>6
  <2> QED BY <1>1, <1>3, <2>1, <2>3
<1>9. ret' >= 0
  BY DEF Left, Codes
<1> QED BY <1>7, <1>8, <1>9 DEF Calls!Exit, Calls!Depth

-----------------------------------------------------------------------------
\* exec and exit implement the abstract stack, in all steps between states in which
\* every process was loaded: a program that another runs starts at its beginning
\* with its caller's argument, and the caller goes on where it stopped, in its
\* own memory.
THEOREM ProcessImplementsCallStack == ProcSpec => CallStackSpec
<1>1. ASSUME ProcInit PROVE Calls!Init
  <2>1. StackIInv
    BY <1>1, InitList
  <2>2. /\ \A q \in ProcPtrs : q # cur => procs[q] = NULL
        /\ procs[cur].id = 0 /\ procs[cur].ent = TRUE /\ procs[cur].mem = 1
        /\ image[1] = [prog |-> Root, argv |-> 0] /\ eip = 0
    BY <1>1, <2>1, ProcFacts, UnitsFact DEF ProcInit, kmain, StackIInv
  <2>3. AllLoaded
    BY <2>2, ProcessAssumption DEF AllLoaded, Live
  <2>4. Frames = [i \in 1 .. Depth |-> FrameAt(i)] /\ Depth = 1
    BY <2>1, <2>2, <2>3, FramesLoaded DEF Depth
  <2>5. FrameAt(1) = [prog |-> Root, pc |-> 0, argv |-> 0]
    BY <2>2, <2>4 DEF FrameAt
  <2> HIDE DEF Frames, FrameAt, Depth
  <2>6. Frames = [i \in 1 .. 1 |-> [prog |-> Root, pc |-> 0, argv |-> 0]]
    BY <2>4, <2>5
  <2> QED BY <2>6 DEF Calls!Init
<1>2. ASSUME StackIInv, StackIInv', ksysint, AllLoaded, AllLoaded' PROVE Calls!Next
  <2>1. CASE sysFile
    BY <1>2, <2>1, GoesIsCall DEF sysFile, Calls!Next
  <2>2. ASSUME NEW f \in Files \cup Dirs \cup {NULL}, sysExec(f) PROVE Calls!Next
    <3>1. CASE execNoFile(f)
      BY <1>2, <3>1, GoesIsCall DEF execNoFile, Calls!Next
    <3>2. CASE execNotLoaded(f)
      <4>1. PICK q : Grown(q) /\ procs'[q].ent = FALSE
        BY <1>2, <2>2, <3>2, NotLoadedGrows DEF sysExec, StackIInv
      <4>2. q \in Live'
        BY <1>2, <4>1, GrowChain DEF StackIInv
      <4> QED BY <1>2, <4>1, <4>2 DEF AllLoaded
    <3>3. CASE execLoaded(f)
      <4>1. PICK q : Grown(q) /\ Entered(f)
        BY <1>2, <2>2, <3>3, LoadedGrows DEF sysExec, StackIInv
      <4>2. eip' = 0
        BY <3>3 DEF execLoaded
      <4> QED BY <1>2, <4>1, <4>2, ExecIsExec DEF Calls!Next
    <3> QED BY <2>2, <3>1, <3>2, <3>3 DEF sysExec
  <2>3. ASSUME Running # Root, NEW code \in Codes, sysExit(code) PROVE Calls!Next
    BY <1>2, <2>3, ExitLeaves, ExitIsExit DEF StackIInv, Calls!Next
  <2> QED BY <1>2, <2>1, <2>2, <2>3 DEF ksysint
<1>3. StackIInv /\ StackIInv' /\ [ksysint]_vars => [AllLoaded /\ AllLoaded' => Calls!Next]_vars
  BY <1>2
<1> QED BY <1>1, <1>3, StackAlways, PTL DEF ProcSpec, CallStackSpec
==============================================================================

---------------------------------- MODULE Fat ----------------------------------
(***************************************************************************)
(* Files on a FAT32 volume, src/kernel/fs/fat.c, with fs_open,             *)
(* fs_read, fs_write and fs_close of src/kernel/fs/fs.c that call it: the  *)
(* file allocation table and its one cached sector, the chains of          *)
(* clusters, and the open files with their buffers of one cluster.         *)
(*                                                                         *)
(* A call runs to its end before the next begins: no interrupt handler     *)
(* comes here.  A call for c bytes does what c calls for one byte do, so   *)
(* only these, and calls for none, are steps.  The copies of the table are *)
(* all written alike and only the first is read: it is the one kept here.  *)
(* Files that are open in both modes transfer nothing and are left out.    *)
(*                                                                         *)
(* A byte is told from others by when it was written.                      *)
(***************************************************************************)
EXTENDS Naturals, Sequences, FiniteSets

CONSTANTS
  Files,        \* the files: each a node of the tree and an entry of a directory
  Handles,      \* the open files there can be
  NULL,         \* no open file
  ClSizes,      \* the numbers of bytes a cluster can have
  PerSector,    \* entries in a sector of the table (128)
  Spf,          \* sectors of the table
  Root,         \* the first cluster of the root directory
  Inode,        \* the first cluster of each file
  Fat0, Len0,   \* the table and the lengths of files on the volume that is mounted
  MaxWrites,    \* bound: bytes written
  MaxOpens,     \* bound: files opened
  MaxPos,       \* bound: file positions (2^32 in the code)
  AnyPos,       \* bound: the positions a count that was never set can lead to
  AnyCluster    \* bound: the clusters a search without a result can seem to give

Sectors == 0 .. Spf - 1
Slots   == 0 .. PerSector - 1
Entries == 0 .. Spf * PerSector - 1
Clusters == Entries \ {0, 1}

\* The end of a chain, 0x0ffffff8, is more than the number of any cluster.
EOC == Spf * PerSector

\* A table fat by its entries: the sector of an entry, the cluster after c, the
\* clusters one comes to from cluster h and then the end, the last of them.
SectorOf(e) == e \div PerSector
After(fat, c) == fat[SectorOf(c)][c % PerSector]
Onward(fat, c) == IF c \in Clusters THEN After(fat, c) ELSE EOC
Walk(fat, h) == LET at[k \in 0 .. EOC] == IF k = 0 THEN h ELSE Onward(fat, at[k - 1])
                IN  at
Chain(fat, h) == { Walk(fat, h)[k] : k \in 0 .. EOC }
LastOf(fat, h) == CHOOSE c \in Chain(fat, h) \cap Clusters : After(fat, c) = EOC

\* The chains of the files and of the root directory.
Heads == {Root} \cup { Inode[n] : n \in Files }

\* A sound table: chains end and have no cluster in common, and a cluster that is
\* in use is in one of them.
WellFormed(fat) ==
  /\ \A h \in Heads : EOC \in Chain(fat, h) /\ Chain(fat, h) \subseteq Clusters \cup {EOC}
  /\ \A h, k \in Heads : h # k => Chain(fat, h) \cap Chain(fat, k) = {EOC}
  /\ { c \in Clusters : After(fat, c) # 0 } = (UNION { Chain(fat, h) : h \in Heads }) \ {EOC}

\* The bytes a file's chain has room for, in clusters of c bytes.
RoomIn(fat, n, c) == c * Cardinality(Chain(fat, Inode[n]) \cap Clusters)

\* The volume that is mounted is sound, and no two files have their first cluster in
\* common.
ASSUME FatAssumption ==
  /\ ClSizes \subseteq Nat \ {0} /\ PerSector \in Nat \ {0, 1} /\ Spf \in Nat \ {0}
  /\ MaxWrites \in Nat /\ MaxOpens \in Nat /\ MaxPos \in Nat /\ MaxWrites <= MaxPos
  /\ Root \in Clusters /\ Inode \in [Files -> Clusters]
  /\ \A n \in Files : Inode[n] # Root /\ \A k \in Files : n # k => Inode[n] # Inode[k]
  /\ Fat0 \in [Sectors -> [Slots -> Entries \cup {EOC}]]
  /\ WellFormed(Fat0)
  /\ Len0 \in [Files -> 0 .. MaxPos]
  /\ \A n \in Files, c \in ClSizes : Len0[n] <= RoomIn(Fat0, n, c)
  /\ AnyPos \subseteq 0 .. MaxPos /\ AnyCluster \subseteq Clusters

VARIABLES
  clsz,     \* the bytes in a cluster of the volume
  tab,      \* the table: .fat on the disk, .cbuf its sector number .cbufs in memory
  data,     \* the contents of clusters
  len,      \* the length of each file, in its node and in its directory entry
  fp,       \* the open files, struct fs_file and the struct file_info behind it
  got,      \* the bytes the last call returned
  writes,   \* how many bytes were written so far
  opens,    \* how many files were opened so far
  found,    \* every search for an unused cluster gave one so far
  honest    \* fat_write returns the number of bytes it wrote

vars == << clsz, tab, data, len, fp, got, writes, opens, found, honest >>

\* A buffer of one cluster.  (fat_open allocates as many sectors as a copy of the table
\* has, fat.c:473, which holds a cluster on volumes whose table is as long as that.)  Memory holds Junk before it is written; the volume
\* holds, at first, bytes that tell the cluster.
Buffer(b) == [i \in 0 .. clsz - 1 |-> b]
Junk == 0
Bytes == 0 .. MaxWrites + EOC

-----------------------------------------------------------------------------
\* The table.  An operator gives the table after the call; a read of an entry is
\* to have its sector cached (Load) and to look into the buffer (Ent).

Load(t, s) == IF s = t.cbufs THEN t ELSE [t EXCEPT !.cbufs = s, !.cbuf = t.fat[s]]

Ent(t, e) == t.cbuf[e % PerSector]

\* Mutation: not written back.
WriteEntCached(t, e, v) == [Load(t, SectorOf(e)) EXCEPT !.cbuf[e % PerSector] = v]

\* _write_fat_ent32: the whole sector is written back.
WriteEnt(t, e, v) ==
  LET c == [Load(t, SectorOf(e)) EXCEPT !.cbuf[e % PerSector] = v]
  IN  [c EXCEPT !.fat[SectorOf(e)] = c.cbuf]

\* Mutation: the first sector not loaded before it is looked at.
SeenUnloaded(t, i) == IF i = 0 THEN t.cbuf ELSE t.fat[i - 1]

\* _find_unused_cluster looks at the sectors in turn, but the one it reads after
\* sector i is sector i again: in turn i it sees sector i - 1.
Seen(t, i) == IF i = 0 THEN Load(t, 0).cbuf ELSE t.fat[i - 1]
Blank(t, p) == Seen(t, SectorOf(p))[p % PerSector] = 0

\* The clusters it may give: the first that looks unused; when there is none the
\* function ends without a value, and any number is taken for one.
Unused(t) == LET blank == { p \in Clusters : Blank(t, p) }
             IN  IF blank = {} THEN AnyCluster ELSE { p \in blank : \A q \in blank : p <= q }

\* The table when the search has given p.
Searched(t, p) ==
  LET i == IF Blank(t, p) THEN SectorOf(p) ELSE Spf
      u == Load(t, 0)
  IN  IF i = 0 THEN u ELSE [u EXCEPT !.cbufs = i - 1, !.cbuf = t.fat[i - 1]]

\* Mutation: the new end of the chain not marked.
ExtendUnmarked(t, cl, p) == WriteEnt(Searched(t, p), cl, p)

\* Mutation: the new cluster not linked to the chain.
ExtendUnlinked(t, cl, p) == WriteEnt(Searched(t, p), p, EOC)

\* fat_write puts cluster p at the end cl of a chain.
Extend(t, cl, p) == WriteEnt(WriteEnt(Searched(t, p), cl, p), p, EOC)

-----------------------------------------------------------------------------
\* Open files.  n, m and idx are the node, the mode and the position; cl is the
\* cluster the buffer is for, and i the index in it.  log and quiet are for the
\* properties: the bytes written through this open file, and that nobody else
\* wrote to or closed the file since it was opened.
Disturbs(h, g) == g # h /\ fp[g] # NULL /\ fp[g].n = fp[h].n

\* The open files once file h is f, and those of the same node know of it.
Disturb(h, f) == [g \in Handles |-> IF g = h THEN f
                                    ELSE IF Disturbs(h, g) THEN [fp[g] EXCEPT !.quiet = FALSE]
                                    ELSE fp[g]]

\* fat_open: the first cluster is read only for reading.
fs_open(h, n, m) ==
  /\ fp[h] = NULL
  /\ opens < MaxOpens /\ opens' = opens + 1
  /\ fp' = [fp EXCEPT ![h] =
       [n |-> n, m |-> m, idx |-> 0, cl |-> Inode[n], i |-> 0, log |-> << >>, quiet |-> TRUE,
        buf |-> IF m = "r" THEN data[Inode[n]] ELSE Buffer(Junk)]]
  /\ got' = << >>
  /\ UNCHANGED << clsz, tab, data, len, writes, found, honest >>

Reads(h)  == fp[h] # NULL /\ fp[h].m = "r"
Writes(h) == fp[h] # NULL /\ fp[h].m = "w"

\* The buffer is used up, or full.
AtEnd(f) == f.i >= clsz

\* Mutation: the next cluster not read.
TakenUnread(f, c) == [f EXCEPT !.cl = c, !.i = 1, !.idx = @ + 1]

\* The open file after a byte of its next cluster c is read.
Taken(f, c) == [f EXCEPT !.cl = c, !.buf = data[c], !.i = 1, !.idx = @ + 1]

\* fs_read of one byte, by three ways through the loop of fat_read: the end of
\* the file or of the chain, a byte of the next cluster, a byte of the buffer.
fs_read(h) ==
  /\ Reads(h)
  /\ LET f == fp[h]
         t == Load(tab, SectorOf(f.cl))
     IN  \/ /\ f.idx >= len[f.n]
            /\ got' = << >>
            /\ UNCHANGED << tab, fp >>
         \/ /\ f.idx < len[f.n] /\ AtEnd(f)
            /\ tab' = t
            /\ IF Ent(t, f.cl) >= EOC
               THEN got' = << >> /\ UNCHANGED fp
               ELSE /\ fp' = [fp EXCEPT ![h] = Taken(f, Ent(t, f.cl))]
                    /\ got' = << fp'[h].buf[0] >>
         \/ /\ f.idx < len[f.n] /\ ~ AtEnd(f)
            /\ got' = << f.buf[f.i] >>
            /\ fp' = [fp EXCEPT ![h].i = @ + 1, ![h].idx = @ + 1]
            /\ UNCHANGED tab
  /\ UNCHANGED << clsz, data, len, writes, opens, found, honest >>

\* The position after a write of c bytes: fat_write returns a variable that it
\* never sets, for the loop counts in another of the same name.
Positions(f, c) == IF honest THEN {f.idx + c} ELSE AnyPos

\* File h with the byte b stored at i of the buffer of cluster c.
Stored(f, c, i, b, pos) ==
  [f EXCEPT !.cl = c, !.buf[i] = b, !.i = i + 1, !.idx = pos, !.log = Append(@, b)]

\* _write_cluster of the buffer.
Flush(f) == [data EXCEPT ![f.cl] = f.buf]

\* fs_write of one byte, or of none.  A full buffer is written, and the file goes
\* on in the next cluster of its chain, or in a new one.
fs_write(h) ==
  /\ Writes(h)
  /\ LET f == fp[h]
         b == writes + 1
         t == Load(tab, SectorOf(f.cl))
         c == Ent(t, f.cl)
     IN  \/ /\ \E pos \in Positions(f, 0) : fp' = [fp EXCEPT ![h].idx = pos]
            /\ UNCHANGED << tab, data, writes, found >>
         \/ /\ writes < MaxWrites /\ writes' = b
            /\ ~ AtEnd(f)
            /\ \E pos \in Positions(f, 1) : fp' = Disturb(h, Stored(f, f.cl, f.i, b, pos))
            /\ UNCHANGED << tab, data, found >>
         \/ /\ writes < MaxWrites /\ writes' = b
            /\ AtEnd(f)
            /\ data' = Flush(f)
            /\ \/ /\ c < EOC
                  /\ tab' = t
                  /\ \E pos \in Positions(f, 1) : fp' = Disturb(h, Stored(f, c, 0, b, pos))
                  /\ UNCHANGED found
               \/ /\ c >= EOC
                  /\ \E p \in Unused(t), pos \in Positions(f, 1) :
                       /\ tab' = Extend(t, f.cl, p)
                       /\ fp' = Disturb(h, Stored(f, p, 0, b, pos))
                       /\ found' = (found /\ After(tab.fat, p) = 0)
  /\ got' = << >>
  /\ UNCHANGED << clsz, len, opens, honest >>

\* Mutation: a full buffer taken for one that was written already.
UnwrittenPart(f) == f.i > 0 /\ ~ AtEnd(f)

Unwritten(f) == f.i > 0

\* fat_close writes the buffer, and the length to the node and to the entry of
\* the directory.  The loop that would cut the chain begins with a break.
fs_close(h) ==
  /\ fp[h] # NULL
  /\ LET f == fp[h]
     IN  IF f.m = "w"
         THEN /\ data' = IF Unwritten(f) THEN Flush(f) ELSE data
              /\ len' = [len EXCEPT ![f.n] = f.idx]
              /\ fp' = Disturb(h, NULL)
         ELSE fp' = [fp EXCEPT ![h] = NULL] /\ UNCHANGED << data, len >>
  /\ got' = << >>
  /\ UNCHANGED << clsz, tab, writes, opens, found, honest >>

\* fat_filldir: a directory is read to its end, which leaves the sector of its last
\* cluster, one or another, in the cache.
fat_filldir(s) == /\ tab' = Load(tab, s)
                  /\ got' = << >>
                  /\ UNCHANGED << clsz, data, len, fp, writes, opens, found, honest >>

\* fat_check_sig mounts the volume and reads the root directory.
Mounted == LET s == SectorOf(LastOf(Fat0, Root))
           IN  [fat |-> Fat0, cbufs |-> s, cbuf |-> Fat0[s]]

Init == /\ tab = Mounted
        /\ clsz \in ClSizes
        /\ data = [c \in Clusters |-> Buffer(MaxWrites + c)]
        /\ len = Len0
        /\ fp = [h \in Handles |-> NULL]
        /\ got = << >> /\ writes = 0 /\ opens = 0 /\ found = TRUE
        /\ honest \in BOOLEAN

Next ==
  \/ \E h \in Handles :
       \/ \E n \in Files, m \in {"r", "w"} : fs_open(h, n, m)
       \/ fs_read(h) \/ fs_write(h) \/ fs_close(h)
  \/ \E s \in Sectors : fat_filldir(s)

Spec == Init /\ [][Next]_vars

-----------------------------------------------------------------------------
OpenFile == [n : Files, m : {"r", "w"}, idx : 0 .. MaxPos, cl : Clusters,
             i : 0 .. clsz, buf : [0 .. clsz - 1 -> Bytes], log : Seq(Bytes), quiet : BOOLEAN]

TypeOK ==
  /\ tab \in [fat : [Sectors -> [Slots -> Entries \cup {EOC}]],
              cbufs : Sectors, cbuf : [Slots -> Entries \cup {EOC}]]
  /\ clsz \in ClSizes /\ data \in [Clusters -> [0 .. clsz - 1 -> Bytes]]
  /\ len \in [Files -> 0 .. MaxPos]
  /\ fp \in [Handles -> OpenFile \cup {NULL}]
  /\ got \in Seq(Bytes) /\ writes \in 0 .. MaxWrites /\ opens \in 0 .. MaxOpens
  /\ found \in BOOLEAN /\ honest \in BOOLEAN

\* The cached sector of the table is what the disk has, so that no later write of
\* the sector (fat.c:86) undoes one that was made before.
CacheCoherent == tab.cbuf = tab.fat[tab.cbufs]

\* A file's chain has room for this many bytes.
Room(n) == RoomIn(tab.fat, n, clsz)

\* The table stays sound as long as the search works, and a file's chain has room for
\* its length.
ChainsSound == found => /\ WellFormed(tab.fat)
                        /\ honest => \A n \in Files : len[n] <= Room(n)

\* The volume and the open files stay well formed and the table sound, whatever is
\* opened, read, written and closed, in whatever order.
FatSound == TypeOK /\ ChainsSound

\* The bytes of a file, as far as its chain goes.
Contents(n) ==
  LET at == Walk(tab.fat, Inode[n])
      k  == IF len[n] < Room(n) THEN len[n] ELSE Room(n)
  IN  [j \in 1 .. k |-> data[at[(j - 1) \div clsz]][(j - 1) % clsz]]

\* What is in a file changes only while the file is open for writing: no call on
\* one file touches the bytes of another.
OthersUntouched ==
  [][ found' => \A n \in Files :
        Contents(n)' # Contents(n) => \E h \in Handles : Writes(h) /\ fp[h].n = n ]_vars

\* Once it is closed, a file holds what was written to it, unless another wrote to
\* it at the same time or fat_write miscounted.
WrittenIsKept ==
  [][ \A h \in Handles, n \in Files :
        Writes(h) /\ fp[h].n = n /\ fp[h].quiet /\ honest /\ found /\ fs_close(h)
          => Contents(n)' = fp[h].log ]_vars

\* A read returns the byte of the file at the position of the open file, and none
\* only at its end, unless the file was written to since it was opened.
ReadsTheFile ==
  [][ \A h \in Handles :
        Reads(h) /\ fp[h].quiet /\ honest /\ found /\ fs_read(h)
          => LET c == Contents(fp[h].n)
                 j == fp[h].idx + 1
             IN  got' = IF j > Len(c) THEN << >> ELSE << c[j] >> ]_vars

\* The search sees the first sector of the table as it is: while a cluster there is
\* unused, a file grows into an unused one.  It is in the others that it may miss one.
FirstSectorSearched ==
  [][ found /\ (\E c \in Clusters : SectorOf(c) = 0 /\ After(tab.fat, c) = 0) => found' ]_vars

\* fat.c:93, "find unused cluster": as long as a cluster is unused, a file grows
\* into one that is.
GrowsIntoUnused ==
  [][ (\E c \in Clusters : After(tab.fat, c) = 0)
        => \A h \in Handles, c \in Clusters :
             Writes(h) /\ fp'[h] # NULL /\ fp'[h].cl = c /\ c # fp[h].cl
               => After(tab.fat, c) = 0 \/ After(tab.fat, fp[h].cl) = c ]_vars
=============================================================================

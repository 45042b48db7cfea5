---------------------------------- MODULE Vfs ----------------------------------
(***************************************************************************)
(* Directories: the tree of nodes in memory, src/kernel/fs/fs.c, and the   *)
(* directories of a FAT32 volume it is filled from, src/kernel/fs/fat.c.   *)
(*                                                                         *)
(* A directory is read into the tree when it is first looked at, and never *)
(* again.  The tree is lost when the machine stops, and the volume is what *)
(* the last writes left.  The root directory is read when the volume is    *)
(* mounted.  The volume's table fits into one sector here (module Fat has  *)
(* the cache and the others), and names fit into one long entry, of which  *)
(* fat.c writes twelve characters; names of two are read.                  *)
(*                                                                         *)
(* No call of the kernel leads to fs_create yet; it is modelled as the     *)
(* operation on directories that it is.                                    *)
(***************************************************************************)
EXTENDS Naturals, Sequences, SequencesExt

CONSTANTS
  MaxCl,        \* the last cluster of the volume
  NSlots,       \* entries of 32 bytes in a cluster
  RootCl,       \* the first cluster of the root directory
  Disks,        \* the volumes the machine can start with
  Paths,        \* bound: the paths looked for, without the slash kopen wants first
  NewNames,     \* bound: the names of files that are created
  Lens,         \* bound: the lengths files are given
  MaxCreates    \* bound: how many files are created

VARIABLES
  disk,     \* the volume: its table, fat, and the entries of each cluster, ent
  tree,     \* the nodes in memory, by number; fs_root, number 0, points to the first
  was,      \* the volume when it was mounted
  torn,     \* power failed while a directory was growing
  creates   \* how many files have been created

vars == << disk, tree, was, torn, creates >>

Clusters == 2 .. MaxCl
EOC == MaxCl + 1         \* 0x0ffffff8
NULL == 0

\* What 32 bytes of a directory are: unused, a long entry with a name, or a short
\* one with the file's kind, first cluster (0 if it is empty) and length.
Free == [t |-> "free"]
Long(n) == [t |-> "long", name |-> n]
Short(d, c, l) == [t |-> "short", dir |-> d, cl |-> c, sz |-> l]

\* The clusters from c on to the end of its chain, and the places for entries in
\* them, in the order the loops of fat.c take them.
ChainFrom(d, c) ==
  LET at[k \in 0 .. MaxCl] ==
        IF k = 0 THEN << c >>
        ELSE LET s == at[k - 1] IN
             IF d.fat[s[Len(s)]] = EOC THEN s ELSE Append(s, d.fat[s[Len(s)]])
  IN  at[MaxCl]

Places(d, c) == LET s == ChainFrom(d, c) IN
  [j \in 1 .. NSlots * Len(s) |-> << s[((j - 1) \div NSlots) + 1], (j - 1) % NSlots >>]

At(d, pl) == d.ent[pl[1]][pl[2]]

-----------------------------------------------------------------------------
\* The tree.  A node has its name, kind (the low bit of its mask), first cluster
\* and length, whether its directory was read (impl), the entries of it (first),
\* and the place of its short entry on the volume (impl2).
fs_alloc(name, dir, cl, l, pl) ==
  [name |-> name, dir |-> dir, inode |-> cl, len |-> l,
   impl |-> FALSE, first |-> << >>, impl2 |-> pl]

\* Mutation: the place of the long entry noted.
EntryBefore(pl) == << pl[1], IF pl[2] = 0 THEN 0 ELSE pl[2] - 1 >>
EntryAt(pl) == pl

\* The node of the short entry at a place, for the last name that was read.
NodeAt(d, pl, name) ==
  fs_alloc(name, At(d, pl).t = "short" /\ At(d, pl).dir,
           IF At(d, pl).t = "short" THEN At(d, pl).cl ELSE 0,
           IF At(d, pl).t = "short" THEN At(d, pl).sz ELSE 0, EntryAt(pl))

\* One turn of the loop of _read_dir32, for the entry at pl.  A long entry is a
\* name, which the next entry that is not long gets a node for; a short one
\* without a name is skipped.  Nothing marks the end of a directory.
ReadEntry(d, n, r, pl) ==
  IF At(d, pl).t = "long"
  THEN [r EXCEPT !.tree[n].first = Append(@, [name |-> At(d, pl).name, node |-> NULL]),
                 !.fld = TRUE]
  ELSE IF ~ r.fld THEN r
  ELSE LET f == r.tree[n].first IN
       [fld  |-> FALSE,
        tree |-> Append([r.tree EXCEPT ![n].first[Len(f)].node = Len(r.tree) + 1],
                        NodeAt(d, pl, f[Len(f)].name))]

\* The tree after directory n, which has no entries in it yet, is read.
_read_dir32(d, t, n, cl) ==
  LET pls == Places(d, cl)
      at[k \in 0 .. Len(pls)] == IF k = 0 THEN [tree |-> t, fld |-> FALSE]
                                ELSE ReadEntry(d, n, at[k - 1], pls[k])
  IN  at[Len(pls)].tree

\* fat_filldir, after which the directory counts as read.
fs_filldir(d, t, n) == [_read_dir32(d, t, n, t[n].inode) EXCEPT ![n].impl = TRUE]
Filled(d, t, n) ==
  IF t[n].first = << >> /\ ~ t[n].impl THEN fs_filldir(d, t, n) ELSE t

\* A mount, and the node it makes of the root directory, read but not marked so.
Mount(d) == _read_dir32(d, << fs_alloc("/", TRUE, RootCl, 0, << 0, 0 >>) >>, 1, RootCl)

\* Where a mount point leads (n->ptr).
Ptr(n) == IF n = 0 THEN 1 ELSE n

\* The entry called s in directory n, as a node, with the tree that has it read.
fs_finddir(d, t, n, s) ==
  LET u == Filled(d, t, n)
      Named(e) == e.name = s
      k == SelectInSeq(u[n].first, Named)
  IN  IF ~ t[n].dir THEN [tree |-> t, node |-> NULL]
      ELSE [tree |-> u, node |-> IF k = 0 THEN NULL ELSE u[n].first[k].node]

\* A path is a sequence of names and slashes.  Between two names there is at least
\* one slash; s may begin or end with some, too.
\* Mutation: a single slash skipped.
SkipOne(s, p) == IF p <= Len(s) /\ s[p] = "/" THEN p + 1 ELSE p
Skip(s, p) == CHOOSE q \in p .. Len(s) + 1 :
                /\ q <= Len(s) => s[q] # "/"
                /\ \A i \in p .. q - 1 : s[i] = "/"

NextSlash(s, p) == LET Is(c) == c = "/" IN SelectInSubSeq(s, p, Len(s), Is)

\* The search along a path: each turn isolates a name, which is empty after the
\* last slash, and looks it up in the directory the one before it led to.
fs_finddir_path(d, t, s) ==
  LET Turn(w) == LET p == Skip(s, w.p)
                     f == fs_finddir(d, w.tree, Ptr(w.node), IF p > Len(s) THEN "" ELSE s[p])
                 IN  [tree |-> f.tree, node |-> f.node, p |-> NextSlash(s, p)]
      at[k \in 0 .. Len(s)] ==
        IF k = 0 THEN [tree |-> t, node |-> 0, p |-> 1]
        ELSE LET w == at[k - 1]
             IN  IF w.p = 0 \/ (k > 1 /\ w.node = NULL) THEN w ELSE Turn(w)
  IN  IF s = << >> THEN [tree |-> t, node |-> Ptr(0)]
      ELSE [tree |-> at[Len(s)].tree, node |-> at[Len(s)].node]

-----------------------------------------------------------------------------
\* The search for a file's node that kopen begins with.
kopen(s) == /\ tree' = fs_finddir_path(disk, tree, s).tree
            /\ UNCHANGED << disk, was, torn, creates >>

\* The listing of a directory that is open: the first entry is asked for first.
fs_readdir(n) == /\ tree[n].dir
                 /\ tree' = Filled(disk, tree, n)
                 /\ UNCHANGED << disk, was, torn, creates >>

\* The length goes to bytes 28 to 31 of what is at the place: of a short entry that
\* is where its length is, of a long one where the end of a longer name would be.
WriteSize(d, n, l) ==
  LET pl == tree[n].impl2
  IN  IF At(d, pl).t = "short" THEN [d EXCEPT !.ent[pl[1]][pl[2]].sz = l] ELSE d

\* fat_close of a file that was open for writing: its length, in its node and in
\* its entry.  What else it writes is in module Fat.
fat_close(n, l) == /\ ~ tree[n].dir
                   /\ tree' = [tree EXCEPT ![n].len = l]
                   /\ disk' = WriteSize(disk, n, l)
                   /\ UNCHANGED << was, torn, creates >>

\* The first cluster that the table has as unused.
_find_unused_cluster(d) ==
  CHOOSE c \in Clusters : d.fat[c] = 0 /\ \A e \in Clusters : d.fat[e] = 0 => c <= e

\* Mutation: a pair of entries that need not end in its cluster.
RoomForOne(d, pl) == At(d, pl) = Free
RoomAt(d, pl) == /\ pl[2] + 1 < NSlots
                 /\ At(d, pl) = Free /\ At(d, << pl[1], pl[2] + 1 >>) = Free

Entered(d, c, i, fn, dir, fcl) ==
  [d EXCEPT !.ent[c] = [j \in DOMAIN @ |-> CASE j = i     -> Long(fn)
                                              [] j = i + 1 -> Short(dir, fcl, 10)
                                              [] OTHER     -> @[j]]]

\* Mutation: the entries put into the buffer of the directory's last cluster.
TargetLast(pcl, ncl) == pcl
Target(pcl, ncl) == ncl

Blank == [i \in 0 .. NSlots - 1 |-> Free]

\* The volume after each of the writes of _add_dirent, in their order: the new
\* cluster of the directory, if no two entries are free, linked and then marked as
\* its end; the file's cluster marked; the entries; the file's cluster cleared.
\* The length that is entered is 10.
_add_dirent(d, n, fn, dir) ==
  LET pls  == Places(d, tree[n].inode)
      Room(pl) == RoomAt(d, pl)
      k    == SelectInSeq(pls, Room)
      pcl  == pls[Len(pls)][1]
      ncl  == _find_unused_cluster(d)
      link == [d EXCEPT !.fat[pcl] = ncl]
      mark == [link EXCEPT !.fat[ncl] = EOC]
      grow == IF k # 0 THEN << >> ELSE << link, mark >>
      base == IF k # 0 THEN d ELSE mark
      fcl  == _find_unused_cluster(base)
      own  == [base EXCEPT !.fat[fcl] = EOC]
      c    == IF k # 0 THEN pls[k][1] ELSE Target(pcl, ncl)
      i    == IF k # 0 THEN pls[k][2] ELSE 0
      ent  == Entered(IF k # 0 THEN own ELSE [own EXCEPT !.ent[c] = Blank], c, i, fn, dir, fcl)
  IN  grow \o << own, ent, [ent EXCEPT !.ent[fcl] = Blank] >>

\* There is room on the volume: what is done without is in module Fat.
CanCreate(n) == /\ tree[n].dir /\ creates < MaxCreates /\ ~ torn
                /\ \E b, c \in Clusters : b # c /\ disk.fat[b] = 0 /\ disk.fat[c] = 0

\* The new node and entry are not linked from n, nor returned.
fs_create(n, fn, dir) ==
  /\ CanCreate(n)
  /\ disk' = LET w == _add_dirent(disk, n, fn, dir) IN w[Len(w)]
  /\ creates' = creates + 1
  /\ UNCHANGED << tree, was, torn >>

\* Power fails, between calls or between two writes of fs_create, and the machine
\* starts again: fs_init and fat_check_sig.
Restart(d) == disk' = d /\ was' = d /\ tree' = Mount(d)

PowerFails ==
  \/ Restart(disk) /\ UNCHANGED << torn, creates >>
  \/ \E n \in DOMAIN tree, fn \in NewNames, dir \in BOOLEAN :
       /\ CanCreate(n) /\ creates' = creates + 1
       /\ LET w == _add_dirent(disk, n, fn, dir) IN
          \E k \in 1 .. Len(w) - 1 : Restart(w[k]) /\ torn' = (Len(w) = 5 /\ k = 1)

\* The places of short entries that have a name, and where directories begin.
Named(d) == { pl \in Clusters \X (1 .. NSlots - 1) :
                At(d, pl).t = "short" /\ At(d, << pl[1], pl[2] - 1 >>).t = "long" }
Dirs(d)  == {RootCl} \cup { At(d, pl).cl : pl \in { x \in Named(d) : At(d, x).dir } }
Heads(d) == {RootCl} \cup ({ At(d, pl).cl : pl \in Named(d) } \ {0})

Names == STRING \ {"", "/"}
Slot  == {Free} \cup [t : {"long"}, name : Names]
                \cup [t : {"short"}, dir : BOOLEAN, cl : {0} \cup Clusters, sz : Nat]

Typed(d) == /\ d \in [fat : [0 .. MaxCl -> {0, EOC} \cup Clusters],
                      ent : [0 .. MaxCl -> [0 .. NSlots - 1 -> Slot]]]
            /\ d.fat[0] = EOC /\ d.fat[1] = EOC

\* Clusters that are not used are blank, as is what is read as cluster 0 (two clusters
\* before the first, the end of the table's last copy).
Blanks(d) == \A e \in 0 .. MaxCl : e < 2 \/ d.fat[e] = 0 => d.ent[e] = Blank

\* Each file and directory has a chain of its own, which ends; empty files have none.
Chained(d) ==
  /\ \A pl, ql \in Named(d) :
       /\ At(d, pl).cl # RootCl /\ (At(d, pl).dir => At(d, pl).cl # 0)
       /\ At(d, pl).cl = At(d, ql).cl /\ At(d, pl).cl # 0 => pl = ql
  /\ \A h \in Heads(d) : /\ d.fat[h] # 0 /\ \A c \in Clusters : d.fat[c] # h
                         /\ d.fat[Last(ChainFrom(d, h))] = EOC
  /\ \A b, c \in Clusters : d.fat[b] = d.fat[c] /\ d.fat[b] \in Clusters => b = c
\* No chain leads to an unused cluster.
Linked(d) == \A c \in Clusters : d.fat[c] \in Clusters => d.fat[d.fat[c]] # 0

\* A name is followed by its entry in the same cluster, or by more of the name; and
\* nothing was deleted: no name comes after room for one.
Followed(d) == \A c \in Clusters, i \in 0 .. NSlots - 1 :
  At(d, << c, i >>).t = "long" => i + 1 < NSlots /\ At(d, << c, i + 1 >>) # Free
Packed(d) == \A c \in Dirs(d) : LET pls == Places(d, c) IN
  \A j, k \in DOMAIN pls : j < k /\ RoomAt(d, pls[j]) => At(d, pls[k]).t # "long"

Formed(d) == Typed(d) /\ Blanks(d) /\ Chained(d) /\ Followed(d) /\ Packed(d)

\* Names in a path have slashes between them.
ASSUME VfsAssumption ==
  /\ NSlots \in Nat \ {0, 1} /\ MaxCl \in Nat /\ RootCl \in Clusters
  /\ MaxCreates \in Nat /\ Lens \subseteq Nat /\ NewNames \subseteq Names
  /\ \A d \in Disks : Formed(d) /\ Linked(d)
  /\ \A s \in Paths : /\ s \in Seq(STRING \ {""})
                      /\ \A i \in 2 .. Len(s) : s[i - 1] = "/" \/ s[i] = "/"

Init == /\ disk \in Disks /\ was = disk /\ tree = Mount(disk)
        /\ torn = FALSE /\ creates = 0

Next == \/ \E s \in Paths : kopen(s)
        \/ \E n \in DOMAIN tree :
             \/ fs_readdir(n)
             \/ \E l \in Lens : fat_close(n, l)
             \/ \E fn \in NewNames, dir \in BOOLEAN : fs_create(n, fn, dir)
        \/ PowerFails

Spec == Init /\ [][Next]_vars

-----------------------------------------------------------------------------
\* What is in a directory, said without the loops: its names, each with the place of
\* the entry that follows it, if one does.
Entries(d, c) ==
  LET pls == Places(d, c)
      Short_(j) == j \in DOMAIN pls /\ At(d, pls[j]).t = "short"
      upTo[k \in 0 .. Len(pls)] ==
        IF k = 0 THEN << >>
        ELSE IF At(d, pls[k]).t # "long" THEN upTo[k - 1]
        ELSE Append(upTo[k - 1], [name |-> At(d, pls[k]).name,
                                  at   |-> { pls[j] : j \in { i \in {k + 1} : Short_(i) } }])
  IN  upTo[Len(pls)]

\* The file or directory a path leads to on volume d: none, or one.
ToDisk(d, s) ==
  LET In(c, name) == LET es  == Entries(d, c)
                         fit == { i \in DOMAIN es : es[i].name = name }
                     IN  UNION { { At(d, pl) : pl \in es[i].at } :
                                 i \in { j \in fit : \A k \in fit : j <= k } }
      at[k \in 0 .. Len(s)] ==
        IF k = 0 THEN { Short(TRUE, RootCl, 0) }
        ELSE IF s[k] = "/" THEN at[k - 1]
        ELSE UNION { In(e.cl, s[k]) : e \in { x \in at[k - 1] : x.dir } }
  IN  IF s # << >> /\ s[Len(s)] = "/" THEN {} ELSE at[Len(s)]

\* The tree shows the volume: a directory that was read has the names the volume
\* has, in their order and up to those that were created since; and the node of an
\* entry is of the file that is there now, with the length that is there now.
TreeShowsDisk ==
  ~ torn => \A n \in DOMAIN tree :
    LET f == tree[n].first  es == Entries(disk, tree[n].inode) IN
    f # << >> =>
      /\ Len(f) <= Len(es)
      /\ \A i \in DOMAIN f :
           /\ f[i].name = es[i].name
           /\ IF f[i].node = NULL THEN es[i].at = {}
              ELSE LET x == tree[f[i].node] IN
                   /\ es[i].at = { x.impl2 } /\ x.name = f[i].name
                   /\ At(disk, x.impl2) = Short(x.dir, x.inode, x.len)

\* A path leads where the volume says: to what was there when it was mounted, for
\* ever, and to nothing that is not there, however often its slashes are repeated.
\* What is created in a directory after it was read may not be found.
Found(d, t, s) == LET r == fs_finddir_path(d, t, s)
                  IN  { Short(r.tree[n].dir, r.tree[n].inode, r.tree[n].len) : n \in {r.node} \ {NULL} }
PathsLead ==
  ~ torn => \A s \in Paths :
    /\ Found(disk, tree, s) \subseteq ToDisk(disk, s)
    /\ ToDisk(was, s) # {} => Found(disk, tree, s) # {}

\* Every name on the volume is followed by its entry in the same cluster, unless it
\* is part of a longer name; and no two files or directories have a cluster in
\* common: not even when one was made, and another grew, in one call.
EntriesSound ==
  ~ torn =>
    /\ Followed(disk)
    /\ \A pl, ql \in Named(disk) :
         LET b == At(disk, pl).cl  c == At(disk, ql).cl IN
         b # 0 /\ c # 0 =>
           /\ b = c => pl = ql
           /\ b # c => ToSet(ChainFrom(disk, b)) \cap ToSet(ChainFrom(disk, c)) = {}
           /\ c \notin ToSet(ChainFrom(disk, RootCl))

\* Whenever the power fails, every file that was on the volume is found after it,
\* of the kind and with the length it had.
PowerLossKeeps ==
  [][ PowerFails => \A s \in Paths : ToDisk(disk, s) \subseteq Found(disk', tree', s) ]_vars
=============================================================================

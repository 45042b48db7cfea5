----------------------------- MODULE SystemProofs -----------------------------
(***************************************************************************)
(* Theorems about the boot of the kernel, for every number of partitions   *)
(* and whatever they hold, and about the programs that it goes on to run,  *)
(* for every disk and whatever is typed: what the console has had written  *)
(* and which descriptors are in use, wherever the shell waits for a line.  *)
(* From "Recursive definitions" on, about the library that both are        *)
(* written with, for every memory and int width: the recursion of each     *)
(* function, then what it comes to.                                        *)
(***************************************************************************)
EXTENDS System, RecursionLemmas, FiniteSetTheorems, SequenceTheorems, TLAPS

\* The calls after the one that names the drive, the boot sector, the volume and
\* the program.
AfterDrive  == {"fs_init", "kfdinit", "dev_init_root"}
AfterDevice == {"fat_check_sig"}
AfterVolume == {"find_kernel", "process_alloc", "load_init"}
AfterLoad   == {"driver_init", "process_jump", "running"}

\* What has been set up by the time of each call, and at the end.
Kernel == isr_set \cup {"heap"}
Screen == Kernel \cup {"vga", "text"}
Paged  == Screen \cup {"paging"}
Disks  == Paged \cup {"ata"}
Tables == Disks \cup {"root", "fds"}
Volume == Tables \cup {"device", "fat"}

Calls == {"heap_init", "vga_init", "ktextinit", "paging_enable", "ata_init", "fs_init", "kfdinit",
          "dev_init_root", "fat_check_sig", "find_kernel", "process_alloc", "load_init",
          "driver_init", "process_jump", "running"}

Reached(call) ==
  CASE call = "heap_init"                      -> isr_set
    [] call = "vga_init"                       -> Kernel
    [] call = "ktextinit"                      -> Kernel \cup {"vga"}
    [] call = "paging_enable"                  -> Screen
    [] call = "ata_init"                       -> Paged
    [] call = "fs_init"                        -> Disks
    [] call = "kfdinit"                        -> Disks \cup {"root"}
    [] call = "dev_init_root"                  -> Tables
    [] call = "fat_check_sig"                  -> Tables \cup {"device"}
    [] call \in {"find_kernel", "process_alloc"} -> Volume
    [] call = "load_init"                      -> Volume \cup {"process"}
    [] call \in AfterLoad                      -> Volume \cup {"process", "program"}
    [] OTHER                                   -> {}

Bootable == machine.signed /\ \E i \in Parts : Suits(machine.parts[i])
Found    == root = FirstOf(FatParts) /\ geo = LastOf(FatParts)

BootIInv ==
  /\ machine \in Machines
  /\ at \in {"isr_install"} \cup Calls \cup Panics
  /\ missing \subseteq {ThroughCur}
  /\ Reached(at) \subseteq up
  /\ at \in AfterDrive \cup AfterDevice \cup AfterVolume \cup AfterLoad =>
       machine.master = "ready" /\ hds # {}
  /\ at \in AfterDevice \cup AfterVolume \cup AfterLoad => Bootable
  /\ at \in AfterVolume \cup AfterLoad => Found
  /\ at \in AfterLoad => Loaded(init) /\ init \in Loadable
  /\ at # "no storage devices"
  /\ at = "no bootable device" => ~ machine.signed
  /\ at = "no bootable partition" =>
       machine.signed /\ \A i \in Parts : ~ Suits(machine.parts[i])
  /\ at = "failed to load init" => Found /\ ~ Loaded(init) /\ init \in Loadable

LEMMA BootStart == SysInit => BootIInv
BY DEF SysInit, BootInit, BootIInv, Reached, Calls, Panics, AfterDrive, AfterDevice, AfterVolume, AfterLoad

\* The calls before the drives are looked for need only what was set up before.
LEMMA EarlyCalls ==
  ASSUME BootIInv, isr_install \/ heap_init \/ vga_init \/ ktextinit \/ paging_enable \/ ata_init
  PROVE  BootIInv'
<1> USE DEF Call, Reached, Calls, Panics, Kernel, Screen, Paged, Disks, Tables,
         Volume, Shows, isr_set, CanRead, Keeps, AfterDrive, AfterDevice, AfterVolume, AfterLoad
<1>1. machine' = machine
  BY DEF isr_install, heap_init, vga_init, ktextinit, paging_enable, ata_init
<1>2. Bootable' = Bootable /\ FatParts' = FatParts
  BY <1>1 DEF Bootable, FatParts
<1>3. CASE isr_install
  BY <1>1, <1>2, <1>3 DEF BootIInv, isr_install
<1>4. CASE heap_init
  BY <1>1, <1>2, <1>4 DEF BootIInv, heap_init
<1>5. CASE vga_init
  BY <1>1, <1>2, <1>5 DEF BootIInv, vga_init
<1>6. CASE ktextinit
  BY <1>1, <1>2, <1>6 DEF BootIInv, ktextinit
<1>7. CASE paging_enable
  BY <1>1, <1>2, <1>7 DEF BootIInv, paging_enable
<1>8. CASE ata_init
  BY <1>1, <1>2, <1>8 DEF BootIInv, ata_init
<1> QED BY <1>3, <1>4, <1>5, <1>6, <1>7, <1>8

LEMMA TableCalls ==
  ASSUME BootIInv, fs_init \/ kfdinit \/ dev_init_root
  PROVE  BootIInv'
<1> USE DEF Call, Reached, Calls, Panics, Kernel, Screen, Paged, Disks, Tables,
         Volume, Shows, isr_set, CanRead, Keeps, AfterDrive, AfterDevice, AfterVolume, AfterLoad
<1>1. machine' = machine
  BY DEF fs_init, kfdinit, dev_init_root
<1>2. Bootable' = Bootable /\ FatParts' = FatParts
  BY <1>1 DEF Bootable, FatParts
<1>3. CASE fs_init
  BY <1>1, <1>2, <1>3 DEF BootIInv, fs_init, Bootable
<1>4. CASE kfdinit
  BY <1>1, <1>2, <1>4 DEF BootIInv, kfdinit, Bootable
<1>5. CASE dev_init_root
  BY <1>1, <1>2, <1>5 DEF BootIInv, dev_init_root, Bootable
<1> QED BY <1>3, <1>4, <1>5

LEMMA VolumeCalls ==
  ASSUME BootIInv, fat_check_sig \/ find_kernel \/ process_alloc
  PROVE  BootIInv'
<1> USE DEF Call, Reached, Calls, Panics, Kernel, Screen, Paged, Disks, Tables,
         Volume, Shows, isr_set, CanRead, Keeps, AfterDrive, AfterDevice, AfterVolume, AfterLoad
<1>1. machine' = machine
  BY DEF fat_check_sig, find_kernel, process_alloc
<1>2. Bootable' = Bootable /\ FatParts' = FatParts
  BY <1>1 DEF Bootable, FatParts
<1>3. CASE fat_check_sig
  BY <1>1, <1>2, <1>3 DEF BootIInv, fat_check_sig, Found
<1>4. CASE find_kernel
  BY <1>1, <1>2, <1>4 DEF BootIInv, find_kernel, Found
<1>5. CASE process_alloc
  BY <1>1, <1>2, <1>5 DEF BootIInv, process_alloc, Found, ThroughCur
<1> QED BY <1>3, <1>4, <1>5

LEMMA LoadCalls ==
  ASSUME BootIInv, load_init \/ driver_init \/ process_jump
  PROVE  BootIInv'
<1> USE DEF Call, Reached, Calls, Panics, Kernel, Screen, Paged, Disks, Tables,
         Volume, Shows, isr_set, CanRead, Keeps, AfterDrive, AfterDevice, AfterVolume, AfterLoad
<1>1. machine' = machine
  BY DEF load_init, driver_init, process_jump
<1>2. Bootable' = Bootable /\ FatParts' = FatParts
  BY <1>1 DEF Bootable, FatParts
<1>3. CASE load_init
  BY <1>1, <1>2, <1>3 DEF BootIInv, load_init, Found, Loaded, Loadable
<1>4. CASE driver_init
  BY <1>1, <1>2, <1>4 DEF BootIInv, driver_init, Found, Loaded, Loadable
<1>5. CASE process_jump
  BY <1>1, <1>2, <1>5 DEF BootIInv, process_jump, Found, Loaded, Loadable
<1> QED BY <1>3, <1>4, <1>5

\* Programs and typing leave the boot as it ended.
LEMMA BootStep == BootIInv /\ [SysNext]_sysVars => BootIInv'
<1> SUFFICES ASSUME BootIInv, [SysNext]_sysVars PROVE BootIInv'
  OBVIOUS
<1>1. CASE kmain
  BY <1>1, EarlyCalls, TableCalls, VolumeCalls, LoadCalls DEF kmain
<1>2. CASE UNCHANGED bootVars
  BY <1>2 DEF bootVars, BootIInv, Bootable, Found, FatParts, Loadable
<1>3. kmain \/ UNCHANGED bootVars
  BY DEF SysNext, Booting, Userland, Typing, sysVars
<1> QED BY <1>1, <1>2, <1>3

LEMMA BootAlways == SysSpec => []BootIInv
BY BootStart, BootStep, PTL DEF SysSpec

\* Whatever the machine has, and whatever the boot comes to, no call of kmain uses
\* what another one has still to set up: the one use of what is not there is the
\* store through cur of the call that makes the first process.
THEOREM BootInOrder == SysSpec => []SetUpBeforeUse
<1>1. BootIInv => SetUpBeforeUse
  BY DEF BootIInv, SetUpBeforeUse
<1> QED BY <1>1, BootAlways, PTL

\* Of at most one FAT partition, the driver's tree and its numbers are of that one.
LEMMA OneVolume ==
  ASSUME Cardinality(FatParts) <= 1
  PROVE  \/ FatParts = {} /\ FirstOf(FatParts) = 0
         \/ \E i \in Parts : FatParts = {i} /\ FirstOf(FatParts) = i /\ LastOf(FatParts) = i
<1>1. FatParts \subseteq Parts /\ Parts \subseteq Nat
  BY BootAssumption DEF FatParts, Parts
<1>2. IsFiniteSet(FatParts)
  <2>1. IsFiniteSet(Parts)
    BY FS_Interval, BootAssumption DEF Parts
  <2> QED BY <1>1, <2>1, FS_Subset
<1>3. CASE FatParts = {}
  BY <1>3 DEF FirstOf
<1>4. CASE FatParts # {}
  <2>1. Cardinality(FatParts) = 1
    BY <1>2, <1>4, FS_CardinalityType, FS_EmptySet
  <2>2. PICK i : FatParts = {i}
    BY <1>2, <2>1, FS_Singleton
  <2>3. i \in Nat /\ FirstOf({i}) = i /\ LastOf({i}) = i
    BY <1>1, <2>2 DEF FirstOf, LastOf
  <2> QED BY <1>1, <2>2, <2>3
<1> QED BY <1>3, <1>4

\* The kernel runs init exactly on the machines that can boot it, as far as the
\* boot comes to an end, and each panic names what is wrong: for any partition
\* table, and at most one FAT partition in it.
THEOREM BootRunsInit == SysSpec => []BootOutcome
<1>1. ASSUME BootIInv PROVE BootOutcome
  <2>1. at = "no bootable partition" =>
          machine.signed /\ \A i \in Parts : machine.parts[i].type = "none" \/ ~ machine.parts[i].bootable
    BY <1>1 DEF BootIInv, Machines, Part, Suits, Fat
  <2>2. Bootable => \E i \in Parts : machine.parts[i].bootable /\ machine.parts[i].type # "none"
    BY DEF Bootable, Suits, Fat
  <2>3. ASSUME Cardinality(FatParts) <= 1, at = "running" PROVE Boots
    <3>1. Found /\ Bootable /\ machine.master = "ready" /\ init = "program" /\ init \in Loadable
      BY <1>1, <2>3 DEF BootIInv, AfterDrive, AfterDevice, AfterVolume, AfterLoad, Loaded
    <3>2. PICK i \in Parts : FatParts = {i} /\ root = i /\ geo = i
      BY <3>1, <2>3, OneVolume DEF Found, Loadable
    <3>3. i # 0 /\ machine.parts[i].type \in Fat
      BY <3>2, BootAssumption DEF Parts, FatParts
    <3>4. machine.parts[i].type = "fat32" /\ machine.init = "program"
      BY <3>1, <3>2, <3>3 DEF Loadable, Fat
    <3> QED BY <2>2, <3>1, <3>2, <3>4 DEF Boots, Bootable
  <2>4. ASSUME Cardinality(FatParts) <= 1, Halted, Boots PROVE FALSE
    <3>1. at = "failed to load init"
      BY <1>1, <2>1, <2>4 DEF BootIInv, Boots, Halted, Panics
    <3>2. Found /\ init # "program" /\ init \in Loadable
      BY <1>1, <3>1 DEF BootIInv, Loaded
    <3>3. PICK i \in Parts : FatParts = {i} /\ root = i /\ geo = i
      BY <2>4, <3>2, OneVolume DEF Found, Boots
    <3>4. machine.parts[i].type = "fat32" /\ machine.init = "program" /\ i # 0
      BY <2>4, <3>3, BootAssumption DEF Boots, Parts
    <3> QED BY <3>2, <3>3, <3>4 DEF Loadable
  <2> QED BY <1>1, <2>1, <2>3, <2>4 DEF BootOutcome, BootIInv
<1> QED BY <1>1, BootAlways, PTL
-----------------------------------------------------------------------------
\* FlattenSeq: the concatenation of what a function of the numbers up to n adds up.
Sums(f, s) == f[0] = << >> /\ \A k \in 1 .. Len(s) : f[k] = f[k - 1] \o s[k]

LEMMA SumExists ==
  ASSUME NEW S, NEW s \in Seq(Seq(S))
  PROVE  \E f \in [0 .. Len(s) -> Seq(S)] : Sums(f, s)
<1> DEFINE n == Len(s)
           g == [k \in 1 .. n |-> [x \in Seq(S) |-> x \o s[k]]]
<1>1. n \in Nat /\ << >> \in Seq(S)
  OBVIOUS
<1>2. g \in [1 .. n -> [Seq(S) -> Seq(S)]]
  OBVIOUS
<1>3. PICK f \in [0 .. n -> Seq(S)] : Iterates(f, << >>, g, n)
  <2> DEFINE T == Seq(S)
  <2>1. << >> \in T /\ g \in [1 .. n -> [T -> T]]
    BY <1>1, <1>2
  <2> HIDE DEF T, g, n
  <2>2. \E f \in [0 .. n -> T] : Iterates(f, << >>, g, n)
    BY <1>1, <2>1, Recursion
  <2> QED BY <2>2 DEF T
<1>4. ASSUME NEW k \in 1 .. n PROVE f[k] = f[k - 1] \o s[k]
  <2>1. f[k - 1] \in Seq(S)
    <3>1. k - 1 \in 0 .. n
      BY <1>1
    <3> HIDE DEF n
    <3> QED BY <3>1
  <2>2. f[k] = g[k][f[k - 1]]
    BY <1>3 DEF Iterates
  <2> QED BY <2>1, <2>2
<1> QED BY <1>3, <1>4 DEF Iterates, Sums

LEMMA FlattenSum ==
  ASSUME NEW S, NEW s \in Seq(Seq(S)), NEW f \in [0 .. Len(s) -> Seq(S)], Sums(f, s)
  PROVE  FlattenSeq(s) = f[Len(s)]
<1> DEFINE n == Len(s)
           Eq(h) == h = [i \in 1 .. n |-> IF i = 1 THEN s[i] ELSE h[i - 1] \o s[i]]
<1>1. n \in Nat
  OBVIOUS
<1>2. CASE n = 0
  <2>1. s = << >> /\ FlattenSeq(s) = s /\ f[0] = << >>
    BY <1>2 DEF FlattenSeq, Sums
  <2> QED BY <1>2, <2>1
<1>3. CASE n # 0
  <2> DEFINE e == [i \in 1 .. n |-> f[i]]
  <2>1. Eq(e)
    <3>1. ASSUME NEW i \in 1 .. n
          PROVE  f[i] = IF i = 1 THEN s[i] ELSE e[i - 1] \o s[i]
      <4>1. f[i] = f[i - 1] \o s[i] /\ f[0] = << >>
        BY DEF Sums
      <4>2. CASE i = 1
        <5>1. f[i] = << >> \o s[i] /\ s[i] \in Seq(S)
          <6>1. f[i - 1] = f[0]
            BY <4>2
          <6> QED BY <4>1, <6>1
        <5> QED BY <4>2, <5>1
      <4>3. CASE i # 1
        <5>1. e[i - 1] = f[i - 1]
          BY <4>3
        <5> QED BY <4>1, <4>3, <5>1
      <4> QED BY <4>2, <4>3
    <3> HIDE DEF n
    <3> QED BY <3>1
  <2>2. ASSUME NEW h, Eq(h) PROVE h[n] = f[n]
    <3> DEFINE T == { k \in 0 .. n : k = 0 \/ h[k] = f[k] }
    <3>1. 0 \in T
      BY <1>1
    <3>2. ASSUME NEW k \in 1 .. n, k - 1 \in T PROVE k \in T
      <4>1. f[k] = f[k - 1] \o s[k] /\ f[0] = << >>
        BY DEF Sums
      <4>2. h[k] = IF k = 1 THEN s[k] ELSE h[k - 1] \o s[k]
        BY <2>2
      <4>3. CASE k = 1
        <5>1. f[k] = << >> \o s[k] /\ s[k] \in Seq(S)
          <6>1. f[k - 1] = f[0]
            BY <4>3
          <6> QED BY <4>1, <6>1
        <5> QED BY <4>2, <4>3, <5>1
      <4>4. CASE k # 1
        <5>1. h[k - 1] = f[k - 1]
          BY <3>2, <4>4
        <5>2. h[k] = f[k] /\ k \in 0 .. n
          <6>1. k \in 0 .. n
            BY <1>1
          <6> HIDE DEF n
          <6> QED BY <4>1, <4>2, <4>4, <5>1, <6>1
        <5> QED BY <5>2
      <4> QED BY <4>3, <4>4
    <3>3. 0 .. n \subseteq T
      <4> HIDE DEF T, n
      <4>1. \A k \in 1 .. n : k - 1 \in T => k \in T
        BY <3>2
      <4> QED BY <1>1, <3>1, <4>1, UpToAll
    <3>4. n \in 0 .. n
      BY <1>1
    <3> HIDE DEF n
    <3> QED BY <1>3, <3>3, <3>4
  <2>3. FlattenSeq(s) = (CHOOSE h : Eq(h))[n]
    BY <1>3 DEF FlattenSeq
  <2> HIDE DEF Eq, e
  <2>4. Eq(CHOOSE h : Eq(h))
    BY <2>1, Zenon
  <2> QED BY <2>2, <2>3, <2>4
<1> QED BY <1>2, <1>3

LEMMA FlattenOK ==
  ASSUME NEW S, NEW s \in Seq(Seq(S))
  PROVE  FlattenSeq(s) \in Seq(S)
<1>1. PICK f \in [0 .. Len(s) -> Seq(S)] : Sums(f, s)
  BY SumExists
<1>2. FlattenSeq(s) = f[Len(s)]
  BY <1>1, FlattenSum
<1>3. Len(s) \in Nat
  OBVIOUS
<1>4. Len(s) \in 0 .. Len(s)
  BY <1>3
<1> QED BY <1>2, <1>4

LEMMA FlattenAppend ==
  ASSUME NEW S, NEW s \in Seq(Seq(S)), NEW x \in Seq(S)
  PROVE  FlattenSeq(Append(s, x)) = FlattenSeq(s) \o x
<1> DEFINE t == Append(s, x)
           n == Len(s)
<1>1. /\ n \in Nat /\ t \in Seq(Seq(S)) /\ Len(t) = n + 1 /\ t[n + 1] = x
      /\ \A k \in 1 .. n : t[k] = s[k]
  OBVIOUS
<1>2. PICK f \in [0 .. n + 1 -> Seq(S)] : Sums(f, t)
  <2> HIDE DEF t, n
  <2> QED BY <1>1, SumExists
<1>3. FlattenSeq(t) = f[n + 1] /\ f[n + 1] = f[n] \o x
  <2> HIDE DEF t, n
  <2>1. FlattenSeq(t) = f[Len(t)]
    BY <1>1, <1>2, FlattenSum
  <2>2. f[n + 1] = f[n] \o t[n + 1]
    <3>1. PICK k \in 1 .. Len(t) : k = n + 1
      BY <1>1
    <3>2. f[k] = f[k - 1] \o t[k]
      BY <1>2 DEF Sums
    <3>3. k - 1 = n
      BY <1>1, <3>1
    <3> QED BY <3>1, <3>2, <3>3
  <2> QED BY <1>1, <2>1, <2>2
<1> DEFINE e == [k \in 0 .. n |-> f[k]]
<1>4. e \in [0 .. n -> Seq(S)] /\ Sums(e, s) /\ e[n] = f[n]
  <2> HIDE DEF t, n
  <2>1. e \in [0 .. n -> Seq(S)] /\ e[n] = f[n] /\ e[0] = f[0]
    BY <1>1
  <2>2. ASSUME NEW k \in 1 .. n PROVE e[k] = e[k - 1] \o s[k]
    <3>1. k \in 1 .. Len(t) /\ k \in 0 .. n /\ k - 1 \in 0 .. n
      BY <1>1
    <3>2. f[k] = f[k - 1] \o t[k]
      BY <1>2, <3>1 DEF Sums
    <3>3. t[k] = s[k] /\ e[k] = f[k] /\ e[k - 1] = f[k - 1]
      BY <1>1, <3>1
    <3> QED BY <3>2, <3>3
  <2>3. e[0] = << >>
    BY <1>2, <2>1 DEF Sums
  <2> QED BY <2>1, <2>2, <2>3 DEF Sums, n
<1>5. FlattenSeq(s) = e[n]
  <2> HIDE DEF e
  <2> QED BY <1>4, FlattenSum
<1> HIDE DEF t, n, e
<1>6. FlattenSeq(t) = FlattenSeq(s) \o x
  BY <1>3, <1>4, <1>5
<1> QED BY <1>6 DEF t

-----------------------------------------------------------------------------
\* Programs.  What the properties say of the lines that were typed, for any lines t,
\* so that it can be followed from one line to the next.
DepthsOf(t) == LET n[i \in 0 .. Len(t)] ==
                     IF i = 0 THEN 1
                     ELSE IF Runs(t[i]) /\ Disk[t[i].cmd].prog = "sh" THEN n[i - 1] + 1
                     ELSE IF IsExit(t[i]) /\ n[i - 1] > 1 THEN n[i - 1] - 1
                     ELSE n[i - 1]
               IN  n

RanOf(t) == { i \in 1 .. Len(t) : Runs(t[i]) \/ (IsExit(t[i]) /\ DepthsOf(t)[i - 1] = 1) }

Answer(l) == << << "line", l >> >> \o Outcome(l) \o << Text("$ ") >>
Header(s) == << << "path", s >>, Text("newline"), Text("$ ") >>
SessionOf(s, t) == Header(s) \o FlattenSeq([i \in 1 .. Len(t) |-> Answer(t[i])])

\* Shells that run, and descriptors that execs have kept.
Depth == DepthsOf(typed)[Len(typed)]
Used  == Cardinality(RanOf(typed))

\* What a file has to read, and a directory to list.
LengthOf(p) == IF Disk[p].t = "dir" THEN 0 ELSE Disk[p].len
NamesOf(p)  == IF Disk[p].t = "dir" THEN Disk[p].names ELSE << >>

Listed(names, k) ==
  FlattenSeq([i \in 1 .. k |-> << << "name", names[i] >>, Text("newline") >>])
Catted(p, k) == [i \in 1 .. k |-> << "byte", p, i - 1 >>]
Drawn(k) == [i \in 1 .. k |-> << "pixel", i - 1 >>]

\* What the program in frame f has printed when it is at k.
Done(f) == CASE f.prog = "cat"     -> Catted(f.argv, f.k)
             [] f.prog = "ls"      -> Listed(NamesOf(f.argv), f.k)
             [] f.prog = "hexd"    -> RowsOf(f.argv, f.k)
             [] f.prog = "gfxtest" -> Drawn(f.k)
             [] OTHER              -> << >>

\* The last line has had this part of its answer; or all of it but for the prompt.
LastLine == typed[Len(typed)]
Asked == SessionOf(shell, Front(typed)) \o << << "line", LastLine >> >>
Answering(out) == typed # << >> /\ con = Asked \o out
Ready == \/ typed = << >> /\ con = << << "path", shell >>, Text("newline") >>
         \/ Answering(Outcome(LastLine))

\* The frames: init, shells that wait, and on top init, a shell or another program.
Argvs == {NULL, Text("arguments")} \cup { l.arg : l \in Lines }
Points == {"start", "exec", "ran", "stop", "read", "loop", "draw", "key"}
Frame == [prog : {"init"} \cup Runnable, pc : Points, argv : Argvs, fd : Int, k : Nat, res : Int]

Stacked(s) ==
  /\ s \in Seq(Frame) /\ s # << >> /\ s[1].prog = "init"
  /\ \A i \in 1 .. Len(s) - 1 : s[i].pc = "ran"
  /\ \A i \in 2 .. Len(s) : s[i].prog \in Runnable /\ (i = 2 \/ i < Len(s) => s[i].prog = "sh")

InitOnTop(f) ==
  /\ f.prog = "init" /\ Len(stack) = 1
  /\ \/ f.pc = "start" /\ f.res = 0 /\ typed = << >> /\ con = << >> /\ fds = Std
     \/ /\ f.pc \in {"exec", "ran"} /\ f.res = 0
        /\ Ready /\ Depth = 1 /\ fds = 0 .. 2 + Used
     \/ f.pc = "ran" /\ f.res # 0
     \/ f.pc = "stop"

ShellOnTop(f) ==
  /\ f.prog = "sh" /\ Len(stack) = 1 + Depth /\ fds = 0 .. 3 + Used
  /\ \/ f.pc = "start" /\ Ready
     \/ f.pc = "ran" /\ f.res >= 0 /\ Ready
     \/ f.pc = "read" /\ con = SessionOf(shell, typed)
     \/ /\ f.pc = "ran" /\ f.res < 0 /\ Answering(<< >>)
        /\ LastLine.cmd \notin DOMAIN Disk /\ ~ IsBlank(LastLine) /\ ~ IsExit(LastLine)

\* A program that is not a shell has a place k in what it prints.
InRange(f) ==
  CASE f.prog = "cat"  -> f.k <= LengthOf(f.argv)
    [] f.prog = "ls"   -> f.k <= Len(NamesOf(f.argv))
    [] f.prog = "hexd" -> f.k <= LengthOf(f.argv) /\ \E m \in Nat : f.k = Row * m
    [] OTHER           -> FALSE

ProgramOnTop(f) ==
  /\ f.prog \in Runnable \ {"sh"} /\ Len(stack) = 2 + Depth
  /\ typed # << >> /\ Runs(LastLine)
  /\ Disk[LastLine.cmd].prog = f.prog /\ LastLine.arg = f.argv
  /\ \/ f.pc = "start" /\ f.k = 0 /\ Answering(<< >>) /\ fds = 0 .. 3 + Used
     \/ /\ f.pc = "loop" /\ f.argv \in DOMAIN Disk /\ InRange(f)
        /\ Answering(Done(f)) /\ f.fd = 4 + Used /\ fds = 0 .. 4 + Used
     \/ /\ f.pc \in {"draw", "key"} /\ f.prog = "gfxtest"
        /\ f.k <= Pixels /\ (f.pc = "key" => f.k = Pixels)
        /\ Answering(Done(f)) /\ fds = 0 .. 3 + Used

Running ==
  /\ shell \in Shells /\ typed \in Seq(Lines) /\ Len(typed) <= MaxLines
  /\ Stacked(stack)
  /\ InitOnTop(Top) \/ ShellOnTop(Top) \/ ProgramOnTop(Top)

\* The programs start when the boot ends, with the drivers it has registered.
SysIInv ==
  /\ drivers = IF at \in {"process_jump", "running"} THEN << "KBD", "VIDEO" >> ELSE << >>
  /\ at # "running" => stack = << >> /\ fds = Std /\ con = << >> /\ typed = << >>
  /\ at = "running" => Running

-----------------------------------------------------------------------------
\* Lines, one more at a time.
LEMMA AppendFacts ==
  ASSUME NEW S, NEW t \in Seq(S), NEW l \in S
  PROVE  /\ Append(t, l) \in Seq(S) /\ Len(t) \in Nat
         /\ Len(Append(t, l)) = Len(t) + 1 /\ Append(t, l) # << >>
         /\ Append(t, l)[Len(t) + 1] = l
         /\ \A i \in 1 .. Len(t) : Append(t, l)[i] = t[i]
         /\ Front(Append(t, l)) = t
<1> DEFINE u == Append(t, l)
<1>1. /\ u \in Seq(S) /\ Len(t) \in Nat /\ Len(u) = Len(t) + 1 /\ u # << >>
      /\ u[Len(t) + 1] = l /\ \A i \in 1 .. Len(t) : u[i] = t[i]
  OBVIOUS
<1>2. Front(u) = SubSeq(u, 1, Len(t))
  BY <1>1 DEF Front
<1>3. /\ Front(u) \in Seq(S) /\ Len(Front(u)) = Len(t)
      /\ \A i \in 1 .. Len(t) : Front(u)[i] = t[i]
  <2> HIDE DEF u
  <2>1. \A i \in 1 .. Len(t) : u[i] \in S
    BY <1>1
  <2>2. /\ SubSeq(u, 1, Len(t)) \in Seq(S)
        /\ Len(SubSeq(u, 1, Len(t))) = IF 1 <= Len(t) THEN Len(t) - 1 + 1 ELSE 0
        /\ \A i \in 1 .. Len(t) - 1 + 1 : SubSeq(u, 1, Len(t))[i] = u[1 + i - 1]
    BY <1>1, <2>1, SubSeqProperties
  <2> QED BY <1>1, <1>2, <2>2
<1> HIDE DEF u
<1>4. Front(u) = t
  BY <1>3, SeqEqual
<1> QED BY <1>1, <1>4 DEF u

LEMMA FrontFacts ==
  ASSUME NEW S, NEW t \in Seq(S), t # << >>
  PROVE  /\ Len(t) \in Nat \ {0} /\ t[Len(t)] \in S
         /\ Front(t) \in Seq(S) /\ Len(Front(t)) = Len(t) - 1
         /\ \A i \in 1 .. Len(t) - 1 : Front(t)[i] = t[i]
         /\ Append(Front(t), t[Len(t)]) = t
<1> DEFINE u == Front(t)
           n == Len(t)
<1>1. n \in Nat \ {0} /\ t[n] \in S /\ \A i \in 1 .. n : t[i] \in S
  OBVIOUS
<1> HIDE DEF n
<1>2. /\ u \in Seq(S) /\ Len(u) = n - 1
      /\ \A i \in 1 .. n - 1 : u[i] = t[i]
  <2>1. /\ SubSeq(t, 1, n - 1) \in Seq(S)
        /\ Len(SubSeq(t, 1, n - 1)) = IF 1 <= n - 1 THEN n - 1 - 1 + 1 ELSE 0
        /\ \A i \in 1 .. n - 1 - 1 + 1 : SubSeq(t, 1, n - 1)[i] = t[1 + i - 1]
    BY <1>1, SubSeqProperties
  <2>2. u = SubSeq(t, 1, n - 1)
    BY DEF Front, n
  <2> QED BY <1>1, <2>1, <2>2
<1> HIDE DEF u
<1>3. Append(u, t[n]) \in Seq(S) /\ Len(Append(u, t[n])) = n
  BY <1>1, <1>2
<1>4. ASSUME NEW i \in 1 .. n PROVE Append(u, t[n])[i] = t[i]
  <2>1. CASE i = n
    BY <1>1, <1>2, <2>1
  <2>2. CASE i # n
    BY <1>1, <1>2, <2>2
  <2> QED BY <2>1, <2>2
<1>5. Append(u, t[n]) = t
  BY <1>3, <1>4, SeqEqual DEF n
<1> QED BY <1>1, <1>2, <1>5 DEF u, n

\* How deep shells are nested after a line, when it was d before.
DepthAfter(l, d) == IF Runs(l) /\ Disk[l.cmd].prog = "sh" THEN d + 1
                    ELSE IF IsExit(l) /\ d > 1 THEN d - 1
                    ELSE d

LEMMA DepthsAre ==
  ASSUME NEW t \in Seq(Lines)
  PROVE  /\ DepthsOf(t) \in [0 .. Len(t) -> Nat \ {0}]
         /\ DepthsOf(t)[0] = 1
         /\ \A i \in 1 .. Len(t) : DepthsOf(t)[i] = DepthAfter(t[i], DepthsOf(t)[i - 1])
<1> DEFINE n == Len(t)
           T == Nat \ {0}
           g == [i \in 1 .. n |-> [d \in T |-> DepthAfter(t[i], d)]]
           Deep(h) == h = [i \in 0 .. n |->
                             IF i = 0 THEN 1
                             ELSE IF Runs(t[i]) /\ Disk[t[i].cmd].prog = "sh" THEN h[i - 1] + 1
                             ELSE IF IsExit(t[i]) /\ h[i - 1] > 1 THEN h[i - 1] - 1
                             ELSE h[i - 1]]
<1>1. n \in Nat
  OBVIOUS
<1>2. g \in [1 .. n -> [T -> T]]
  <2>1. ASSUME NEW i \in 1 .. n, NEW d \in T PROVE DepthAfter(t[i], d) \in T
    BY DEF DepthAfter
  <2> HIDE DEF T, n
  <2> QED BY <2>1
<1>3. PICK f \in [0 .. n -> T] : Iterates(f, 1, g, n)
  <2>1. 1 \in T
    OBVIOUS
  <2> HIDE DEF T, g, n
  <2> QED BY <1>1, <1>2, <2>1, Recursion
<1> HIDE DEF n
<1>4. ASSUME NEW i \in 1 .. n
      PROVE  /\ i \in 0 .. n /\ i - 1 \in 0 .. n /\ f[i - 1] \in T
             /\ f[i] = DepthAfter(t[i], f[i - 1])
  <2>1. i \in 0 .. n /\ i - 1 \in 0 .. n
    BY <1>1
  <2>2. f[i - 1] \in T
    BY <2>1
  <2>3. f[i] = g[i][f[i - 1]]
    BY <1>3 DEF Iterates
  <2> QED BY <2>1, <2>2, <2>3
<1>5. f[0] = 1
  BY <1>3 DEF Iterates
<1>6. Deep(f)
  <2> HIDE DEF T
  <2>1. ASSUME NEW i \in 0 .. n
        PROVE  f[i] = IF i = 0 THEN 1
                      ELSE IF Runs(t[i]) /\ Disk[t[i].cmd].prog = "sh" THEN f[i - 1] + 1
                      ELSE IF IsExit(t[i]) /\ f[i - 1] > 1 THEN f[i - 1] - 1
                      ELSE f[i - 1]
    <3>1. CASE i = 0
      BY <1>5, <3>1
    <3>2. CASE i # 0
      <4>1. i \in 1 .. n
        BY <1>1, <3>2
      <4> QED BY <1>4, <3>2, <4>1 DEF DepthAfter
    <3> QED BY <3>1, <3>2
  <2> QED BY <2>1
<1>7. ASSUME NEW h, Deep(h) PROVE h = f
  <2>1. UpTo(h, n) /\ UpTo(f, n)
    <3>1. h = [i \in 0 .. n |-> h[i]]
      BY <1>7
    <3>2. f = [i \in 0 .. n |-> f[i]]
      BY <1>1
    <3> QED BY <3>1, <3>2 DEF UpTo
  <2>2. SameNext(f, h, n) /\ SameNext(h, f, n)
    <3>1. h[0] = 1
      BY <1>1, <1>7
    <3>2. ASSUME NEW i \in 1 .. n, f[i - 1] = h[i - 1] PROVE f[i] = h[i]
      <4>1. i \in 0 .. n /\ i # 0
        BY <1>1
      <4>2. h[i] = DepthAfter(t[i], h[i - 1])
        BY <1>7, <4>1 DEF DepthAfter
      <4>3. f[i] = DepthAfter(t[i], f[i - 1])
        BY <1>4
      <4> QED BY <3>2, <4>2, <4>3
    <3> HIDE DEF Deep
    <3> QED BY <1>5, <3>1, <3>2 DEF SameNext
  <2> HIDE DEF Deep
  <2> QED BY <1>1, <2>1, <2>2, Unique
<1>8. DepthsOf(t) = CHOOSE h : Deep(h)
  BY DEF DepthsOf, n
<1>9. DepthsOf(t) = f
  <2> HIDE DEF Deep
  <2>1. Deep(CHOOSE h : Deep(h))
    BY <1>6, Zenon
  <2> QED BY <1>7, <1>8, <2>1
<1> HIDE DEF Deep, g
<1> QED BY <1>4, <1>5, <1>9 DEF n

LEMMA DepthsAppend ==
  ASSUME NEW t \in Seq(Lines), NEW l \in Lines
  PROVE  /\ \A i \in 0 .. Len(t) : DepthsOf(Append(t, l))[i] = DepthsOf(t)[i]
         /\ DepthsOf(Append(t, l))[Len(t) + 1] = DepthAfter(l, DepthsOf(t)[Len(t)])
<1> DEFINE u == Append(t, l)
           n == Len(t)
           T == { k \in 0 .. n : DepthsOf(u)[k] = DepthsOf(t)[k] }
<1>1. /\ u \in Seq(Lines) /\ n \in Nat /\ Len(u) = n + 1
      /\ u[n + 1] = l /\ \A i \in 1 .. n : u[i] = t[i]
  BY AppendFacts
<1> HIDE DEF u
<1>2. /\ DepthsOf(u)[0] = 1
      /\ \A i \in 1 .. n + 1 : DepthsOf(u)[i] = DepthAfter(u[i], DepthsOf(u)[i - 1])
  <2> HIDE DEF n
  <2> QED BY <1>1, DepthsAre
<1>3. /\ DepthsOf(t)[0] = 1
      /\ \A i \in 1 .. n : DepthsOf(t)[i] = DepthAfter(t[i], DepthsOf(t)[i - 1])
  BY DepthsAre
<1> HIDE DEF n
<1>4. 0 .. n \subseteq T
  <2>1. 0 \in T
    BY <1>1, <1>2, <1>3
  <2>2. ASSUME NEW k \in 1 .. n, k - 1 \in T PROVE k \in T
    <3>1. k \in 0 .. n /\ k \in 1 .. n + 1
      BY <1>1
    <3>2. DepthsOf(u)[k - 1] = DepthsOf(t)[k - 1]
      BY <2>2
    <3>3. DepthsOf(u)[k] = DepthAfter(u[k], DepthsOf(u)[k - 1])
      BY <1>2, <3>1
    <3>4. DepthsOf(t)[k] = DepthAfter(t[k], DepthsOf(t)[k - 1])
      BY <1>3
    <3> QED BY <1>1, <3>1, <3>2, <3>3, <3>4
  <2> HIDE DEF T
  <2>3. \A k \in 1 .. n : k - 1 \in T => k \in T
    BY <2>2
  <2> QED BY <1>1, <2>1, <2>3, UpToAll
<1>5. DepthsOf(u)[n + 1] = DepthAfter(l, DepthsOf(t)[n])
  <2>1. PICK k \in 1 .. n + 1 : k = n + 1
    BY <1>1
  <2>2. DepthsOf(u)[k] = DepthAfter(u[k], DepthsOf(u)[k - 1])
    BY <1>2
  <2>3. k - 1 = n /\ n \in 0 .. n
    BY <1>1, <2>1
  <2>4. DepthsOf(u)[n] = DepthsOf(t)[n]
    BY <1>4, <2>3
  <2> QED BY <1>1, <2>1, <2>2, <2>3, <2>4
<1> QED BY <1>4, <1>5 DEF u, n

\* The lines that cost a descriptor.
Costs(l, d) == Runs(l) \/ (IsExit(l) /\ d = 1)

LEMMA RanFacts ==
  ASSUME NEW t \in Seq(Lines)
  PROVE  /\ IsFiniteSet(RanOf(t)) /\ Cardinality(RanOf(t)) \in Nat
         /\ Cardinality(RanOf(t)) <= Len(t)
<1>1. Len(t) \in Nat
  OBVIOUS
<1>2. IsFiniteSet(1 .. Len(t)) /\ Cardinality(1 .. Len(t)) = Len(t)
  BY <1>1, FS_Interval
<1>3. RanOf(t) \subseteq 1 .. Len(t)
  BY DEF RanOf
<1> QED BY <1>2, <1>3, FS_Subset, FS_CardinalityType

LEMMA RanAppend ==
  ASSUME NEW t \in Seq(Lines), NEW l \in Lines
  PROVE  Cardinality(RanOf(Append(t, l))) =
           Cardinality(RanOf(t)) + (IF Costs(l, DepthsOf(t)[Len(t)]) THEN 1 ELSE 0)
<1> DEFINE u == Append(t, l)
           n == Len(t)
<1>1. /\ u \in Seq(Lines) /\ n \in Nat /\ Len(u) = n + 1
      /\ u[n + 1] = l /\ \A i \in 1 .. n : u[i] = t[i]
  BY AppendFacts
<1>2. \A i \in 0 .. n : DepthsOf(u)[i] = DepthsOf(t)[i]
  BY DepthsAppend
<1> HIDE DEF u
<1>3. RanOf(u) = { i \in 1 .. n + 1 : Costs(u[i], DepthsOf(u)[i - 1]) }
  BY <1>1 DEF RanOf, Costs
<1>4. RanOf(t) = { i \in 1 .. n : Costs(t[i], DepthsOf(t)[i - 1]) }
  BY DEF RanOf, Costs
<1> HIDE DEF n
<1>5. RanOf(u) = RanOf(t) \cup (IF Costs(l, DepthsOf(t)[n]) THEN {n + 1} ELSE {})
  <2>1. ASSUME NEW i \in 1 .. n
        PROVE  Costs(u[i], DepthsOf(u)[i - 1]) <=> Costs(t[i], DepthsOf(t)[i - 1])
    <3>1. i - 1 \in 0 .. n
      BY <1>1
    <3>2. u[i] = t[i] /\ DepthsOf(u)[i - 1] = DepthsOf(t)[i - 1]
      BY <1>1, <1>2, <3>1
    <3> QED BY <3>2
  <2>2. \A i \in 1 .. n + 1 : i \in 1 .. n \/ i = n + 1
    BY <1>1
  <2>3. 1 .. n \subseteq 1 .. n + 1 /\ n + 1 \in 1 .. n + 1
    BY <1>1
  <2>4. ASSUME NEW i \in RanOf(u)
        PROVE  i \in RanOf(t) \cup (IF Costs(l, DepthsOf(t)[n]) THEN {n + 1} ELSE {})
    <3>1. i \in 1 .. n + 1 /\ Costs(u[i], DepthsOf(u)[i - 1])
      BY <1>3
    <3>2. CASE i \in 1 .. n
      BY <1>4, <2>1, <3>1, <3>2
    <3>3. CASE i = n + 1
      <4>1. i - 1 = n /\ n \in 0 .. n
        BY <1>1, <3>3
      <4>2. u[i] = l /\ DepthsOf(u)[i - 1] = DepthsOf(t)[n]
        BY <1>1, <1>2, <3>3, <4>1
      <4> QED BY <3>1, <3>3, <4>2
    <3> QED BY <2>2, <3>1, <3>2, <3>3
  <2>5. ASSUME NEW i \in RanOf(t) PROVE i \in RanOf(u)
    BY <1>3, <1>4, <2>1, <2>3
  <2>6. Costs(l, DepthsOf(t)[n]) => n + 1 \in RanOf(u)
    <3>1. PICK i \in 1 .. n + 1 : i = n + 1
      BY <2>3
    <3>2. i - 1 = n /\ n \in 0 .. n
      BY <1>1, <3>1
    <3>3. u[i] = l /\ DepthsOf(u)[i - 1] = DepthsOf(t)[n]
      BY <1>1, <1>2, <3>1, <3>2
    <3> QED BY <1>3, <3>1, <3>3
  <2> QED BY <2>4, <2>5, <2>6
<1>6. n + 1 \notin RanOf(t)
  BY <1>1, <1>4
<1>7. IsFiniteSet(RanOf(t)) /\ Cardinality(RanOf(t)) \in Nat
  BY RanFacts
<1>8. CASE Costs(l, DepthsOf(t)[n])
  BY <1>5, <1>6, <1>7, <1>8, FS_AddElement DEF u, n
<1>9. CASE ~ Costs(l, DepthsOf(t)[n])
  BY <1>5, <1>7, <1>9 DEF u, n
<1> QED BY <1>8, <1>9

-----------------------------------------------------------------------------
\* Sequences of whatever things.
Sequence(s) == \E S : s \in Seq(S)

LEMMA Concats ==
  ASSUME NEW r, NEW s, NEW t, Sequence(r), Sequence(s), Sequence(t)
  PROVE  /\ Sequence(r \o s) /\ (r \o s) \o t = r \o (s \o t)
         /\ r \o << >> = r /\ << >> \o r = r
         /\ \A x : Sequence(<< x >>) /\ Append(r, x) = r \o << x >>
<1>1. PICK A : r \in Seq(A)
  BY DEF Sequence
<1>2. PICK B : s \in Seq(B)
  BY DEF Sequence
<1>3. PICK C : t \in Seq(C)
  BY DEF Sequence
<1> DEFINE S == A \cup B \cup C
<1>4. r \in Seq(S) /\ s \in Seq(S) /\ t \in Seq(S)
  BY <1>1, <1>2, <1>3, SeqMonotonic
<1>5. ASSUME NEW x PROVE Sequence(<< x >>) /\ Append(r, x) = r \o << x >>
  <2>1. << x >> \in Seq({x})
    OBVIOUS
  <2>2. r \in Seq(S \cup {x})
    BY <1>4, SeqMonotonic
  <2>3. Append(r, x) = r \o << x >>
    BY <2>2, AppendIsConcat
  <2> QED BY <2>1, <2>3 DEF Sequence
<1> HIDE DEF S
<1>6. r \o s \in Seq(S) /\ (r \o s) \o t = r \o (s \o t) /\ r \o << >> = r /\ << >> \o r = r
  BY <1>4, ConcatProperties, ConcatAssociative, ConcatEmptySeq
<1> QED BY <1>5, <1>6 DEF Sequence

\* The concatenation of sequences, and one more.
LEMMA Flattened ==
  ASSUME NEW n \in Nat, NEW s, s = [i \in 1 .. n |-> s[i]], \A i \in 1 .. n : Sequence(s[i])
  PROVE  /\ Sequence(FlattenSeq(s)) /\ (n = 0 => FlattenSeq(s) = << >>)
         /\ \A x : Sequence(x) => FlattenSeq(Append(s, x)) = FlattenSeq(s) \o x
<1> DEFINE R(x) == { x[j] : j \in DOMAIN x }
           S == UNION { R(s[i]) : i \in 1 .. n }
<1>1. ASSUME NEW x, Sequence(x) PROVE x \in Seq(R(x))
  <2>1. PICK T : x \in Seq(T)
    BY <1>1 DEF Sequence
  <2>2. Len(x) \in Nat /\ DOMAIN x = 1 .. Len(x) /\ x = [j \in 1 .. Len(x) |-> x[j]]
    BY <2>1
  <2> QED BY <2>2
<1>2. \A i \in 1 .. n : s[i] \in Seq(S)
  <2> TAKE i \in 1 .. n
  <2>1. s[i] \in Seq(R(s[i])) /\ R(s[i]) \subseteq S
    BY <1>1
  <2> HIDE DEF R, S
  <2> QED BY <2>1, SeqMonotonic
<1> HIDE DEF R, S
<1>3. s \in Seq(Seq(S)) /\ Len(s) = n
  BY <1>2
<1>4. n = 0 => FlattenSeq(s) = << >>
  BY <1>3 DEF FlattenSeq
<1>5. ASSUME NEW x, Sequence(x) PROVE FlattenSeq(Append(s, x)) = FlattenSeq(s) \o x
  <2>1. x \in Seq(S \cup R(x))
    BY <1>1, <1>5, SeqMonotonic
  <2>2. s \in Seq(Seq(S \cup R(x)))
    <3>1. \A i \in 1 .. n : s[i] \in Seq(S \cup R(x))
      BY <1>2, SeqMonotonic
    <3> QED BY <3>1
  <2> QED BY <2>1, <2>2, FlattenAppend
<1>6. Sequence(FlattenSeq(s))
  BY <1>3, FlattenOK DEF Sequence
<1> QED BY <1>4, <1>5, <1>6

\* What the properties say of the lines, for the lines that were typed.
LEMMA TypedLines == Session = SessionOf(shell, typed) /\ Depths = DepthsOf(typed) /\ Ran = RanOf(typed)
<1>1. Session = SessionOf(shell, typed)
  BY DEF Session, SessionOf, Header, Answer
<1>2. Depths = DepthsOf(typed)
  BY DEF Depths, DepthsOf
<1> QED BY <1>1, <1>2 DEF Ran, RanOf

LEMMA RowsStart == \A p : RowsOf(p, 0) = << >>
<1>1. (0 + Row - 1) \div Row = 0
  <2>1. Row \in Nat \ {0} /\ Row - 1 \in 0 .. Row - 1 /\ Row * 0 + (Row - 1) = 0 + Row - 1
    BY ProgramsAssumption
  <2> QED BY <2>1, DivModIs
<1> QED BY <1>1 DEF RowsOf

LEMMA RowsSequence ==
  ASSUME NEW p, NEW n \in Nat
  PROVE  (n + Row - 1) \div Row \in Nat /\ Sequence(RowsOf(p, n))
<1>1. (n + Row - 1) \div Row \in Nat
  <2>1. n + Row - 1 \in Nat /\ Row \in Nat \ {0}
    BY ProgramsAssumption
  <2> QED BY <2>1, DivMod
<1> DEFINE q == (n + Row - 1) \div Row
           x(j) == LET b == (j - 1) * Row
                   IN  << "row", b % AddrRange, p, b, IF n - b < Row THEN n - b ELSE Row >>
<1>2. RowsOf(p, n) = [j \in 1 .. q |-> x(j)]
  BY DEF RowsOf
<1> HIDE DEF q, x
<1>3. [j \in 1 .. q |-> x(j)] \in Seq({ x(j) : j \in 1 .. q })
  BY <1>1 DEF q
<1> QED BY <1>1, <1>2, <1>3 DEF Sequence, q

-----------------------------------------------------------------------------
\* What programs print, a part at a time: the n values of f that follow the first a.
Slice(f, a, n) == [i \in 1 .. n |-> f[a + i]]

LEMMA Slices ==
  ASSUME NEW f, NEW a \in Nat, NEW b \in Nat
  PROVE  /\ Slice(f, 0, a) \o Slice(f, a, b) = Slice(f, 0, a + b)
         /\ Slice(f, 0, a + 1) = Append(Slice(f, 0, a), f[a + 1])
         /\ Sequence(Slice(f, a, b)) /\ Slice(f, a, 0) = << >>
<1> DEFINE S == { f[i] : i \in 1 .. a + b + 1 }
           r == Slice(f, 0, a)
           s == Slice(f, a, b)
           t == Slice(f, 0, a + b)
<1>1. /\ r \in Seq(S) /\ Len(r) = a /\ \A i \in 1 .. a : r[i] = f[i]
      /\ s \in Seq(S) /\ Len(s) = b /\ \A i \in 1 .. b : s[i] = f[a + i]
      /\ t \in Seq(S) /\ Len(t) = a + b /\ \A i \in 1 .. a + b : t[i] = f[i]
  <2>1. /\ \A i \in 1 .. a : f[0 + i] \in S /\ 0 + i = i
        /\ \A i \in 1 .. b : f[a + i] \in S
        /\ \A i \in 1 .. a + b : f[0 + i] \in S /\ 0 + i = i
    OBVIOUS
  <2> HIDE DEF S
  <2> QED BY <2>1 DEF Slice
<1> HIDE DEF r, s, t, S
<1>2. r \o s \in Seq(S) /\ Len(r \o s) = a + b /\ \A i \in 1 .. a + b : (r \o s)[i] = t[i]
  <2>1. \A i \in 1 .. a + b : (r \o s)[i] = IF i <= a THEN r[i] ELSE s[i - a]
    BY <1>1, ConcatProperties
  <2>2. ASSUME NEW i \in 1 .. a + b PROVE (r \o s)[i] = f[i]
    <3>1. CASE i <= a
      BY <1>1, <2>1, <3>1
    <3>2. CASE ~ i <= a
      <4>1. i - a \in 1 .. b /\ a + (i - a) = i
        BY <3>2
      <4> QED BY <1>1, <2>1, <3>2, <4>1
    <3> QED BY <3>1, <3>2
  <2>3. r \o s \in Seq(S) /\ Len(r \o s) = a + b
    BY <1>1, ConcatProperties
  <2> QED BY <1>1, <2>2, <2>3
<1>3. r \o s = t
  BY <1>1, <1>2, SeqEqual
<1>4. Slice(f, 0, a + 1) = Append(r, f[a + 1])
  BY DEF Slice, r
<1>5. Slice(f, a, 0) = << >>
  BY DEF Slice
<1> QED BY <1>1, <1>3, <1>4, <1>5 DEF Sequence, r, s, t

LEMMA CattedMore ==
  ASSUME NEW p, NEW k \in Nat, NEW n \in Nat
  PROVE  /\ Catted(p, k) \o [j \in 1 .. n |-> << "byte", p, k + j - 1 >>] = Catted(p, k + n)
         /\ Sequence(Catted(p, k)) /\ Sequence([j \in 1 .. n |-> << "byte", p, k + j - 1 >>])
         /\ Catted(p, 0) = << >>
<1> DEFINE f == [i \in Nat |-> << "byte", p, i - 1 >>]
           g == [j \in 1 .. n |-> << "byte", p, k + j - 1 >>]
<1>1. \A m \in {0, k, k + n} : Catted(p, m) = Slice(f, 0, m)
  BY DEF Catted, Slice
<1>2. g = Slice(f, k, n)
  BY DEF Slice
<1> HIDE DEF f, g
<1>3. /\ Slice(f, 0, k) \o Slice(f, k, n) = Slice(f, 0, k + n)
      /\ Sequence(Slice(f, 0, k)) /\ Sequence(Slice(f, k, n)) /\ Slice(f, 0, 0) = << >>
  BY Slices
<1> QED BY <1>1, <1>2, <1>3 DEF g

LEMMA DrawnMore ==
  ASSUME NEW k \in Nat
  PROVE  /\ Drawn(k) \o << << "pixel", k >> >> = Drawn(k + 1)
         /\ Sequence(Drawn(k)) /\ Drawn(0) = << >>
<1> DEFINE f == [i \in Nat |-> << "pixel", i - 1 >>]
<1>1. \A m \in {0, k, k + 1} : Drawn(m) = Slice(f, 0, m)
  BY DEF Drawn, Slice
<1>2. f[k + 1] = << "pixel", k >>
  OBVIOUS
<1> HIDE DEF f
<1>3. /\ Slice(f, 0, k + 1) = Append(Slice(f, 0, k), f[k + 1])
      /\ Sequence(Slice(f, 0, k)) /\ Slice(f, 0, 0) = << >>
  BY Slices
<1>4. Append(Drawn(k), f[k + 1]) = Drawn(k) \o << f[k + 1] >>
  BY <1>1, <1>3, Concats
<1> QED BY <1>1, <1>2, <1>3, <1>4

LEMMA ListedMore ==
  ASSUME NEW names, NEW k \in Nat
  PROVE  /\ Listed(names, k + 1) =
              Listed(names, k) \o << << "name", names[k + 1] >>, Text("newline") >>
         /\ Sequence(Listed(names, k)) /\ Listed(names, 0) = << >>
<1> DEFINE x(i) == << << "name", names[i] >>, Text("newline") >>
           f == [i \in Nat |-> x(i)]
           r == Slice(f, 0, k)
<1>1. \A m \in {0, k, k + 1} : Listed(names, m) = FlattenSeq(Slice(f, 0, m))
  <2> TAKE m \in {0, k, k + 1}
  <2>1. [i \in 1 .. m |-> x(i)] = Slice(f, 0, m)
    BY DEF Slice
  <2> HIDE DEF f
  <2> QED BY <2>1 DEF Listed
<1>2. f[k + 1] = x(k + 1) /\ \A i \in 1 .. k : f[i] = x(i)
  OBVIOUS
<1>3. \A i : Sequence(x(i))
  <2> TAKE i
  <2>1. x(i) \in Seq({ << "name", names[i] >>, Text("newline") })
    OBVIOUS
  <2> QED BY <2>1 DEF Sequence
<1> HIDE DEF f, x
<1>4. Slice(f, 0, k + 1) = Append(r, f[k + 1]) /\ Slice(f, 0, 0) = << >>
  BY Slices
<1>5. r = [i \in 1 .. k |-> r[i]] /\ \A i \in 1 .. k : Sequence(r[i])
  BY <1>2, <1>3 DEF Slice
<1> HIDE DEF r
<1>6. Sequence(FlattenSeq(r)) /\ FlattenSeq(Append(r, x(k + 1))) = FlattenSeq(r) \o x(k + 1)
  BY <1>3, <1>5, Flattened
<1>7. FlattenSeq(<< >>) = << >>
  BY DEF FlattenSeq
<1> QED BY <1>1, <1>2, <1>4, <1>6, <1>7 DEF x, r

\* The number of rows that k bytes and n more fill, when k fill m.
LEMMA RowCount ==
  ASSUME NEW m \in Nat, NEW n \in Nat
  PROVE  /\ (n + Row - 1) \div Row \in Nat
         /\ (Row * m + n + Row - 1) \div Row = m + (n + Row - 1) \div Row
         /\ (Row * m + Row - 1) \div Row = m
<1>1. Row \in Nat \ {0}
  BY ProgramsAssumption
<1> DEFINE x == n + Row - 1
           q == x \div Row
           r == x % Row
<1>2. x \in Nat
  BY <1>1
<1>3. q \in Nat /\ r \in 0 .. Row - 1 /\ x = Row * q + r
  <2> HIDE DEF x
  <2> QED BY <1>1, <1>2, DivMod
<1> HIDE DEF q, r
<1>4. Row * m + n + Row - 1 = Row * (m + q) + r
  <2>1. Row * (m + q) = Row * m + Row * q
    BY <1>1, <1>3
  <2>2. Row * m \in Nat /\ Row * q \in Nat
    BY <1>1, <1>3
  <2> QED BY <1>1, <1>3, <2>1, <2>2
<1>5. (Row * (m + q) + r) \div Row = m + q
  <2>1. m + q \in Nat
    BY <1>3
  <2> QED BY <1>1, <1>3, <2>1, DivModIs
<1>6. (Row * m + (Row - 1)) \div Row = m
  <2>1. Row - 1 \in 0 .. Row - 1
    BY <1>1
  <2> QED BY <1>1, <2>1, DivModIs
<1>7. Row * m + Row - 1 = Row * m + (Row - 1)
  BY <1>1
<1> QED BY <1>3, <1>4, <1>5, <1>6, <1>7 DEF q, x

LEMMA RowsMore ==
  ASSUME NEW f, NEW m \in Nat, f.k = Row * m, NEW n \in Nat
  PROVE  /\ RowsOf(f.argv, f.k) \o Rows(f, n) = RowsOf(f.argv, f.k + n)
         /\ Sequence(RowsOf(f.argv, f.k)) /\ Sequence(Rows(f, n))
<1> DEFINE p == f.argv
           k == f.k
           q == (n + Row - 1) \div Row
           Left(l, b) == IF l - b < Row THEN l - b ELSE Row
           At0(l, b) == << "row", b % AddrRange, p, b, Left(l, b) >>
           h == [i \in Nat |-> At0(k + n, (i - 1) * Row)]
<1>1. Row \in Nat \ {0} /\ k \in Nat /\ k = Row * m
  BY ProgramsAssumption
<1>2. q \in Nat /\ (k + Row - 1) \div Row = m /\ (k + n + Row - 1) \div Row = m + q
  BY RowCount
<1> HIDE DEF k, q
<1>3. RowsOf(p, k + n) = Slice(h, 0, m + q)
  BY <1>2 DEF RowsOf, Slice
<1>4. RowsOf(p, k) = Slice(h, 0, m)
  <2>1. ASSUME NEW i \in 1 .. m
        PROVE  At0(k, (i - 1) * Row) = At0(k + n, (i - 1) * Row)
    <3> DEFINE b == (i - 1) * Row
    <3>1. b \in Nat /\ k - b >= Row
      <4>1. PICK c \in Nat : m = (i - 1) + 1 + c
        <5>1. m - i \in Nat /\ m = (i - 1) + 1 + (m - i)
          OBVIOUS
        <5> QED BY <5>1
      <4>2. Row * m = b + Row + Row * c
        BY <1>1, <4>1
      <4>3. Row * c \in Nat /\ b \in Nat
        BY <1>1, <4>1
      <4> HIDE DEF b
      <4> QED BY <1>1, <4>2, <4>3
    <3> HIDE DEF b
    <3>2. k - b < Row <=> FALSE
      BY <1>1, <3>1
    <3>3. k + n - b < Row <=> FALSE
      BY <1>1, <3>1
    <3>4. Left(k, b) = Left(k + n, b)
      BY <1>1, <3>1, <3>2, <3>3
    <3> HIDE DEF Left
    <3>5. At0(k, b) = At0(k + n, b)
      BY <3>4
    <3> HIDE DEF At0
    <3> QED BY <3>5 DEF b
  <2>2. RowsOf(p, k) = [i \in 1 .. m |-> At0(k, (i - 1) * Row)]
    BY <1>2 DEF RowsOf
  <2>3. Slice(h, 0, m) = [i \in 1 .. m |-> At0(k + n, (i - 1) * Row)]
    BY DEF Slice
  <2> HIDE DEF At0, h
  <2> QED BY <2>1, <2>2, <2>3
<1>5. Rows(f, n) = Slice(h, m, q)
  <2> DEFINE Row0(j) == LET b == (j - 1) * Row
                            r == IF n - b < Row THEN n - b ELSE Row
                        IN  << "row", (k + b) % AddrRange, p, k + b, r >>
  <2>1. Rows(f, n) = [j \in 1 .. q |-> Row0(j)]
    BY DEF Rows, k, q
  <2>2. ASSUME NEW j \in 1 .. q PROVE Row0(j) = h[m + j]
    <3> DEFINE b == (j - 1) * Row
    <3>1. b \in Nat /\ (m + j - 1) * Row = k + b
      <4>1. (m + j - 1) * Row = Row * m + (j - 1) * Row
        BY <1>1, <1>2
      <4>2. b \in Nat
        BY <1>1, <1>2
      <4> HIDE DEF b
      <4> QED BY <1>1, <4>1, <4>2 DEF b
    <3>2. m + j \in Nat /\ h[m + j] = At0(k + n, (m + j - 1) * Row)
      BY <1>2
    <3> HIDE DEF b, h
    <3>3. k + n - (k + b) = n - b
      BY <1>1, <3>1
    <3>4. h[m + j] = At0(k + n, k + b)
      BY <3>1, <3>2
    <3>5. Row0(j) = << "row", (k + b) % AddrRange, p, k + b, Left(n, b) >>
      BY DEF b
    <3> HIDE DEF Row0
    <3>6. Left(k + n, k + b) = Left(n, b)
      BY <1>1, <3>1, <3>3
    <3> HIDE DEF Left
    <3> QED BY <3>4, <3>5, <3>6
  <2>3. Slice(h, m, q) = [j \in 1 .. q |-> h[m + j]]
    BY DEF Slice
  <2> HIDE DEF Row0, h
  <2> QED BY <2>1, <2>2, <2>3
<1> HIDE DEF h
<1>6. /\ Slice(h, 0, m) \o Slice(h, m, q) = Slice(h, 0, m + q)
      /\ Sequence(Slice(h, 0, m)) /\ Sequence(Slice(h, m, q))
  BY <1>2, Slices
<1> QED BY <1>3, <1>4, <1>5, <1>6 DEF k

-----------------------------------------------------------------------------
\* What lines come to.
LEMMA PathFacts ==
  ASSUME NEW p, p \in DOMAIN Disk
  PROVE  /\ LengthOf(p) \in Nat /\ NamesOf(p) \in Seq(STRING) /\ Len(NamesOf(p)) \in Nat
         /\ (Disk[p].t = "dir" => LengthOf(p) = 0)
         /\ p # NULL /\ p # Config
<1>1. Disk[p].len \in Nat /\ Disk[p].names \in Seq(STRING) /\ << >> \in Seq(STRING)
  BY ProgramsAssumption
<1>2. LengthOf(p) \in Nat
  BY <1>1 DEF LengthOf
<1>3. NamesOf(p) \in Seq(STRING)
  BY <1>1 DEF NamesOf
<1>4. Len(NamesOf(p)) \in Nat
  BY <1>3
<1> QED BY <1>2, <1>3, <1>4, ProgramsAssumption DEF LengthOf

LEMMA NothingToDo ==
  ASSUME NEW l, IsBlank(l) \/ IsExit(l)
  PROVE  Outcome(l) = << >> /\ ~ Runs(l)
BY ProgramsAssumption DEF Outcome, Runs, IsBlank, IsExit

LEMMA NotFound ==
  ASSUME NEW l, ~ IsBlank(l), ~ IsExit(l), l.cmd \notin DOMAIN Disk
  PROVE  Outcome(l) = << << "not found", l.cmd >> >> /\ ~ Runs(l)
BY DEF Outcome, Runs

LEMMA RunOutcome ==
  ASSUME NEW l \in Lines, Runs(l)
  PROVE  LET prog  == Disk[l.cmd].prog
             p     == l.arg
             there == p \in DOMAIN Disk
         IN  /\ ~ IsBlank(l) /\ ~ IsExit(l) /\ prog \in Runnable
             /\ prog = "sh" => Outcome(l) = << >>
             /\ prog = "cat" =>
                  Outcome(l) = IF there THEN Catted(p, LengthOf(p)) ELSE << Text("no such file") >>
             /\ prog = "ls" =>
                  Outcome(l) = IF there THEN Listed(NamesOf(p), Len(NamesOf(p)))
                               ELSE << Text("no such directory") >>
             /\ prog = "echo" => Outcome(l) = << << "path", p >>, Text("newline") >>
             /\ prog = "hexd" =>
                  Outcome(l) = IF there THEN RowsOf(p, LengthOf(p)) ELSE << Text("can't open file") >>
             /\ prog = "gfxtest" => Outcome(l) = Drawn(Pixels)
<1> DEFINE prog  == Disk[l.cmd].prog
           p     == l.arg
           there == p \in DOMAIN Disk
<1>1. ~ IsBlank(l) /\ ~ IsExit(l) /\ prog \in Runnable /\ l.cmd \in DOMAIN Disk
  BY ProgramsAssumption DEF Runs, IsBlank, IsExit
<1>2. CASE prog = "sh"
  BY <1>1, <1>2 DEF Outcome
<1>3. CASE prog = "cat"
  BY <1>1, <1>3 DEF Outcome, Catted, LengthOf
<1>4. CASE prog = "ls"
  BY <1>1, <1>4 DEF Outcome, Listed, NamesOf
<1>5. CASE prog = "echo"
  BY <1>1, <1>5 DEF Outcome
<1>6. CASE prog = "hexd"
  BY <1>1, <1>6 DEF Outcome, LengthOf
<1>7. CASE prog = "gfxtest"
  BY <1>1, <1>7 DEF Outcome, Drawn
<1> HIDE DEF prog, p, there
<1>8. prog \in {"sh", "cat", "ls", "echo", "hexd", "gfxtest"}
  BY <1>1 DEF Runnable
<1> QED BY <1>1, <1>2, <1>3, <1>4, <1>5, <1>6, <1>7, <1>8 DEF prog, p, there

LEMMA Nothing == Sequence(<< >>)
<1>1. << >> \in Seq({})
  OBVIOUS
<1> QED BY <1>1 DEF Sequence

LEMMA Tuples ==
  ASSUME NEW x, NEW y, NEW z
  PROVE  /\ Sequence(<< x >>) /\ Sequence(<< x, y >>) /\ Sequence(<< x, y, z >>)
         /\ << x, y >> \o << z >> = << x, y, z >>
<1>1. << x >> \in Seq({x}) /\ << x, y >> \in Seq({x, y}) /\ << x, y, z >> \in Seq({x, y, z})
  OBVIOUS
<1>2. Append(<< x, y >>, z) = << x, y, z >>
  <2> DEFINE S == {x, y, z}
             r == Append(<< x, y >>, z)
             s == << x, y, z >>
  <2>1. << x, y >> \in Seq(S) /\ z \in S /\ s \in Seq(S) /\ Len(s) = 3
        /\ s[1] = x /\ s[2] = y /\ s[3] = z
    OBVIOUS
  <2>2. Len(<< x, y >>) = 2 /\ << x, y >>[1] = x /\ << x, y >>[2] = y
    OBVIOUS
  <2>3. r \in Seq(S) /\ Len(r) = 3 /\ r[1] = x /\ r[2] = y /\ r[3] = z
    <3> HIDE DEF S
    <3>1. /\ r \in Seq(S) /\ Len(r) = Len(<< x, y >>) + 1
          /\ \A i \in 1 .. Len(<< x, y >>) : r[i] = << x, y >>[i]
          /\ r[Len(<< x, y >>) + 1] = z
      BY <2>1, AppendProperties
    <3> QED BY <2>2, <3>1
  <2> HIDE DEF r, s, S
  <2>4. \A i \in 1 .. 3 : r[i] = s[i]
    <3>1. \A i \in 1 .. 3 : i = 1 \/ i = 2 \/ i = 3
      OBVIOUS
    <3> QED BY <2>1, <2>3, <3>1
  <2>5. r = s
    BY <2>1, <2>3, <2>4, SeqEqual
  <2> QED BY <2>5 DEF r, s
<1>3. Sequence(<< x >>) /\ Sequence(<< x, y >>) /\ Sequence(<< x, y, z >>)
  BY <1>1 DEF Sequence
<1>4. Append(<< x, y >>, z) = << x, y >> \o << z >>
  BY <1>3, Concats
<1> QED BY <1>2, <1>3, <1>4

LEMMA OutcomeSequence ==
  ASSUME NEW l \in Lines
  PROVE  Sequence(Outcome(l)) /\ Sequence(Answer(l))
<1>1. Sequence(Outcome(l))
  <2>1. CASE IsBlank(l) \/ IsExit(l)
    <3>1. Outcome(l) = << >>
      BY <2>1, NothingToDo
    <3> QED BY <3>1, Nothing
  <2>2. CASE ~ IsBlank(l) /\ ~ IsExit(l) /\ l.cmd \notin DOMAIN Disk
    <3>1. Sequence(<< << "not found", l.cmd >> >>)
      BY Tuples
    <3>2. Outcome(l) = << << "not found", l.cmd >> >>
      BY <2>2, NotFound
    <3> QED BY <3>1, <3>2
  <2>3. CASE Runs(l)
    <3> DEFINE prog == Disk[l.cmd].prog
               p == l.arg
               there == p \in DOMAIN Disk
    <3>1. there => Sequence(Catted(p, LengthOf(p)))
      BY PathFacts, CattedMore
    <3>2. there => Sequence(Listed(NamesOf(p), Len(NamesOf(p))))
      BY PathFacts, ListedMore
    <3>3. there => Sequence(RowsOf(p, LengthOf(p)))
      BY PathFacts, RowsSequence
    <3>4. Sequence(Drawn(Pixels))
      BY ProgramsAssumption, DrawnMore
    <3>5. /\ prog \in Runnable
          /\ prog = "sh" => Outcome(l) = << >>
          /\ prog = "cat" =>
               Outcome(l) = IF there THEN Catted(p, LengthOf(p)) ELSE << Text("no such file") >>
          /\ prog = "ls" =>
               Outcome(l) = IF there THEN Listed(NamesOf(p), Len(NamesOf(p)))
                            ELSE << Text("no such directory") >>
          /\ prog = "echo" => Outcome(l) = << << "path", p >>, Text("newline") >>
          /\ prog = "hexd" =>
               Outcome(l) = IF there THEN RowsOf(p, LengthOf(p)) ELSE << Text("can't open file") >>
          /\ prog = "gfxtest" => Outcome(l) = Drawn(Pixels)
      BY <2>3, RunOutcome
    <3>6. /\ Sequence(<< Text("no such file") >>) /\ Sequence(<< Text("no such directory") >>)
          /\ Sequence(<< << "path", p >>, Text("newline") >>) /\ Sequence(<< Text("can't open file") >>)
      BY Tuples
    <3> HIDE DEF prog, p, there
    <3>7. CASE prog \in {"sh", "echo", "gfxtest"}
      BY <3>4, <3>5, <3>6, <3>7, Nothing
    <3>8. CASE prog \in {"cat", "ls", "hexd"}
      BY <3>1, <3>2, <3>3, <3>5, <3>6, <3>8
    <3> QED BY <3>5, <3>7, <3>8 DEF Runnable
  <2> QED BY <2>1, <2>2, <2>3 DEF Runs
<1>2. Sequence(<< << "line", l >> >>) /\ Sequence(<< Text("$ ") >>)
  BY Tuples
<1>3. Sequence(<< << "line", l >> >> \o Outcome(l))
  BY <1>1, <1>2, Concats
<1>4. Sequence((<< << "line", l >> >> \o Outcome(l)) \o << Text("$ ") >>)
  BY <1>2, <1>3, Concats
<1> QED BY <1>1, <1>4 DEF Answer

LEMMA SessionStart ==
  ASSUME NEW s
  PROVE  SessionOf(s, << >>) = << << "path", s >>, Text("newline"), Text("$ ") >>
<1>1. [i \in 1 .. Len(<< >>) |-> Answer(<< >>[i])] = << >>
  OBVIOUS
<1>2. FlattenSeq(<< >>) = << >>
  BY DEF FlattenSeq
<1>3. Sequence(Header(s))
  BY Tuples DEF Header
<1>4. Header(s) \o << >> = Header(s)
  BY <1>3, Concats
<1> QED BY <1>1, <1>2, <1>4 DEF SessionOf, Header

LEMMA SessionAppend ==
  ASSUME NEW s, NEW t \in Seq(Lines), NEW l \in Lines
  PROVE  /\ Sequence(SessionOf(s, t))
         /\ SessionOf(s, Append(t, l)) = SessionOf(s, t) \o Answer(l)
<1> DEFINE n == Len(t)
           u == Append(t, l)
           f == [i \in 1 .. n |-> Answer(t[i])]
           g == [i \in 1 .. n + 1 |-> Answer(u[i])]
<1>1. /\ u \in Seq(Lines) /\ n \in Nat /\ Len(u) = n + 1
      /\ u[n + 1] = l /\ \A i \in 1 .. n : u[i] = t[i] /\ t[i] \in Lines
  <2> HIDE DEF u, n
  <2>1. \A i \in 1 .. n : t[i] \in Lines
    BY DEF n
  <2> QED BY <2>1, AppendFacts DEF u, n
<1> HIDE DEF u, n
<1>2. g = Append(f, Answer(l))
  BY <1>1
<1>3. f = [i \in 1 .. n |-> f[i]] /\ \A i \in 1 .. n : Sequence(f[i])
  BY <1>1, OutcomeSequence
<1>4. SessionOf(s, u) = Header(s) \o FlattenSeq(g) /\ SessionOf(s, t) = Header(s) \o FlattenSeq(f)
  BY <1>1 DEF SessionOf, n
<1> HIDE DEF f, g
<1>5. /\ Sequence(Answer(l)) /\ Sequence(FlattenSeq(f))
      /\ FlattenSeq(g) = FlattenSeq(f) \o Answer(l)
  BY <1>1, <1>2, <1>3, OutcomeSequence, Flattened
<1>6. Sequence(Header(s))
  BY Tuples DEF Header
<1>7. /\ Sequence(Header(s) \o FlattenSeq(f))
      /\ (Header(s) \o FlattenSeq(f)) \o Answer(l) = Header(s) \o (FlattenSeq(f) \o Answer(l))
  BY <1>5, <1>6, Concats
<1> QED BY <1>4, <1>5, <1>7 DEF u

\* The prompt is all that is missing.
LEMMA Prompted ==
  ASSUME typed \in Seq(Lines), Ready
  PROVE  con \o << Text("$ ") >> = SessionOf(shell, typed)
<1>1. CASE typed = << >> /\ con = << << "path", shell >>, Text("newline") >>
  <2>1. << << "path", shell >>, Text("newline") >> \o << Text("$ ") >>
          = << << "path", shell >>, Text("newline"), Text("$ ") >>
    BY Tuples
  <2> QED BY <1>1, <2>1, SessionStart
<1>2. CASE Answering(Outcome(LastLine))
  <2> DEFINE s == SessionOf(shell, Front(typed))
             q == << << "line", LastLine >> >>
             o == Outcome(LastLine)
             p == << Text("$ ") >>
  <2>1. /\ LastLine \in Lines /\ Front(typed) \in Seq(Lines) /\ con = (s \o q) \o o
        /\ Append(Front(typed), LastLine) = typed
    BY <1>2, FrontFacts DEF Answering, Asked, LastLine
  <2>2. /\ SessionOf(shell, typed) = s \o Answer(LastLine)
        /\ Sequence(s) /\ Sequence(q) /\ Sequence(o) /\ Sequence(p)
    BY <2>1, SessionAppend, OutcomeSequence, Tuples
  <2>3. Answer(LastLine) = (q \o o) \o p
    BY DEF Answer
  <2> HIDE DEF s, q, o, p
  <2>4. Sequence(q \o o) /\ (s \o q) \o o = s \o (q \o o)
    BY <2>2, Concats
  <2> DEFINE w == q \o o
  <2>5. (s \o w) \o p = s \o (w \o p)
    <3> HIDE DEF w
    <3>1. Sequence(w)
      BY <2>4 DEF w
    <3> QED BY <2>2, <3>1, Concats
  <2>6. con \o p = SessionOf(shell, typed)
    BY <2>1, <2>2, <2>3, <2>4, <2>5
  <2> QED BY <2>6 DEF p
<1> QED BY <1>1, <1>2 DEF Ready

\* A program goes on with its answer.
LEMMA AnswerMore ==
  ASSUME typed \in Seq(Lines), NEW a, NEW b, Answering(a), Sequence(a), Sequence(b)
  PROVE  con \o b = Asked \o (a \o b)
<1>1. Front(typed) \in Seq(Lines) /\ LastLine \in Lines
  BY FrontFacts DEF Answering, LastLine
<1>2. Sequence(SessionOf(shell, Front(typed))) /\ Sequence(<< << "line", LastLine >> >>)
  BY <1>1, SessionAppend, Tuples
<1>3. Sequence(Asked)
  BY <1>2, Concats DEF Asked
<1> QED BY <1>3, Concats DEF Answering

-----------------------------------------------------------------------------
\* The descriptors in use are the first ones.
LEMMA FdsFacts ==
  ASSUME NEW m \in Nat, fds = 0 .. m, m + 1 < MaxFds
  PROVE  /\ fds # Fds /\ LowestFree = m + 1 /\ fds \cup {LowestFree} = 0 .. m + 1
         /\ (0 .. m + 1) \ {m + 1} = 0 .. m
<1>1. m + 1 \in Fds \ fds /\ \A i \in Fds \ fds : m + 1 <= i
  BY ProgramsAssumption DEF Fds
<1> DEFINE Low(fd) == fd \in Fds \ fds /\ \A i \in Fds \ fds : fd <= i
<1>2. LowestFree = CHOOSE fd : Low(fd)
  BY DEF LowestFree
<1>3. Low(LowestFree)
  <2>1. Low(m + 1)
    BY <1>1
  <2> HIDE DEF Low
  <2>2. Low(CHOOSE fd : Low(fd))
    BY <2>1, Zenon
  <2> QED BY <1>2, <2>2
<1>4. LowestFree = m + 1
  <2>1. LowestFree \in Nat
    BY <1>3, ProgramsAssumption DEF Fds
  <2>2. LowestFree <= m + 1 /\ m + 1 <= LowestFree
    BY <1>1, <1>3
  <2> QED BY <2>1, <2>2
<1> QED BY <1>1, <1>4

\* The frames of the stack.
LEMMA StackFacts ==
  ASSUME NEW s, Stacked(s)
  PROVE  /\ Len(s) \in Nat \ {0} /\ s[Len(s)] \in Frame /\ s \in Seq(Frame)
         /\ IF s[Len(s)].prog = "init" THEN Len(s) = 1 ELSE Len(s) > 1
<1> DEFINE n == Len(s)
<1>1. s \in Seq(Frame) /\ s # << >>
  BY DEF Stacked
<1>2. n \in Nat \ {0} /\ s[n] \in Frame
  BY <1>1
<1> HIDE DEF n
<1>3. CASE n = 1
  <2>1. s[n].prog = "init"
    BY <1>3 DEF Stacked
  <2> QED BY <1>1, <1>2, <1>3, <2>1 DEF n
<1>4. CASE n # 1
  <2>1. n \in 2 .. n
    BY <1>2, <1>4
  <2>2. "init" \notin Runnable
    BY DEF Runnable
  <2>3. s[n].prog \in Runnable
    BY <2>1 DEF Stacked, n
  <2>4. s[n].prog # "init"
    BY <2>2, <2>3
  <2>5. n > 1
    BY <1>2, <1>4
  <2> QED BY <1>1, <1>2, <2>4, <2>5 DEF n
<1> QED BY <1>3, <1>4

LEMMA TopChanges ==
  ASSUME NEW s, Stacked(s), NEW f \in Frame, f.prog = s[Len(s)].prog
  PROVE  LET t == [s EXCEPT ![Len(s)] = f]
         IN  Stacked(t) /\ Len(t) = Len(s) /\ t[Len(t)] = f
<1> DEFINE n == Len(s)
           t == [s EXCEPT ![n] = f]
<1>1. n \in Nat \ {0} /\ s \in Seq(Frame)
  BY StackFacts
<1>2. n \in 1 .. n
  BY <1>1
<1>3. /\ t \in Seq(Frame) /\ Len(t) = n
      /\ \A j \in 1 .. n : t[j] = IF j = n THEN f ELSE s[j]
  BY <1>1, <1>2, ExceptSeq
<1> HIDE DEF t
<1>4. t[n] = f /\ t # << >> /\ \A j \in 1 .. n : t[j].prog = s[j].prog
  BY <1>1, <1>2, <1>3
<1>5. \A j \in 1 .. n - 1 : t[j].pc = "ran"
  <2>1. \A j \in 1 .. n - 1 : j \in 1 .. n /\ j # n
    BY <1>1
  <2> QED BY <1>3, <2>1 DEF Stacked, n
<1>6. t[1].prog = "init"
  <2>1. 1 \in 1 .. n
    BY <1>1
  <2> QED BY <1>4, <2>1 DEF Stacked
<1>7. \A j \in 2 .. n : t[j].prog \in Runnable /\ (j = 2 \/ j < n => t[j].prog = "sh")
  <2>1. \A j \in 2 .. n : j \in 1 .. n
    BY <1>1
  <2> QED BY <1>4, <2>1 DEF Stacked, n
<1>8. Stacked(t)
  BY <1>3, <1>4, <1>5, <1>6, <1>7 DEF Stacked
<1> QED BY <1>3, <1>4, <1>8 DEF t

\* init runs shells, shells run programs.
LEMMA Pushed ==
  ASSUME NEW s, Stacked(s), s[Len(s)].prog \in {"init", "sh"}, s[Len(s)].pc = "ran",
         NEW f \in Frame, f.prog \in Runnable, Len(s) = 1 => f.prog = "sh"
  PROVE  LET t == Append(s, f)
         IN  Stacked(t) /\ Len(t) = Len(s) + 1 /\ t[Len(t)] = f
<1> DEFINE n == Len(s)
           t == Append(s, f)
<1>1. n \in Nat \ {0} /\ s \in Seq(Frame) /\ (IF s[n].prog = "init" THEN n = 1 ELSE n > 1)
  BY StackFacts
<1>2. /\ t \in Seq(Frame) /\ t # << >> /\ Len(t) = n + 1 /\ t[n + 1] = f
      /\ \A j \in 1 .. n : t[j] = s[j]
  BY <1>1, AppendProperties
<1> HIDE DEF t
<1>3. \A j \in 1 .. n : t[j].pc = "ran"
  <2>1. \A j \in 1 .. n : j \in 1 .. n - 1 \/ j = n
    BY <1>1
  <2> QED BY <1>2, <2>1 DEF Stacked, n
<1>4. t[1].prog = "init"
  <2>1. 1 \in 1 .. n
    BY <1>1
  <2> QED BY <1>2, <2>1 DEF Stacked
<1>5. ASSUME NEW j \in 2 .. n + 1
      PROVE  t[j].prog \in Runnable /\ (j = 2 \/ j < n + 1 => t[j].prog = "sh")
  <2>1. CASE j = n + 1
    BY <1>1, <1>2, <2>1 DEF n
  <2>2. CASE j = n /\ j # n + 1
    BY <1>1, <1>2, <2>2 DEF Runnable, n
  <2>3. CASE j < n
    <3>1. j \in 2 .. n /\ j \in 1 .. n
      BY <1>1, <2>3
    <3> QED BY <1>2, <2>3, <3>1 DEF Stacked, n
  <2>4. j = n + 1 \/ j = n \/ j < n
    BY <1>1
  <2> QED BY <2>1, <2>2, <2>3, <2>4
<1>6. Stacked(t)
  <2>1. n + 1 - 1 = n
    BY <1>1
  <2> QED BY <1>2, <1>3, <1>4, <1>5, <2>1 DEF Stacked
<1> QED BY <1>2, <1>6 DEF t

\* The caller of a program that exits: init below the first shell, else a shell.
LEMMA Popped ==
  ASSUME NEW s, Stacked(s), Len(s) > 1, NEW code \in Int
  PROVE  LET t == [Front(s) EXCEPT ![Len(s) - 1].res = code]
             f == t[Len(t)]
         IN  /\ Stacked(t) /\ Len(t) = Len(s) - 1
             /\ f \in Frame /\ f.pc = "ran" /\ f.res = code
             /\ f.prog = IF Len(s) = 2 THEN "init" ELSE "sh"
<1> DEFINE n == Len(s) - 1
           r == Front(s)
           g == [r[n] EXCEPT !.res = code]
           t == [r EXCEPT ![n].res = code]
<1>1. /\ n \in Nat \ {0} /\ Len(s) = n + 1 /\ s \in Seq(Frame)
      /\ r \in Seq(Frame) /\ Len(r) = n /\ \A i \in 1 .. n : r[i] = s[i]
  <2>1. Len(s) \in Nat \ {0} /\ s \in Seq(Frame) /\ s # << >>
    BY StackFacts DEF Stacked
  <2>2. r \in Seq(Frame) /\ Len(r) = Len(s) - 1 /\ \A i \in 1 .. Len(s) - 1 : r[i] = s[i]
    BY <2>1, FrontFacts
  <2> HIDE DEF r
  <2> QED BY <2>1, <2>2
<1>2. n \in 1 .. n /\ r[n] = s[n] /\ r[n] \in Frame
  <2> HIDE DEF n, r
  <2> QED BY <1>1
<1>3. g \in Frame /\ g.res = code /\ g.prog = s[n].prog /\ g.pc = s[n].pc
  <2> HIDE DEF n, r
  <2> QED BY <1>2 DEF Frame
<1>4. t = [r EXCEPT ![n] = g]
  OBVIOUS
<1> HIDE DEF g, t
<1>5. /\ t \in Seq(Frame) /\ Len(t) = n
      /\ \A j \in 1 .. n : t[j] = IF j = n THEN g ELSE r[j]
  <2> HIDE DEF n, r
  <2> QED BY <1>1, <1>2, <1>3, <1>4, ExceptSeq
<1> HIDE DEF r, n
<1>6. t[n] = g /\ t # << >> /\ \A j \in 1 .. n : t[j].prog = s[j].prog /\ t[j].pc = s[j].pc
  BY <1>1, <1>2, <1>3, <1>5
<1>7. \A j \in 1 .. n : s[j].pc = "ran"
  <2>1. n + 1 - 1 = n
    BY <1>1
  <2> QED BY <1>1, <2>1 DEF Stacked
<1>8. t[1].prog = "init"
  <2>1. 1 \in 1 .. n
    BY <1>1
  <2> QED BY <1>6, <2>1 DEF Stacked
<1>9. \A j \in 2 .. n : t[j].prog \in Runnable /\ t[j].prog = "sh"
  <2>1. \A j \in 2 .. n : j \in 2 .. n + 1 /\ j < n + 1 /\ j \in 1 .. n
    BY <1>1
  <2> QED BY <1>1, <1>6, <2>1 DEF Stacked
<1>10. Stacked(t)
  <2>1. \A j \in 1 .. n - 1 : j \in 1 .. n
    BY <1>1
  <2> QED BY <1>5, <1>6, <1>7, <1>8, <1>9, <2>1 DEF Stacked
<1>11. g.prog = IF n = 1 THEN "init" ELSE "sh"
  <2>1. CASE n = 1
    BY <1>6, <1>8, <2>1
  <2>2. CASE n # 1
    <3>1. n \in 2 .. n
      BY <1>1, <2>2
    <3> QED BY <1>6, <1>9, <2>2, <3>1
  <2> QED BY <2>1, <2>2
<1>12. n = 1 <=> Len(s) = 2
  BY <1>1
<1>13. g.pc = "ran"
  BY <1>2, <1>3, <1>7
<1> QED BY <1>1, <1>3, <1>5, <1>6, <1>10, <1>11, <1>12, <1>13 DEF t, n, r

-----------------------------------------------------------------------------
\* What steps do to the stack.
LEMMA RunningFacts ==
  ASSUME Running
  PROVE  /\ shell \in Shells /\ typed \in Seq(Lines) /\ Len(typed) \in Nat
         /\ Depth \in Nat \ {0} /\ Used \in Nat /\ Used + 5 < MaxFds
         /\ Stacked(stack) /\ Len(stack) \in Nat \ {0} /\ Top \in Frame
         /\ IF Top.prog = "init" THEN Len(stack) = 1 ELSE Len(stack) > 1
<1>1. shell \in Shells /\ typed \in Seq(Lines) /\ Len(typed) <= MaxLines /\ Stacked(stack)
  BY DEF Running
<1>2. Len(typed) \in Nat
  BY <1>1
<1>3. Len(typed) \in 0 .. Len(typed)
  BY <1>2
<1>4. Depth \in Nat \ {0}
  <2>1. DepthsOf(typed) \in [0 .. Len(typed) -> Nat \ {0}]
    BY <1>1, DepthsAre
  <2> QED BY <1>3, <2>1 DEF Depth
<1>5. Used \in Nat /\ Used <= Len(typed)
  BY <1>1, RanFacts DEF Used
<1>6. Used + 5 < MaxFds
  BY <1>1, <1>2, <1>5, ProgramsAssumption
<1> QED BY <1>1, <1>2, <1>4, <1>5, <1>6, StackFacts DEF Top

LEMMA OnTop ==
  ASSUME Running
  PROVE  /\ Top.prog = "init" => InitOnTop(Top)
         /\ Top.prog = "sh" => ShellOnTop(Top)
         /\ Top.prog \notin {"init", "sh"} => ProgramOnTop(Top)
<1>1. InitOnTop(Top) => Top.prog = "init"
  BY DEF InitOnTop
<1>2. ShellOnTop(Top) => Top.prog = "sh"
  BY DEF ShellOnTop
<1>3. ProgramOnTop(Top) => Top.prog \notin {"init", "sh"}
  BY DEF ProgramOnTop, Runnable
<1>4. InitOnTop(Top) \/ ShellOnTop(Top) \/ ProgramOnTop(Top)
  BY DEF Running
<1> QED BY <1>1, <1>2, <1>3, <1>4

LEMMA Moves ==
  ASSUME Running, NEW p \in Points, At(p)
  PROVE  /\ Stacked(stack') /\ Len(stack') = Len(stack) /\ Top' \in Frame
         /\ Top'.prog = Top.prog /\ Top'.pc = p /\ Top'.argv = Top.argv /\ Top'.fd = Top.fd
         /\ Top'.k = Top.k /\ Top'.res = Top.res
<1> DEFINE f == [Top EXCEPT !.pc = p]
<1>1. Stacked(stack) /\ Top \in Frame
  BY RunningFacts
<1>2. /\ f \in Frame
      /\ f.prog = Top.prog /\ f.pc = p /\ f.argv = Top.argv /\ f.fd = Top.fd
      /\ f.k = Top.k /\ f.res = Top.res
  BY <1>1 DEF Frame
<1>3. stack' = [stack EXCEPT ![Len(stack)] = f]
  BY DEF At, Top
<1> HIDE DEF f
<1>4. f.prog = stack[Len(stack)].prog
  BY <1>2 DEF Top
<1>5. Stacked(stack') /\ Len(stack') = Len(stack) /\ stack'[Len(stack')] = f
  BY <1>1, <1>2, <1>3, <1>4, TopChanges
<1> QED BY <1>2, <1>5 DEF Top

LEMMA MovesWith ==
  ASSUME Running, NEW p \in Points, NEW d \in Int, NEW k \in Nat, With(p, d, k)
  PROVE  /\ Stacked(stack') /\ Len(stack') = Len(stack) /\ Top' \in Frame
         /\ Top'.prog = Top.prog /\ Top'.pc = p /\ Top'.argv = Top.argv /\ Top'.fd = d
         /\ Top'.k = k /\ Top'.res = Top.res
<1> DEFINE f == [Top EXCEPT !.pc = p, !.fd = d, !.k = k]
<1>1. Stacked(stack) /\ Top \in Frame
  BY RunningFacts
<1>2. /\ f \in Frame
      /\ f.prog = Top.prog /\ f.pc = p /\ f.argv = Top.argv /\ f.fd = d
      /\ f.k = k /\ f.res = Top.res
  BY <1>1 DEF Frame
<1>3. stack' = [stack EXCEPT ![Len(stack)] = f]
  BY DEF With, Top
<1> HIDE DEF f
<1>4. f.prog = stack[Len(stack)].prog
  BY <1>2 DEF Top
<1>5. Stacked(stack') /\ Len(stack') = Len(stack) /\ stack'[Len(stack')] = f
  BY <1>1, <1>2, <1>3, <1>4, TopChanges
<1> QED BY <1>2, <1>5 DEF Top

Returns(p, r) == stack' = [stack EXCEPT ![Len(stack)] = [@ EXCEPT !.pc = p, !.res = r]]

LEMMA Returned ==
  ASSUME Running, NEW p \in Points, NEW r \in Int, Returns(p, r)
  PROVE  /\ Stacked(stack') /\ Len(stack') = Len(stack) /\ Top' \in Frame
         /\ Top'.prog = Top.prog /\ Top'.pc = p /\ Top'.res = r
<1> DEFINE f == [Top EXCEPT !.pc = p, !.res = r]
<1>1. Stacked(stack) /\ Top \in Frame
  BY RunningFacts
<1>2. f \in Frame /\ f.prog = Top.prog /\ f.pc = p /\ f.res = r
  BY <1>1 DEF Frame
<1>3. stack' = [stack EXCEPT ![Len(stack)] = f]
  BY DEF Returns, Top
<1> HIDE DEF f
<1>4. f.prog = stack[Len(stack)].prog
  BY <1>2 DEF Top
<1>5. Stacked(stack') /\ Len(stack') = Len(stack) /\ stack'[Len(stack')] = f
  BY <1>1, <1>2, <1>3, <1>4, TopChanges
<1> QED BY <1>2, <1>5 DEF Top

LEMMA Exits ==
  ASSUME Running, Len(stack) > 1, NEW code \in Int, exit(code)
  PROVE  /\ Stacked(stack') /\ Len(stack') = Len(stack) - 1 /\ Top' \in Frame
         /\ Top'.prog = IF Len(stack) = 2 THEN "init" ELSE "sh"
         /\ Top'.pc = "ran" /\ Top'.res = code
<1>1. Stacked(stack) /\ stack' = [Front(stack) EXCEPT ![Len(stack) - 1].res = code]
  BY RunningFacts DEF exit
<1> DEFINE t == [Front(stack) EXCEPT ![Len(stack) - 1].res = code]
           f == t[Len(t)]
<1>2. /\ Stacked(t) /\ Len(t) = Len(stack) - 1 /\ f \in Frame
      /\ f.prog = IF Len(stack) = 2 THEN "init" ELSE "sh"
      /\ f.pc = "ran" /\ f.res = code
  BY <1>1, Popped
<1>3. stack' = t
  BY <1>1
<1> HIDE DEF t
<1> QED BY <1>2, <1>3 DEF Top

LEMMA ExecRuns ==
  ASSUME Running, NEW path \in DOMAIN Disk, NEW argv \in Argvs, Top.prog \in {"init", "sh"},
         fds # Fds, Disk[path].prog \in Runnable, Len(stack) = 1 => Disk[path].prog = "sh",
         exec(path, argv, "ran")
  PROVE  /\ Stacked(stack') /\ Len(stack') = Len(stack) + 1 /\ Top' \in Frame
         /\ Top'.prog = Disk[path].prog /\ Top'.pc = "start" /\ Top'.argv = argv
         /\ Top'.k = 0 /\ Top'.res = 0
         /\ fds' = fds \cup {LowestFree}
<1> DEFINE f == [Top EXCEPT !.pc = "ran"]
           s == [stack EXCEPT ![Len(stack)] = f]
           g == Prog(Disk[path].prog, argv)
<1>1. Stacked(stack) /\ Top \in Frame
  BY RunningFacts
<1>2. f \in Frame /\ f.prog = Top.prog /\ f.pc = "ran"
  BY <1>1 DEF Frame, Points
<1>3. stack' = Append(s, g) /\ fds' = fds \cup {LowestFree}
  BY DEF exec, Execs, Opened, Opens, Top
<1>4. /\ g \in Frame /\ g.prog = Disk[path].prog /\ g.pc = "start" /\ g.argv = argv
      /\ g.k = 0 /\ g.res = 0
  BY DEF Prog, Frame, Points
<1> HIDE DEF f, g
<1>5. Stacked(s) /\ Len(s) = Len(stack) /\ s[Len(s)] = f
  <2>1. f.prog = stack[Len(stack)].prog
    BY <1>2 DEF Top
  <2> QED BY <1>1, <1>2, <2>1, TopChanges
<1> HIDE DEF s
<1>6. Stacked(stack') /\ Len(stack') = Len(s) + 1 /\ stack'[Len(stack')] = g
  <2>1. s[Len(s)].prog \in {"init", "sh"} /\ s[Len(s)].pc = "ran"
    BY <1>2, <1>5
  <2>2. g.prog \in Runnable /\ (Len(s) = 1 => g.prog = "sh")
    BY <1>4, <1>5
  <2> QED BY <1>3, <1>4, <1>5, <2>1, <2>2, Pushed
<1> QED BY <1>3, <1>4, <1>5, <1>6 DEF Top

LEMMA ExecFails ==
  ASSUME Running, NEW path, NEW argv, path \notin DOMAIN Disk, path # Config,
         exec(path, argv, "ran")
  PROVE  /\ Stacked(stack') /\ Len(stack') = Len(stack) /\ Top' \in Frame
         /\ Top'.prog = Top.prog /\ Top'.pc = "ran" /\ Top'.res = -1
         /\ fds' = fds
<1>1. Returns("ran", -1) /\ fds' = fds
  BY DEF exec, Execs, Opened, Opens, Returns
<1>2. "ran" \in Points /\ -1 \in Int
  BY DEF Points
<1> QED BY <1>1, <1>2, Returned

\* What is known of the lines when none is typed, and when one is.
LEMMA LinesSame ==
  ASSUME Same
  PROVE  /\ Depth' = Depth /\ Used' = Used /\ LastLine' = LastLine /\ Asked' = Asked
         /\ \A out : Answering(out)' <=> typed # << >> /\ con' = Asked \o out
         /\ (con' = con /\ Ready) => Ready'
BY DEF Same, Depth, Used, LastLine, Asked, Answering, Ready

LEMMA LineTyped ==
  ASSUME Running, NEW l \in Lines, typed' = Append(typed, l), shell' = shell
  PROVE  /\ Depth' = DepthAfter(l, Depth)
         /\ Used' = Used + (IF Costs(l, Depth) THEN 1 ELSE 0)
         /\ LastLine' = l /\ Asked' = SessionOf(shell, typed) \o << << "line", l >> >>
         /\ typed' # << >> /\ typed' \in Seq(Lines) /\ Len(typed') = Len(typed) + 1
<1>1. typed \in Seq(Lines)
  BY RunningFacts
<1>2. /\ typed' \in Seq(Lines) /\ Len(typed') = Len(typed) + 1 /\ typed' # << >>
      /\ typed'[Len(typed) + 1] = l /\ Front(typed') = typed
  BY <1>1, AppendFacts
<1>3. Depth' = DepthAfter(l, Depth)
  BY <1>1, <1>2, DepthsAppend DEF Depth
<1>4. Used' = Used + (IF Costs(l, Depth) THEN 1 ELSE 0)
  BY <1>1, RanAppend DEF Used, Depth
<1> QED BY <1>2, <1>3, <1>4 DEF LastLine, Asked

-----------------------------------------------------------------------------
\* Each step keeps it.
LEMMA NoLines == typed = << >> => Depth = 1 /\ Used = 0
<1> SUFFICES ASSUME typed = << >> PROVE Depth = 1 /\ Used = 0
  OBVIOUS
<1>1. typed \in Seq(Lines) /\ Len(typed) = 0
  OBVIOUS
<1>2. RanOf(typed) = {}
  BY <1>1 DEF RanOf
<1>3. Cardinality({}) = 0
  BY FS_EmptySet
<1> QED BY <1>1, <1>2, <1>3, DepthsAre DEF Depth, Used

LEMMA Stays ==
  ASSUME Running, Same, Stacked(stack'),
         InitOnTop(Top)' \/ ShellOnTop(Top)' \/ ProgramOnTop(Top)'
  PROVE  Running'
BY DEF Running, Same

LEMMA InitStart == ASSUME Running, init_start, Same PROVE Running'
<1>1. /\ InitOnTop(Top) /\ Top.prog = "init" /\ Top.pc = "start"
      /\ typed = << >> /\ con = << >> /\ fds = Std /\ Top.res = 0 /\ Len(stack) = 1
  BY OnTop DEF init_start, Is, InitOnTop
<1>2. CASE shell = NULL
  <2>1. At("stop") /\ "stop" \in Points
    BY <1>2 DEF init_start, Points
  <2>2. Stacked(stack') /\ Len(stack') = 1 /\ Top'.prog = "init" /\ Top'.pc = "stop"
    BY <1>1, <2>1, Moves
  <2>3. InitOnTop(Top)'
    BY <2>2 DEF InitOnTop
  <2> QED BY <2>2, <2>3, Stays
<1>3. CASE shell # NULL
  <2>1. /\ At("exec") /\ "exec" \in Points /\ fds' = fds
        /\ con' = con \o << << "path", shell >>, Text("newline") >>
    BY <1>3 DEF init_start, Points, Says
  <2>2. /\ Stacked(stack') /\ Len(stack') = 1 /\ Top'.prog = "init" /\ Top'.pc = "exec"
        /\ Top'.res = 0
    BY <1>1, <2>1, Moves
  <2>3. con' = << << "path", shell >>, Text("newline") >>
    BY <1>1, <2>1, Tuples, Concats
  <2>4. Ready'
    BY <1>1, <2>3 DEF Ready, Same
  <2>5. Depth' = 1 /\ fds' = 0 .. 2 + Used'
    <3>1. Depth' = 1 /\ Used' = 0
      BY <1>1, NoLines, LinesSame
    <3> QED BY <1>1, <2>1, <3>1 DEF Std
  <2>6. InitOnTop(Top)'
    BY <2>2, <2>4, <2>5 DEF InitOnTop
  <2> QED BY <2>2, <2>6, Stays
<1> QED BY <1>2, <1>3

LEMMA InitExec == ASSUME Running, init_exec, Same PROVE Running'
<1>1. /\ Top.prog = "init" /\ Top.pc = "exec" /\ Len(stack) = 1 /\ shell \in Shells
      /\ Ready /\ Depth = 1 /\ fds = 0 .. 2 + Used /\ Used \in Nat /\ Used + 5 < MaxFds
  BY OnTop, RunningFacts DEF init_exec, Is, InitOnTop
<1>2. exec(shell, Text("arguments"), "ran") /\ con' = con
  BY DEF init_exec
<1>3. Ready' /\ Depth' = 1 /\ Used' = Used
  BY <1>1, <1>2, LinesSame
<1>4. CASE shell \in DOMAIN Disk
  <2>1. Disk[shell].prog = "sh" /\ "sh" \in Runnable /\ Text("arguments") \in Argvs
    BY <1>1, <1>4, SystemAssumption DEF Runnable, Argvs
  <2>2. /\ fds # Fds /\ fds \cup {LowestFree} = 0 .. 3 + Used
    <3>1. 2 + Used \in Nat /\ 2 + Used + 1 < MaxFds /\ 2 + Used + 1 = 3 + Used
      BY <1>1, ProgramsAssumption
    <3>2. fds # Fds /\ fds \cup {LowestFree} = 0 .. 2 + Used + 1
      BY <1>1, <3>1, FdsFacts
    <3> QED BY <3>1, <3>2
  <2>3. /\ Stacked(stack') /\ Len(stack') = 2 /\ Top'.prog = "sh" /\ Top'.pc = "start"
        /\ fds' = fds \cup {LowestFree}
    <3>1. /\ Stacked(stack') /\ Len(stack') = Len(stack) + 1
          /\ Top'.prog = Disk[shell].prog /\ Top'.pc = "start" /\ fds' = fds \cup {LowestFree}
      BY <1>1, <1>2, <1>4, <2>1, <2>2, ExecRuns
    <3> QED BY <1>1, <2>1, <3>1
  <2>4. ShellOnTop(Top)'
    BY <1>3, <2>2, <2>3 DEF ShellOnTop
  <2> QED BY <2>3, <2>4, Stays
<1>5. CASE shell \notin DOMAIN Disk
  <2>1. shell # Config
    BY <1>1, SystemAssumption
  <2>2. /\ Stacked(stack') /\ Len(stack') = 1 /\ Top'.prog = "init" /\ Top'.pc = "ran"
        /\ Top'.res = -1
    BY <1>1, <1>2, <1>5, <2>1, ExecFails
  <2>3. InitOnTop(Top)'
    BY <2>2 DEF InitOnTop
  <2> QED BY <2>2, <2>3, Stays
<1> QED BY <1>4, <1>5

LEMMA InitRan == ASSUME Running, init_ran, Same PROVE Running'
<1>1. Top.prog = "init" /\ Top.pc = "ran" /\ Len(stack) = 1 /\ InitOnTop(Top)
  BY OnTop, RunningFacts DEF init_ran, Is
<1>2. CASE Top.res # 0
  <2>1. At("stop") /\ "stop" \in Points
    BY <1>2 DEF init_ran, Points
  <2>2. Stacked(stack') /\ Len(stack') = 1 /\ Top'.prog = "init" /\ Top'.pc = "stop"
    BY <1>1, <2>1, Moves
  <2>3. InitOnTop(Top)'
    BY <2>2 DEF InitOnTop
  <2> QED BY <2>2, <2>3, Stays
<1>3. CASE Top.res = 0
  <2>1. At("exec") /\ "exec" \in Points /\ con' = con /\ fds' = fds
    BY <1>3 DEF init_ran, Points
  <2>2. /\ Stacked(stack') /\ Len(stack') = 1 /\ Top'.prog = "init" /\ Top'.pc = "exec"
        /\ Top'.res = 0
    BY <1>1, <1>3, <2>1, Moves
  <2>3. Ready /\ Depth = 1 /\ fds = 0 .. 2 + Used
    BY <1>1, <1>3 DEF InitOnTop
  <2>4. Ready' /\ Depth' = 1 /\ fds' = 0 .. 2 + Used'
    BY <2>1, <2>3, LinesSame
  <2>5. InitOnTop(Top)'
    BY <2>2, <2>4 DEF InitOnTop
  <2> QED BY <2>2, <2>5, Stays
<1> QED BY <1>2, <1>3

LEMMA ShellPrompt == ASSUME Running, sh_prompt, Same PROVE Running'
<1>1. /\ Top.prog = "sh" /\ Top.pc = "start" /\ typed \in Seq(Lines)
      /\ Len(stack) = 1 + Depth /\ fds = 0 .. 3 + Used /\ Ready
  BY OnTop, RunningFacts DEF sh_prompt, Is, ShellOnTop
<1>2. At("read") /\ "read" \in Points /\ con' = con \o << Text("$ ") >> /\ fds' = fds
  BY DEF sh_prompt, Says, Points
<1>3. /\ Stacked(stack') /\ Len(stack') = Len(stack) /\ Top'.prog = "sh" /\ Top'.pc = "read"
  BY <1>1, <1>2, Moves
<1>4. con' = SessionOf(shell, typed)'
  <2>1. con \o << Text("$ ") >> = SessionOf(shell, typed)
    BY <1>1, Prompted
  <2> QED BY <1>2, <2>1 DEF Same
<1>5. Depth' = Depth /\ Used' = Used
  BY LinesSame
<1>6. ShellOnTop(Top)'
  BY <1>1, <1>2, <1>3, <1>4, <1>5 DEF ShellOnTop
<1> QED BY <1>3, <1>6, Stays

LEMMA ShellRan == ASSUME Running, sh_ran, Same PROVE Running'
<1>1. /\ Top.prog = "sh" /\ Top.pc = "ran" /\ typed \in Seq(Lines) /\ Top \in Frame
      /\ Len(stack) = 1 + Depth /\ fds = 0 .. 3 + Used /\ ShellOnTop(Top)
  BY OnTop, RunningFacts DEF sh_ran, Is, ShellOnTop
<1>2. Returns("start", 0) /\ "start" \in Points /\ 0 \in Int /\ fds' = fds
  <2>1. Returns("start", 0) /\ fds' = fds
    BY Zenon DEF sh_ran, Returns
  <2>2. "start" \in Points /\ 0 \in Int
    BY DEF Points
  <2> QED BY <2>1, <2>2
<1>3. /\ Stacked(stack') /\ Len(stack') = Len(stack) /\ Top'.prog = "sh" /\ Top'.pc = "start"
  BY <1>1, <1>2, Returned
<1>4. Ready'
  <2>1. CASE Top.res < 0
    <3>1. /\ Answering(<< >>) /\ LastLine.cmd \notin DOMAIN Disk
          /\ ~ IsBlank(LastLine) /\ ~ IsExit(LastLine)
      <4>1. Top.res \in Int
        BY <1>1 DEF Frame
      <4>2. ~ Top.res >= 0
        BY <2>1, <4>1
      <4> QED BY <1>1, <4>2 DEF ShellOnTop
    <3>2. con' = con \o << << "not found", LastLine.cmd >> >>
      BY <2>1 DEF sh_ran, Says, LastLine
    <3>3. Outcome(LastLine) = << << "not found", LastLine.cmd >> >>
      BY <3>1, NotFound
    <3> DEFINE b == << << "not found", LastLine.cmd >> >>
    <3>4. Sequence(b) /\ Sequence(<< >>)
      BY Tuples, Nothing
    <3> HIDE DEF b
    <3>5. con \o b = Asked \o (<< >> \o b) /\ << >> \o b = b
      BY <1>1, <3>1, <3>4, AnswerMore, Concats
    <3>6. con' = Asked \o Outcome(LastLine) /\ typed # << >>
      BY <3>1, <3>2, <3>3, <3>5 DEF b, Answering
    <3>7. Answering(Outcome(LastLine))'
      BY <3>6 DEF Answering, Asked, LastLine, Same
    <3> QED BY <3>7 DEF Ready
  <2>2. CASE ~ Top.res < 0
    <3>1. Ready /\ con' = con
      BY <1>1, <2>2 DEF ShellOnTop, sh_ran
    <3> QED BY <3>1, LinesSame
  <2> QED BY <2>1, <2>2
<1>5. Depth' = Depth /\ Used' = Used
  BY LinesSame
<1>6. ShellOnTop(Top)'
  BY <1>1, <1>2, <1>3, <1>4, <1>5 DEF ShellOnTop
<1> QED BY <1>3, <1>6, Stays

LEMMA ShellRead == ASSUME Running, sh_read PROVE Running'
<1>1. PICK l \in Lines :
        /\ typed' = Append(typed, l)
        /\ con' = con \o << << "line", l >> >>
        /\ CASE IsBlank(l) -> At("start") /\ UNCHANGED fds
             [] IsExit(l)  -> exit(0) /\ UNCHANGED fds
             [] OTHER      -> exec(l.cmd, l.arg, "ran")
  BY DEF sh_read, Says
<1>2. /\ Top.prog = "sh" /\ Top.pc = "read" /\ shell' = shell /\ Len(typed) < MaxLines
      /\ Len(stack) = 1 + Depth /\ fds = 0 .. 3 + Used /\ con = SessionOf(shell, typed)
  BY OnTop DEF sh_read, Is, ShellOnTop
<1>3. /\ shell \in Shells /\ typed \in Seq(Lines) /\ Len(typed) \in Nat
      /\ Depth \in Nat \ {0} /\ Used \in Nat /\ Used + 5 < MaxFds
  BY RunningFacts
<1>4. /\ Depth' = DepthAfter(l, Depth)
      /\ Used' = Used + (IF Costs(l, Depth) THEN 1 ELSE 0)
      /\ LastLine' = l /\ Asked' = SessionOf(shell, typed) \o << << "line", l >> >>
      /\ typed' # << >> /\ typed' \in Seq(Lines) /\ Len(typed') = Len(typed) + 1
  BY <1>1, <1>2, LineTyped
<1>5. shell' \in Shells /\ typed' \in Seq(Lines) /\ Len(typed') <= MaxLines
  BY <1>2, <1>3, <1>4, ProgramsAssumption
<1>6. Answering(<< >>)'
  <2>1. con' = Asked'
    BY <1>1, <1>2, <1>4
  <2>2. Sequence(con')
    <3>1. Sequence(SessionOf(shell, typed)) /\ Sequence(<< << "line", l >> >>)
      BY <1>3, SessionAppend, Tuples
    <3> QED BY <1>1, <1>2, <3>1, Concats
  <2>3. con' \o << >> = con'
    BY <2>2, Concats
  <2> QED BY <1>4, <2>1, <2>3 DEF Answering
<1>7. ASSUME Outcome(l) = << >> PROVE Ready'
  BY <1>4, <1>6, <1>7 DEF Ready
<1>8. CASE IsBlank(l)
  <2>0. ~ IsExit(l)
    BY <1>8, ProgramsAssumption DEF IsBlank, IsExit
  <2>1. At("start") /\ "start" \in Points /\ fds' = fds
    BY <1>1, <1>8, <2>0 DEF Points
  <2>2. Stacked(stack') /\ Len(stack') = Len(stack) /\ Top'.prog = "sh" /\ Top'.pc = "start"
    BY <1>2, <2>1, Moves
  <2>3. ~ Runs(l) /\ ~ IsExit(l) /\ Outcome(l) = << >>
    BY <1>8, <2>0, NothingToDo
  <2>4. Depth' = Depth /\ Used' = Used
    BY <1>3, <1>4, <2>3 DEF DepthAfter, Costs
  <2>5. ShellOnTop(Top)'
    BY <1>2, <1>7, <2>1, <2>2, <2>3, <2>4 DEF ShellOnTop
  <2> QED BY <1>5, <2>2, <2>5 DEF Running
<1>9. CASE IsExit(l)
  <2>1. ~ IsBlank(l) /\ ~ Runs(l) /\ Outcome(l) = << >>
    <3>1. ~ IsBlank(l)
      BY <1>9, ProgramsAssumption DEF IsBlank, IsExit
    <3> QED BY <1>9, <3>1, NothingToDo
  <2>2. exit(0) /\ 0 \in Int /\ fds' = fds
    BY <1>1, <1>9, <2>1
  <2>3. Len(stack) > 1
    BY <1>2, <1>3
  <2>4. /\ Stacked(stack') /\ Len(stack') = Len(stack) - 1
        /\ Top'.prog = IF Len(stack) = 2 THEN "init" ELSE "sh"
        /\ Top'.pc = "ran" /\ Top'.res = 0
    BY <2>2, <2>3, Exits
  <2>5. Ready'
    BY <1>7, <2>1
  <2>6. CASE Depth = 1
    <3>1. Depth' = 1 /\ Used' = Used + 1
      BY <1>4, <1>9, <2>1, <2>6 DEF DepthAfter, Costs
    <3>2. Len(stack) = 2 /\ Len(stack') = 1 /\ fds' = 0 .. 2 + Used'
      BY <1>2, <1>3, <2>2, <2>4, <2>6, <3>1
    <3>3. InitOnTop(Top)'
      BY <2>4, <2>5, <3>1, <3>2 DEF InitOnTop
    <3> QED BY <1>5, <2>4, <3>3 DEF Running
  <2>7. CASE Depth # 1
    <3>1. Depth > 1
      BY <1>3, <2>7
    <3>2. Depth' = Depth - 1 /\ Used' = Used
      BY <1>3, <1>4, <1>9, <2>1, <2>7, <3>1 DEF DepthAfter, Costs
    <3>3. Len(stack) # 2 /\ Len(stack') = 1 + Depth' /\ fds' = 0 .. 3 + Used'
      BY <1>2, <1>3, <2>2, <2>4, <3>1, <3>2
    <3>4. ShellOnTop(Top)'
      BY <2>4, <2>5, <3>3 DEF ShellOnTop
    <3> QED BY <1>5, <2>4, <3>4 DEF Running
  <2> QED BY <2>6, <2>7
<1>10. CASE ~ IsBlank(l) /\ ~ IsExit(l) /\ l.cmd \notin DOMAIN Disk
  <2>1. exec(l.cmd, l.arg, "ran") /\ l.cmd # Config
    BY <1>1, <1>10, ProgramsAssumption
  <2>2. /\ Stacked(stack') /\ Len(stack') = Len(stack) /\ Top'.prog = "sh" /\ Top'.pc = "ran"
        /\ Top'.res = -1 /\ fds' = fds
    BY <1>2, <1>10, <2>1, ExecFails
  <2>3. Depth' = Depth /\ Used' = Used
    BY <1>3, <1>4, <1>10 DEF DepthAfter, Costs, Runs
  <2>4. ShellOnTop(Top)'
    <3>1. Top'.res < 0
      BY <2>2
    <3> QED BY <1>2, <1>4, <1>6, <1>10, <2>2, <2>3, <3>1 DEF ShellOnTop
  <2> QED BY <1>5, <2>2, <2>4 DEF Running
<1>11. CASE Runs(l)
  <2>1. /\ ~ IsBlank(l) /\ ~ IsExit(l) /\ l.cmd \in DOMAIN Disk /\ Disk[l.cmd].prog \in Runnable
        /\ (Disk[l.cmd].prog = "sh" => Outcome(l) = << >>)
    BY <1>11, RunOutcome DEF Runs
  <2>2. exec(l.cmd, l.arg, "ran") /\ l.arg \in Argvs
    BY <1>1, <2>1 DEF Argvs
  <2>3. fds # Fds /\ fds \cup {LowestFree} = 0 .. 4 + Used
    <3>1. 3 + Used \in Nat /\ 3 + Used + 1 < MaxFds /\ 3 + Used + 1 = 4 + Used
      BY <1>3, ProgramsAssumption
    <3>2. fds # Fds /\ fds \cup {LowestFree} = 0 .. 3 + Used + 1
      BY <1>2, <3>1, FdsFacts
    <3> QED BY <3>1, <3>2
  <2>4. Len(stack) # 1
    BY <1>2, <1>3
  <2>5. /\ Stacked(stack') /\ Len(stack') = Len(stack) + 1
        /\ Top'.prog = Disk[l.cmd].prog /\ Top'.pc = "start" /\ Top'.argv = l.arg
        /\ Top'.k = 0 /\ fds' = fds \cup {LowestFree}
    BY <1>2, <2>1, <2>2, <2>3, <2>4, ExecRuns
  <2>6. Used' = Used + 1 /\ fds' = 0 .. 3 + Used'
    <3>1. Used' = Used + 1
      BY <1>4, <1>11 DEF Costs
    <3>2. 3 + Used' = 4 + Used
      BY <1>3, <3>1
    <3> QED BY <2>3, <2>5, <3>1, <3>2
  <2>7. CASE Disk[l.cmd].prog = "sh"
    <3>1. Depth' = Depth + 1 /\ Len(stack') = 1 + Depth'
      BY <1>2, <1>3, <1>4, <1>11, <2>5, <2>7 DEF DepthAfter
    <3>2. Ready'
      BY <1>7, <2>1, <2>7
    <3>3. ShellOnTop(Top)'
      BY <2>5, <2>6, <2>7, <3>1, <3>2 DEF ShellOnTop
    <3> QED BY <1>5, <2>5, <3>3 DEF Running
  <2>8. CASE Disk[l.cmd].prog # "sh"
    <3>1. Depth' = Depth /\ Len(stack') = 2 + Depth'
      <4>1. Depth' = Depth
        BY <1>4, <2>1, <2>8 DEF DepthAfter
      <4> QED BY <1>2, <1>3, <2>5, <4>1
    <3>2. ProgramOnTop(Top)'
      BY <1>4, <1>6, <1>11, <2>1, <2>5, <2>6, <2>8, <3>1 DEF ProgramOnTop
    <3> QED BY <1>5, <2>5, <3>2 DEF Running
  <2> QED BY <2>7, <2>8
<1> QED BY <1>8, <1>9, <1>10, <1>11 DEF Runs

-----------------------------------------------------------------------------
\* The programs.
LEMMA ProgramFacts ==
  ASSUME Running, ProgramOnTop(Top)
  PROVE  /\ LastLine \in Lines /\ Runs(LastLine) /\ typed # << >> /\ typed \in Seq(Lines)
         /\ Disk[LastLine.cmd].prog = Top.prog /\ LastLine.arg = Top.argv
         /\ Len(stack) = 2 + Depth /\ Depth \in Nat \ {0} /\ Used \in Nat /\ Used + 5 < MaxFds
         /\ Top.k \in Nat /\ Top.argv # Config
<1>1. /\ typed \in Seq(Lines) /\ Depth \in Nat \ {0} /\ Used \in Nat /\ Used + 5 < MaxFds
      /\ Top \in Frame
  BY RunningFacts
<1>2. /\ Len(stack) = 2 + Depth /\ typed # << >> /\ Runs(LastLine)
      /\ Disk[LastLine.cmd].prog = Top.prog /\ LastLine.arg = Top.argv
  BY DEF ProgramOnTop
<1>3. LastLine \in Lines
  BY <1>1, <1>2, FrontFacts DEF LastLine
<1>4. Top.k \in Nat
  BY <1>1 DEF Frame
<1>5. Top.argv # Config
  BY <1>2, <1>3, ProgramsAssumption
<1> QED BY <1>1, <1>2, <1>3, <1>4, <1>5

\* With its answer given and its file closed, a program leaves the shell to go on.
LEMMA ProgramExits ==
  ASSUME Running, ProgramOnTop(Top), Same, NEW code \in Nat, exit(code),
         con' = Asked \o Outcome(LastLine), fds' = 0 .. 3 + Used
  PROVE  Running'
<1>1. typed # << >> /\ Len(stack) = 2 + Depth /\ Depth \in Nat \ {0}
  BY ProgramFacts
<1>2. Len(stack) > 1 /\ Len(stack) # 2 /\ code \in Int /\ code >= 0
  BY <1>1
<1>3. /\ Stacked(stack') /\ Len(stack') = Len(stack) - 1 /\ Top'.prog = "sh"
      /\ Top'.pc = "ran" /\ Top'.res = code
  BY <1>2, Exits
<1>4. /\ Depth' = Depth /\ Used' = Used /\ LastLine' = LastLine /\ Asked' = Asked
      /\ typed' = typed
  BY LinesSame DEF Same
<1>5. Ready'
  BY <1>1, <1>4 DEF Ready, Answering
<1>6. Len(stack') = 1 + Depth' /\ fds' = 0 .. 3 + Used' /\ Top'.res >= 0
  BY <1>1, <1>2, <1>3, <1>4
<1>7. ShellOnTop(Top)'
  BY <1>3, <1>5, <1>6 DEF ShellOnTop
<1> QED BY <1>3, <1>7, Stays

\* cat, ls and hexd, when they open what they were given.
LEMMA Opening ==
  ASSUME Running, Same, NEW prog \in {"cat", "ls", "hexd"}, NEW message, NEW code \in Nat,
         OpenArg(prog, message, code),
         \A l \in Lines : Runs(l) /\ Disk[l.cmd].prog = prog /\ l.arg \notin DOMAIN Disk =>
                            Outcome(l) = << Text(message) >>
  PROVE  Running'
<1>1. Top.prog = prog /\ Top.pc = "start" /\ prog \notin {"init", "sh"}
  BY DEF OpenArg, Is
<1>2. ProgramOnTop(Top)
  BY <1>1, OnTop
<1>3. /\ LastLine \in Lines /\ Runs(LastLine) /\ typed # << >> /\ typed \in Seq(Lines)
      /\ Disk[LastLine.cmd].prog = prog /\ LastLine.arg = Top.argv
      /\ Len(stack) = 2 + Depth /\ Used \in Nat /\ Used + 5 < MaxFds /\ Top.argv # Config
  BY <1>1, <1>2, ProgramFacts
<1>4. Answering(<< >>) /\ fds = 0 .. 3 + Used /\ Top.k = 0
  BY <1>1, <1>2 DEF ProgramOnTop
<1>5. /\ fds # Fds /\ LowestFree = 4 + Used /\ fds \cup {LowestFree} = 0 .. 4 + Used
  <2>1. 3 + Used \in Nat /\ 3 + Used + 1 < MaxFds /\ 3 + Used + 1 = 4 + Used
    BY <1>3, ProgramsAssumption
  <2>2. fds # Fds /\ LowestFree = 3 + Used + 1 /\ fds \cup {LowestFree} = 0 .. 3 + Used + 1
    BY <1>4, <2>1, FdsFacts
  <2> QED BY <2>1, <2>2
<1>6. CASE Top.argv \notin DOMAIN Disk
  <2>1. ~ Opens(Top.argv)
    BY <1>3, <1>6 DEF Opens
  <2>2. exit(code) /\ con' = con \o << Text(message) >> /\ fds' = fds
    <3>1. open(Top.argv) = -1 /\ -1 < 0
      BY <2>1 DEF open
    <3> QED BY <2>1, <3>1 DEF OpenArg, Opened, Says
  <2>3. Outcome(LastLine) = << Text(message) >>
    BY <1>3, <1>6
  <2> DEFINE b == << Text(message) >>
  <2>4. Sequence(b) /\ Sequence(<< >>)
    BY Tuples, Nothing
  <2> HIDE DEF b
  <2>5. con \o b = Asked \o (<< >> \o b) /\ << >> \o b = b
    BY <1>3, <1>4, <2>4, AnswerMore, Concats
  <2>6. con' = Asked \o Outcome(LastLine)
    BY <2>2, <2>3, <2>5 DEF b
  <2> QED BY <1>2, <1>4, <2>2, <2>6, ProgramExits
<1>7. CASE Top.argv \in DOMAIN Disk
  <2>1. Opens(Top.argv)
    BY <1>5, <1>7 DEF Opens
  <2>2. /\ With("loop", 4 + Used, 0) /\ con' = con /\ fds' = 0 .. 4 + Used
        /\ "loop" \in Points /\ 4 + Used \in Int /\ 0 \in Nat
    <3>1. open(Top.argv) = 4 + Used /\ ~ open(Top.argv) < 0
      BY <1>3, <1>5, <2>1 DEF open
    <3>2. With("loop", 4 + Used, 0) /\ con' = con
      BY <3>1 DEF OpenArg
    <3>3. fds' = 0 .. 4 + Used
      BY <1>5, <2>1 DEF OpenArg, Opened
    <3>4. "loop" \in Points /\ 4 + Used \in Int /\ 0 \in Nat
      BY <1>3 DEF Points
    <3> QED BY <3>2, <3>3, <3>4
  <2>3. /\ Stacked(stack') /\ Len(stack') = Len(stack)
        /\ Top'.prog = prog /\ Top'.pc = "loop" /\ Top'.argv = Top.argv
        /\ Top'.fd = 4 + Used /\ Top'.k = 0
    BY <1>1, <2>2, MovesWith
  <2>4. Depth' = Depth /\ Used' = Used /\ LastLine' = LastLine /\ Asked' = Asked /\ typed' = typed
    BY LinesSame DEF Same
  <2>5. Done(Top)' = << >>
    <3>1. CASE prog = "cat"
      BY <2>3, <3>1, CattedMore DEF Done
    <3>2. CASE prog = "ls"
      BY <2>3, <3>2, ListedMore DEF Done
    <3>3. CASE prog = "hexd"
      BY <2>3, <3>3, RowsStart DEF Done
    <3> QED BY <3>1, <3>2, <3>3
  <2>6. Answering(Done(Top))'
    BY <1>4, <2>2, <2>4, <2>5 DEF Answering
  <2>7. InRange(Top)'
    <3>1. LengthOf(Top.argv) \in Nat /\ Len(NamesOf(Top.argv)) \in Nat
      BY <1>7, PathFacts
    <3>2. 0 <= LengthOf(Top.argv) /\ 0 <= Len(NamesOf(Top.argv)) /\ 0 = Row * 0
      BY <3>1, ProgramsAssumption
    <3>3. CASE prog = "cat"
      BY <2>3, <3>2, <3>3 DEF InRange
    <3>4. CASE prog = "ls"
      BY <2>3, <3>2, <3>4 DEF InRange
    <3>5. CASE prog = "hexd"
      BY <2>3, <3>2, <3>5 DEF InRange
    <3> QED BY <3>3, <3>4, <3>5
  <2>8. ProgramOnTop(Top)'
    <3>1. /\ Top'.prog \in Runnable \ {"sh"} /\ Len(stack') = 2 + Depth'
          /\ typed' # << >> /\ Runs(LastLine') /\ Disk[LastLine'.cmd].prog = Top'.prog
          /\ LastLine'.arg = Top'.argv
      BY <1>3, <2>3, <2>4 DEF Runnable
    <3>2. Top'.pc = "loop" /\ Top'.argv \in DOMAIN Disk /\ Top'.fd = 4 + Used' /\ fds' = 0 .. 4 + Used'
      BY <1>7, <2>2, <2>3, <2>4
    <3> QED BY <2>6, <2>7, <3>1, <3>2 DEF ProgramOnTop
  <2> QED BY <2>3, <2>8, Stays
<1> QED BY <1>6, <1>7

LEMMA CatStart == ASSUME Running, OpenArg("cat", "no such file", 1), Same PROVE Running'
<1>1. \A l \in Lines : Runs(l) /\ Disk[l.cmd].prog = "cat" /\ l.arg \notin DOMAIN Disk =>
                         Outcome(l) = << Text("no such file") >>
  BY RunOutcome
<1> QED BY <1>1, Opening

LEMMA LsStart == ASSUME Running, OpenArg("ls", "no such directory", 0), Same PROVE Running'
<1>1. \A l \in Lines : Runs(l) /\ Disk[l.cmd].prog = "ls" /\ l.arg \notin DOMAIN Disk =>
                         Outcome(l) = << Text("no such directory") >>
  BY RunOutcome
<1> QED BY <1>1, Opening

LEMMA HexdStart == ASSUME Running, OpenArg("hexd", "can't open file", 1), Same PROVE Running'
<1>1. \A l \in Lines : Runs(l) /\ Disk[l.cmd].prog = "hexd" /\ l.arg \notin DOMAIN Disk =>
                         Outcome(l) = << Text("can't open file") >>
  BY RunOutcome
<1> QED BY <1>1, Opening

\* The loops of cat, ls and hexd.
InLoop == Running /\ Top.prog \in {"cat", "ls", "hexd"} /\ Top.pc = "loop"

LEMMA LoopFacts ==
  ASSUME InLoop
  PROVE  /\ ProgramOnTop(Top) /\ Top.argv \in DOMAIN Disk /\ InRange(Top) /\ Answering(Done(Top))
         /\ Top.fd = 4 + Used /\ fds = 0 .. 4 + Used /\ Top.k \in Nat /\ Used \in Nat
<1>1. ProgramOnTop(Top)
  BY OnTop DEF InLoop
<1>2. Top.k \in Nat /\ Used \in Nat
  BY <1>1, ProgramFacts DEF InLoop
<1> QED BY <1>1, <1>2 DEF InLoop, ProgramOnTop

LEMMA LoopEnds ==
  ASSUME InLoop, Same, CloseAndExit, con' = Asked \o Outcome(LastLine)
  PROVE  Running'
<1>1. /\ ProgramOnTop(Top) /\ Top.fd = 4 + Used /\ fds = 0 .. 4 + Used /\ Used \in Nat
      /\ Used + 5 < MaxFds
  BY LoopFacts, ProgramFacts DEF InLoop
<1>2. exit(0) /\ 0 \in Nat /\ fds' = fds \ {Top.fd}
  BY DEF CloseAndExit, close
<1>3. (0 .. 4 + Used) \ {4 + Used} = 0 .. 3 + Used
  BY <1>1
<1> QED BY <1>1, <1>2, <1>3, ProgramExits DEF InLoop

LEMMA LoopGoesOn ==
  ASSUME InLoop, Same, NEW k \in Nat, With("loop", Top.fd, k), fds' = fds,
         InRange([Top EXCEPT !.k = k]), con' = Asked \o Done([Top EXCEPT !.k = k])
  PROVE  Running'
<1>1. ProgramOnTop(Top) /\ Top.fd = 4 + Used /\ fds = 0 .. 4 + Used /\ Used \in Nat
      /\ Top.argv \in DOMAIN Disk
  BY LoopFacts
<1>2. "loop" \in Points /\ Top.fd \in Int
  BY <1>1 DEF Points
<1>3. /\ Stacked(stack') /\ Len(stack') = Len(stack)
      /\ Top'.prog = Top.prog /\ Top'.pc = "loop" /\ Top'.argv = Top.argv
      /\ Top'.fd = Top.fd /\ Top'.k = k
  BY <1>2, MovesWith DEF InLoop
<1>4. Depth' = Depth /\ Used' = Used /\ LastLine' = LastLine /\ Asked' = Asked /\ typed' = typed
  BY LinesSame DEF Same
<1>5. /\ Runs(LastLine) /\ typed # << >> /\ Disk[LastLine.cmd].prog = Top.prog
      /\ LastLine.arg = Top.argv /\ Len(stack) = 2 + Depth
  BY <1>1, ProgramFacts DEF InLoop
<1> DEFINE f == [Top EXCEPT !.k = k]
<1>6. f.prog = Top.prog /\ f.argv = Top.argv /\ f.k = k
  <2>1. Top \in Frame
    BY RunningFacts DEF InLoop
  <2> QED BY <2>1 DEF Frame
<1> HIDE DEF f
<1>7. InRange(Top)'
  BY <1>3, <1>6 DEF InRange, f
<1>8. Done(Top)' = Done(f)
  BY <1>3, <1>6 DEF Done
<1>9. Answering(Done(Top))'
  BY <1>4, <1>5, <1>8 DEF Answering, f
<1>10. ProgramOnTop(Top)'
  <2>1. /\ Top'.prog \in Runnable \ {"sh"} /\ Len(stack') = 2 + Depth'
        /\ typed' # << >> /\ Runs(LastLine') /\ Disk[LastLine'.cmd].prog = Top'.prog
        /\ LastLine'.arg = Top'.argv
    BY <1>3, <1>4, <1>5 DEF Runnable, InLoop
  <2>2. Top'.pc = "loop" /\ Top'.argv \in DOMAIN Disk /\ Top'.fd = 4 + Used' /\ fds' = 0 .. 4 + Used'
    BY <1>1, <1>3, <1>4
  <2> QED BY <1>7, <1>9, <2>1, <2>2 DEF ProgramOnTop
<1> QED BY <1>3, <1>10, Stays DEF InLoop

LEMMA ReadFacts ==
  ASSUME InLoop, Top.k <= LengthOf(Top.argv)
  PROVE  LET nb == Read(Top)
         IN  /\ nb \in Nat /\ Top.k + nb <= LengthOf(Top.argv)
             /\ (nb # BufSz => Top.k + nb = LengthOf(Top.argv))
<1> DEFINE p == Top.argv
           nb == Read(Top)
<1>1. p \in DOMAIN Disk /\ Top.k \in Nat /\ BufSz \in Nat \ {0}
  BY LoopFacts, ProgramsAssumption
<1>2. LengthOf(p) \in Nat /\ (Disk[p].t = "dir" => LengthOf(p) = 0)
  BY <1>1, PathFacts
<1>3. CASE Disk[p].t = "dir"
  <2>1. nb = 0 /\ LengthOf(p) = 0
    BY <1>2, <1>3 DEF Read
  <2> QED BY <1>1, <2>1
<1>4. CASE Disk[p].t # "dir"
  <2>1. /\ LengthOf(p) = Disk[p].len
        /\ nb = IF LengthOf(p) - Top.k < BufSz THEN LengthOf(p) - Top.k ELSE BufSz
    BY <1>4 DEF Read, LengthOf
  <2> HIDE DEF nb, p
  <2>2. nb \in Nat /\ Top.k + nb <= LengthOf(p) /\ (nb # BufSz => Top.k + nb = LengthOf(p))
    BY <1>1, <1>2, <2>1 DEF p
  <2> QED BY <2>2 DEF nb, p
<1> QED BY <1>3, <1>4

LEMMA CatLoop == ASSUME Running, cat_loop, Same PROVE Running'
<1> DEFINE nb == Read(Top)
           p == Top.argv
           b == [j \in 1 .. nb |-> << "byte", p, Top.k + j - 1 >>]
<1>1. Top.prog = "cat" /\ Top.pc = "loop" /\ InLoop
  BY DEF cat_loop, Is, InLoop
<1>2. /\ Top \in Frame /\ Top.k \in Nat /\ p \in DOMAIN Disk /\ typed \in Seq(Lines)
      /\ Answering(Done(Top)) /\ InRange(Top) /\ ProgramOnTop(Top)
  BY <1>1, LoopFacts, RunningFacts
<1>3. Done(Top) = Catted(p, Top.k) /\ Top.k <= LengthOf(p)
  BY <1>1, <1>2 DEF Done, InRange
<1>4. /\ nb \in Nat /\ Top.k + nb <= LengthOf(p)
      /\ (nb # BufSz => Top.k + nb = LengthOf(p))
  BY <1>1, <1>3, ReadFacts
<1>5. con' = con \o b
  BY DEF cat_loop, Says, Bytes
<1> HIDE DEF nb
<1>6. /\ Catted(p, Top.k) \o b = Catted(p, Top.k + nb)
      /\ Sequence(Catted(p, Top.k)) /\ Sequence(b)
  <2> HIDE DEF p
  <2> QED BY <1>2, <1>4, CattedMore
<1> HIDE DEF b
<1>7. con' = Asked \o Catted(p, Top.k + nb)
  <2>1. Answering(Catted(p, Top.k))
    BY <1>2, <1>3
  <2>2. con \o b = Asked \o (Catted(p, Top.k) \o b)
    BY <1>2, <1>6, <2>1, AnswerMore
  <2> QED BY <1>5, <1>6, <2>2
<1>8. CASE nb = BufSz
  <2>1. With("loop", Top.fd, Top.k + nb) /\ fds' = fds
    BY <1>8 DEF cat_loop, FullRead, nb
  <2> DEFINE f == [Top EXCEPT !.k = Top.k + nb]
  <2>2. f.prog = "cat" /\ f.argv = p /\ f.k = Top.k + nb
    BY <1>1, <1>2 DEF Frame
  <2> HIDE DEF f
  <2>3. InRange(f) /\ con' = Asked \o Done(f)
    BY <1>4, <1>7, <2>2 DEF InRange, Done
  <2>4. Top.k + nb \in Nat
    BY <1>2, <1>4
  <2> QED BY <1>1, <2>1, <2>3, <2>4, LoopGoesOn DEF f
<1>9. CASE nb # BufSz
  <2>1. CloseAndExit
    BY <1>9 DEF cat_loop, FullRead, nb
  <2>2. Outcome(LastLine) = Catted(p, LengthOf(p))
    <3>1. /\ LastLine \in Lines /\ Runs(LastLine) /\ Disk[LastLine.cmd].prog = "cat"
          /\ LastLine.arg = p
      BY <1>1, <1>2, ProgramFacts
    <3> QED BY <1>2, <3>1, RunOutcome
  <2>3. con' = Asked \o Outcome(LastLine)
    BY <1>4, <1>7, <1>9, <2>2
  <2> QED BY <1>1, <2>1, <2>3, LoopEnds
<1> QED BY <1>8, <1>9

LEMMA LsLoop == ASSUME Running, ls_loop, Same PROVE Running'
<1> DEFINE p == Top.argv
           names == NamesOf(p)
           b == << << "name", names[Top.k + 1] >>, Text("newline") >>
<1>1. Top.prog = "ls" /\ Top.pc = "loop" /\ InLoop
  BY DEF ls_loop, Is, InLoop
<1>2. /\ Top \in Frame /\ Top.k \in Nat /\ p \in DOMAIN Disk /\ typed \in Seq(Lines)
      /\ Answering(Done(Top)) /\ InRange(Top) /\ ProgramOnTop(Top)
  BY <1>1, LoopFacts, RunningFacts
<1>3. Done(Top) = Listed(names, Top.k) /\ Top.k <= Len(names) /\ Len(names) \in Nat
  BY <1>1, <1>2, PathFacts DEF Done, InRange
<1>4. IF Top.k < Len(names)
      THEN con' = con \o b /\ With("loop", Top.fd, Top.k + 1) /\ fds' = fds
      ELSE CloseAndExit /\ con' = con
  BY DEF ls_loop, NamesOf, Says
<1> HIDE DEF names
<1>5. CASE Top.k < Len(names)
  <2>1. /\ Listed(names, Top.k + 1) = Listed(names, Top.k) \o b
        /\ Sequence(Listed(names, Top.k)) /\ Sequence(b)
    BY <1>2, ListedMore, Tuples
  <2> HIDE DEF b
  <2>2. con' = Asked \o Listed(names, Top.k + 1)
    <3>1. Answering(Listed(names, Top.k))
      BY <1>2, <1>3
    <3>2. con \o b = Asked \o (Listed(names, Top.k) \o b)
      BY <1>2, <2>1, <3>1, AnswerMore
    <3> QED BY <1>4, <1>5, <2>1, <3>2
  <2> DEFINE f == [Top EXCEPT !.k = Top.k + 1]
  <2>3. f.prog = "ls" /\ f.argv = p /\ f.k = Top.k + 1
    BY <1>1, <1>2 DEF Frame
  <2> HIDE DEF f
  <2>4. InRange(f) /\ con' = Asked \o Done(f)
    <3>1. Top.k + 1 <= Len(names)
      BY <1>2, <1>3, <1>5
    <3> QED BY <2>2, <2>3, <3>1 DEF InRange, Done, names
  <2>5. Top.k + 1 \in Nat
    BY <1>2
  <2> QED BY <1>1, <1>4, <1>5, <2>4, <2>5, LoopGoesOn DEF f
<1>6. CASE ~ Top.k < Len(names)
  <2>1. CloseAndExit /\ con' = con /\ Top.k = Len(names)
    BY <1>2, <1>3, <1>4, <1>6
  <2>2. Outcome(LastLine) = Listed(names, Len(names))
    <3>1. /\ LastLine \in Lines /\ Runs(LastLine) /\ Disk[LastLine.cmd].prog = "ls"
          /\ LastLine.arg = p
      BY <1>1, <1>2, ProgramFacts
    <3> QED BY <1>2, <3>1, RunOutcome DEF names
  <2>3. con' = Asked \o Outcome(LastLine)
    BY <1>2, <1>3, <2>1, <2>2 DEF Answering
  <2> QED BY <1>1, <2>1, <2>3, LoopEnds
<1> QED BY <1>5, <1>6

LEMMA HexdLoop == ASSUME Running, hexd_loop, Same PROVE Running'
<1> DEFINE nb == Read(Top)
           p == Top.argv
           b == Rows(Top, nb)
<1>1. Top.prog = "hexd" /\ Top.pc = "loop" /\ InLoop
  BY DEF hexd_loop, Is, InLoop
<1>2. /\ Top \in Frame /\ Top.k \in Nat /\ p \in DOMAIN Disk /\ typed \in Seq(Lines)
      /\ Answering(Done(Top)) /\ InRange(Top) /\ ProgramOnTop(Top)
  BY <1>1, LoopFacts, RunningFacts
<1>3. /\ Done(Top) = RowsOf(p, Top.k) /\ Top.k <= LengthOf(p)
      /\ \E m \in Nat : Top.k = Row * m
  BY <1>1, <1>2 DEF Done, InRange
<1>4. /\ nb \in Nat /\ Top.k + nb <= LengthOf(p)
      /\ (nb # BufSz => Top.k + nb = LengthOf(p))
  BY <1>1, <1>3, ReadFacts
<1>5. con' = con \o b
  BY DEF hexd_loop, Says
<1> HIDE DEF nb
<1>6. PICK m \in Nat : Top.k = Row * m
  BY <1>3
<1>7. /\ RowsOf(p, Top.k) \o b = RowsOf(p, Top.k + nb)
      /\ Sequence(RowsOf(p, Top.k)) /\ Sequence(b)
  BY <1>4, <1>6, RowsMore
<1> HIDE DEF b
<1>8. con' = Asked \o RowsOf(p, Top.k + nb)
  <2>1. Answering(RowsOf(p, Top.k))
    BY <1>2, <1>3
  <2>2. con \o b = Asked \o (RowsOf(p, Top.k) \o b)
    BY <1>2, <1>7, <2>1, AnswerMore
  <2> QED BY <1>5, <1>7, <2>2
<1>9. CASE nb = BufSz
  <2>1. With("loop", Top.fd, Top.k + nb) /\ fds' = fds
    BY <1>9 DEF hexd_loop, FullRead, nb
  <2> DEFINE f == [Top EXCEPT !.k = Top.k + nb]
  <2>2. f.prog = "hexd" /\ f.argv = p /\ f.k = Top.k + nb
    BY <1>1, <1>2 DEF Frame
  <2> HIDE DEF f
  <2>3. \E i \in Nat : Top.k + nb = Row * i
    <3>1. /\ BufSz \div Row \in Nat /\ BufSz % Row = 0
          /\ BufSz = Row * (BufSz \div Row) + (BufSz % Row)
      BY ProgramsAssumption, DivMod
    <3>2. PICK q \in Nat : BufSz = Row * q
      <4> DEFINE q == BufSz \div Row
      <4>1. q \in Nat /\ BufSz = Row * q + 0
        BY <3>1
      <4> HIDE DEF q
      <4>2. Row * q + 0 = Row * q
        BY <4>1, ProgramsAssumption
      <4> QED BY <4>1, <4>2
    <3>3. Top.k + nb = Row * (m + q) /\ m + q \in Nat
      BY <1>6, <1>9, <3>2, ProgramsAssumption
    <3> QED BY <3>3
  <2>4. InRange(f) /\ con' = Asked \o Done(f)
    <3>1. \E i \in Nat : f.k = Row * i
      BY <2>2, <2>3
    <3>2. InRange(f)
      BY <1>4, <2>2, <3>1 DEF InRange
    <3> QED BY <1>8, <2>2, <3>2 DEF Done
  <2>5. Top.k + nb \in Nat
    BY <1>2, <1>4
  <2> QED BY <1>1, <2>1, <2>4, <2>5, LoopGoesOn DEF f
<1>10. CASE nb # BufSz
  <2>1. CloseAndExit
    BY <1>10 DEF hexd_loop, FullRead, nb
  <2>2. Outcome(LastLine) = RowsOf(p, LengthOf(p))
    <3>1. /\ LastLine \in Lines /\ Runs(LastLine) /\ Disk[LastLine.cmd].prog = "hexd"
          /\ LastLine.arg = p
      BY <1>1, <1>2, ProgramFacts
    <3> QED BY <1>2, <3>1, RunOutcome
  <2>3. con' = Asked \o Outcome(LastLine)
    BY <1>4, <1>8, <1>10, <2>2
  <2> QED BY <1>1, <2>1, <2>3, LoopEnds
<1> QED BY <1>9, <1>10

\* echo and gfxtest open nothing.
LEMMA EchoMain == ASSUME Running, echo_main, Same PROVE Running'
<1> DEFINE b == << << "path", Top.argv >>, Text("newline") >>
<1>1. Top.prog = "echo" /\ Top.pc = "start" /\ Top.prog \notin {"init", "sh"}
  BY DEF echo_main, Is
<1>2. ProgramOnTop(Top)
  BY <1>1, OnTop
<1>3. Answering(<< >>) /\ fds = 0 .. 3 + Used
  BY <1>1, <1>2 DEF ProgramOnTop
<1>4. con' = con \o b /\ exit(0) /\ fds' = fds
  BY DEF echo_main, Says
<1>5. Outcome(LastLine) = b /\ typed \in Seq(Lines)
  <2>1. /\ LastLine \in Lines /\ Runs(LastLine) /\ Disk[LastLine.cmd].prog = "echo"
        /\ LastLine.arg = Top.argv /\ typed \in Seq(Lines)
    BY <1>1, <1>2, ProgramFacts
  <2> QED BY <2>1, RunOutcome
<1>6. Sequence(b) /\ Sequence(<< >>)
  BY Tuples, Nothing
<1> HIDE DEF b
<1>7. con \o b = Asked \o (<< >> \o b) /\ << >> \o b = b
  BY <1>3, <1>5, <1>6, AnswerMore, Concats
<1>8. con' = Asked \o Outcome(LastLine) /\ 0 \in Nat
  BY <1>4, <1>5, <1>7
<1> QED BY <1>2, <1>3, <1>4, <1>8, ProgramExits

LEMMA GfxFacts ==
  ASSUME Running, Top.prog = "gfxtest"
  PROVE  /\ ProgramOnTop(Top) /\ typed \in Seq(Lines) /\ typed # << >> /\ Top.k \in Nat
         /\ Runs(LastLine) /\ Disk[LastLine.cmd].prog = "gfxtest" /\ LastLine.arg = Top.argv
         /\ Len(stack) = 2 + Depth /\ Outcome(LastLine) = Drawn(Pixels)
         /\ fds = 0 .. 3 + Used /\ Done(Top) = Drawn(Top.k)
         /\ Top.pc = "start" => Answering(Drawn(Top.k)) /\ Top.k = 0
         /\ Top.pc \in {"draw", "key"} => Answering(Drawn(Top.k)) /\ Top.k <= Pixels
         /\ Top.pc = "key" => Top.k = Pixels
<1>1. ProgramOnTop(Top)
  BY OnTop
<1>2. /\ LastLine \in Lines /\ Runs(LastLine) /\ typed # << >> /\ typed \in Seq(Lines)
      /\ Disk[LastLine.cmd].prog = "gfxtest" /\ LastLine.arg = Top.argv
      /\ Len(stack) = 2 + Depth /\ Top.k \in Nat
  BY <1>1, ProgramFacts
<1>3. Outcome(LastLine) = Drawn(Pixels)
  BY <1>2, RunOutcome
<1>4. Done(Top) = Drawn(Top.k)
  BY DEF Done
<1>5. ~ InRange(Top)
  BY DEF InRange
<1>6. /\ fds = 0 .. 3 + Used
      /\ Top.pc = "start" => Answering(<< >>) /\ Top.k = 0
      /\ Top.pc \in {"draw", "key"} => Answering(Done(Top)) /\ Top.k <= Pixels
      /\ Top.pc = "key" => Top.k = Pixels
  BY <1>1, <1>5 DEF ProgramOnTop
<1>7. Drawn(0) = << >>
  BY DrawnMore
<1> QED BY <1>1, <1>2, <1>3, <1>4, <1>6, <1>7

\* gfxtest at p, having drawn k pixels.
LEMMA GfxAt ==
  ASSUME Running, Same, Top.prog = "gfxtest", NEW p \in {"draw", "key"}, NEW k \in Nat,
         k <= Pixels, p = "key" => k = Pixels, Stacked(stack'), Len(stack') = Len(stack),
         Top'.prog = "gfxtest", Top'.pc = p, Top'.argv = Top.argv, Top'.k = k,
         con' = Asked \o Drawn(k), fds' = fds
  PROVE  Running'
<1>1. /\ typed # << >> /\ Runs(LastLine) /\ Disk[LastLine.cmd].prog = "gfxtest"
      /\ LastLine.arg = Top.argv /\ Len(stack) = 2 + Depth /\ fds = 0 .. 3 + Used
  BY GfxFacts
<1>2. Depth' = Depth /\ Used' = Used /\ LastLine' = LastLine /\ Asked' = Asked /\ typed' = typed
  BY LinesSame DEF Same
<1>3. Done(Top)' = Drawn(k)
  BY DEF Done
<1>4. Answering(Done(Top))'
  BY <1>1, <1>2, <1>3 DEF Answering
<1>5. ProgramOnTop(Top)'
  <2>1. /\ Top'.prog \in Runnable \ {"sh"} /\ Len(stack') = 2 + Depth'
        /\ typed' # << >> /\ Runs(LastLine') /\ Disk[LastLine'.cmd].prog = Top'.prog
        /\ LastLine'.arg = Top'.argv
    BY <1>1, <1>2 DEF Runnable
  <2>2. /\ Top'.pc \in {"draw", "key"} /\ Top'.prog = "gfxtest" /\ Top'.k <= Pixels
        /\ (Top'.pc = "key" => Top'.k = Pixels) /\ fds' = 0 .. 3 + Used'
    BY <1>1, <1>2
  <2> QED BY <1>4, <2>1, <2>2 DEF ProgramOnTop
<1> QED BY <1>5, Stays

LEMMA GfxStart ==
  ASSUME Running, gfxtest_start(drivers), drivers = << "KBD", "VIDEO" >>, Same
  PROVE  Running'
<1>1. Top.prog = "gfxtest" /\ Top.pc = "start"
  BY DEF gfxtest_start, Is
<1>2. Has(drivers, "KBD") /\ Has(drivers, "VIDEO")
  <2>1. Len(drivers) = 2 /\ drivers[1] = "KBD" /\ drivers[2] = "VIDEO"
    OBVIOUS
  <2>2. 1 \in 1 .. Len(drivers) /\ 2 \in 1 .. Len(drivers)
    BY <2>1
  <2> QED BY <2>1, <2>2 DEF Has
<1>3. At("draw") /\ con' = con /\ fds' = fds /\ "draw" \in Points
  BY <1>2 DEF gfxtest_start, Points
<1>4. con = Asked \o Drawn(0) /\ Top.k = 0 /\ Pixels \in Nat
  BY <1>1, GfxFacts, ProgramsAssumption DEF Answering
<1>5. /\ Stacked(stack') /\ Len(stack') = Len(stack) /\ Top'.prog = "gfxtest" /\ Top'.pc = "draw"
      /\ Top'.argv = Top.argv /\ Top'.k = 0
  BY <1>1, <1>3, <1>4, Moves
<1>6. 0 \in Nat /\ 0 <= Pixels /\ "draw" \in {"draw", "key"} /\ ("draw" = "key" => 0 = Pixels)
  BY <1>4
<1> QED BY <1>1, <1>3, <1>4, <1>5, <1>6, GfxAt

LEMMA GfxDraw == ASSUME Running, gfxtest_draw, Same PROVE Running'
<1>1. Top.prog = "gfxtest" /\ Top.pc = "draw"
  BY DEF gfxtest_draw, Is
<1>2. /\ Top.k \in Nat /\ Top.k <= Pixels /\ Answering(Drawn(Top.k)) /\ typed \in Seq(Lines)
      /\ Pixels \in Nat
  BY <1>1, GfxFacts, ProgramsAssumption
<1>3. CASE Top.k < Pixels
  <2> DEFINE b == << << "pixel", Top.k >> >>
  <2>1. /\ With("draw", -1, Top.k + 1) /\ con' = con \o b /\ fds' = fds /\ "draw" \in Points
        /\ -1 \in Int /\ Top.k + 1 \in Nat /\ Top.k + 1 <= Pixels
    <3>1. With("draw", -1, Top.k + 1) /\ con' = con \o b /\ fds' = fds
      BY <1>3, Zenon DEF gfxtest_draw, Says
    <3>2. "draw" \in Points
      BY DEF Points
    <3>3. -1 \in Int /\ Top.k + 1 \in Nat /\ Top.k + 1 <= Pixels
      BY <1>2, <1>3
    <3> QED BY <3>1, <3>2, <3>3
  <2>2. /\ Drawn(Top.k) \o b = Drawn(Top.k + 1)
        /\ Sequence(Drawn(Top.k)) /\ Sequence(b)
    BY <1>2, DrawnMore, Tuples
  <2> HIDE DEF b
  <2>3. con' = Asked \o Drawn(Top.k + 1)
    <3>1. con \o b = Asked \o (Drawn(Top.k) \o b)
      BY <1>2, <2>2, AnswerMore
    <3> QED BY <2>1, <2>2, <3>1
  <2>4. /\ Stacked(stack') /\ Len(stack') = Len(stack) /\ Top'.prog = "gfxtest" /\ Top'.pc = "draw"
        /\ Top'.argv = Top.argv /\ Top'.k = Top.k + 1
    BY <1>1, <2>1, MovesWith
  <2>5. "draw" \in {"draw", "key"} /\ ("draw" = "key" => Top.k + 1 = Pixels)
    OBVIOUS
  <2> QED BY <1>1, <2>1, <2>3, <2>4, <2>5, GfxAt
<1>4. CASE ~ Top.k < Pixels
  <2>1. At("key") /\ con' = con /\ fds' = fds /\ "key" \in Points /\ Top.k = Pixels
    BY <1>2, <1>4 DEF gfxtest_draw, Points
  <2>2. con' = Asked \o Drawn(Top.k)
    BY <1>2, <2>1 DEF Answering
  <2>3. /\ Stacked(stack') /\ Len(stack') = Len(stack) /\ Top'.prog = "gfxtest" /\ Top'.pc = "key"
        /\ Top'.argv = Top.argv /\ Top'.k = Top.k
    BY <1>1, <2>1, Moves
  <2>4. "key" \in {"draw", "key"} /\ ("key" = "key" => Top.k = Pixels)
    BY <2>1
  <2> QED BY <1>1, <1>2, <2>1, <2>2, <2>3, <2>4, GfxAt
<1> QED BY <1>3, <1>4

LEMMA GfxKey == ASSUME Running, gfxtest_key, Same PROVE Running'
<1>1. Top.prog = "gfxtest" /\ Top.pc = "key" /\ exit(0) /\ con' = con /\ fds' = fds
  BY DEF gfxtest_key, Is
<1>2. /\ ProgramOnTop(Top) /\ fds = 0 .. 3 + Used /\ Top.k = Pixels
      /\ Answering(Drawn(Top.k)) /\ Outcome(LastLine) = Drawn(Pixels)
  BY <1>1, GfxFacts
<1>3. con' = Asked \o Outcome(LastLine) /\ 0 \in Nat
  BY <1>1, <1>2 DEF Answering
<1> QED BY <1>1, <1>2, <1>3, ProgramExits

-----------------------------------------------------------------------------
\* The boot leaves the programs alone until it jumps to init.
LEMMA SysStart == SysInit => SysIInv
BY DEF SysInit, BootInit, ProgInit, SysIInv

LEMMA JumpRuns ==
  ASSUME BootIInv, SysIInv, at # "running", Jump(machine.shell)
  PROVE  Running'
<1>1. fds = Std /\ con = << >> /\ typed = << >> /\ machine.shell \in Shells
  BY DEF SysIInv, BootIInv, Machines
<1> DEFINE f == Prog("init", NULL)
<1>2. f \in Frame /\ f.prog = "init" /\ f.pc = "start" /\ f.res = 0
  BY DEF Prog, Frame, Argvs, Points
<1>3. stack' = << f >> /\ shell' = machine.shell /\ fds' = fds /\ con' = con /\ typed' = typed
  BY DEF Jump
<1> HIDE DEF f
<1>4. /\ stack' \in Seq(Frame) /\ stack' # << >> /\ Len(stack') = 1 /\ stack'[1] = f
  BY <1>2, <1>3
<1>5. Stacked(stack')
  BY <1>2, <1>4 DEF Stacked
<1>6. InitOnTop(Top)'
  BY <1>1, <1>2, <1>3, <1>4 DEF InitOnTop, Top
<1>7. typed' \in Seq(Lines) /\ Len(typed') <= MaxLines
  BY <1>1, <1>3, ProgramsAssumption
<1> QED BY <1>1, <1>3, <1>5, <1>6, <1>7 DEF Running

LEMMA BootingKeeps ==
  ASSUME BootIInv, SysIInv, Booting
  PROVE  SysIInv'
<1>1. at # "running"
  BY DEF Booting, kmain, isr_install, heap_init, vga_init, ktextinit, paging_enable, ata_init,
         fs_init, kfdinit, dev_init_root, fat_check_sig, find_kernel, process_alloc, load_init,
         driver_init, process_jump, Call
<1>2. stack = << >> /\ fds = Std /\ con = << >> /\ typed = << >>
  BY <1>1 DEF SysIInv
<1>3. drivers' = IF at' \in {"process_jump", "running"} THEN << "KBD", "VIDEO" >> ELSE << >>
  <2>1. CASE driver_init
    <3>1. drivers = << >>
      BY <2>1 DEF driver_init, Call, SysIInv
    <3>2. << >> \o << "KBD", "VIDEO" >> = << "KBD", "VIDEO" >>
      BY Tuples, Concats
    <3> QED BY <2>1, <3>1, <3>2 DEF driver_init, Call
  <2>2. CASE process_jump
    BY <2>2 DEF process_jump, Call, Keeps, SysIInv
  <2>3. CASE ~ driver_init /\ ~ process_jump
    BY <2>3 DEF Booting, kmain, isr_install, heap_init, vga_init, ktextinit, paging_enable, ata_init,
         fs_init, kfdinit, dev_init_root, fat_check_sig, find_kernel, process_alloc, load_init,
         Call, Keeps, SysIInv
  <2> QED BY <2>1, <2>2, <2>3
<1>4. CASE at' = "running"
  <2>1. Jump(machine.shell)
    BY <1>4 DEF Booting
  <2>2. Running'
    BY <1>1, <2>1, JumpRuns
  <2> QED BY <1>3, <1>4, <2>2 DEF SysIInv
<1>5. CASE at' # "running"
  <2>1. UNCHANGED progVars
    BY <1>5 DEF Booting
  <2> QED BY <1>2, <1>3, <1>5, <2>1 DEF SysIInv, progVars
<1> QED BY <1>4, <1>5

LEMMA ProgramsKeep ==
  ASSUME Running, drivers = << "KBD", "VIDEO" >>, Program(drivers) \/ User
  PROVE  Running'
<1>1. CASE Program(drivers)
  BY <1>1, InitStart, InitExec, InitRan, ShellPrompt, ShellRan, CatStart, CatLoop, LsStart, LsLoop,
     EchoMain, HexdStart, HexdLoop, GfxStart, GfxDraw DEF Program
<1>2. CASE User
  BY <1>2, ShellRead, GfxKey DEF User
<1> QED BY <1>1, <1>2

LEMMA SysStep == BootIInv /\ SysIInv /\ [SysNext]_sysVars => SysIInv'
<1> SUFFICES ASSUME BootIInv, SysIInv, [SysNext]_sysVars PROVE SysIInv'
  OBVIOUS
<1>1. CASE Booting
  BY <1>1, BootingKeeps
<1>2. CASE Userland \/ Typing
  <2>1. /\ at = "running" /\ drivers = << "KBD", "VIDEO" >> /\ Running /\ UNCHANGED bootVars
        /\ Program(drivers) \/ User
    BY <1>2 DEF Userland, Typing, SysIInv
  <2>2. Running'
    BY <2>1, ProgramsKeep
  <2> QED BY <2>1, <2>2 DEF SysIInv, bootVars
<1>3. CASE UNCHANGED sysVars
  BY <1>3 DEF sysVars, bootVars, progVars, SysIInv, Running, Top, InitOnTop, ShellOnTop, ProgramOnTop,
     Ready, Answering, Asked, LastLine, Depth, Used
<1> QED BY <1>1, <1>2, <1>3 DEF SysNext

LEMMA SysAlways == SysSpec => []SysIInv
<1>1. SysSpec => []BootIInv
  BY BootAlways
<1> QED BY <1>1, SysStart, SysStep, PTL DEF SysSpec

\* Where the shell waits for a line.
LEMMA AtPrompt ==
  ASSUME SysIInv, Prompting
  PROVE  con = SessionOf(shell, typed) /\ fds = 0 .. 3 + Used
<1>1. Running
  BY DEF SysIInv, Prompting, Is
<1>2. Top.prog = "sh" /\ Top.pc = "read"
  BY DEF Prompting, Is
<1> QED BY <1>1, <1>2, OnTop DEF ShellOnTop

\* For every disk and whatever is typed: at the prompt the console has what the lines
\* so far come to, and nothing else.
THEOREM SessionAsTyped == SysSpec => []Transcript
<1>1. SysIInv => Transcript
  BY AtPrompt, TypedLines DEF Transcript
<1> QED BY <1>1, SysAlways, PTL

\* And of the descriptors, programs have left those in use that execs keep, one for
\* each program that was run.
THEOREM FilesClosed == SysSpec => []FdsAccounted
<1>1. SysIInv => FdsAccounted
  BY AtPrompt, TypedLines DEF FdsAccounted, Used
<1> QED BY <1>1, SysAlways, PTL

-----------------------------------------------------------------------------
\* Recursive definitions: there is a function that goes on as the definition says,
\* if what it goes on to is always lower.

\* A function on D: what it is where it stops, and elsewhere what it is at a lower
\* place p[x], with a[x] in front of that if x is in add.
Goes(F, x, stop, add, a, p) == IF x \in stop THEN a[x]
                               ELSE IF x \in add THEN a[x] \o F[p[x]]
                               ELSE F[p[x]]
Lower(D, stop, p, mu) == \A x \in D : mu[x] \in Nat /\ (x \notin stop => p[x] \in D /\ mu[p[x]] < mu[x])
Below(F, D, stop, add, a, p, mu, n) ==
  F = [x \in D |-> F[x]] /\ \A x \in D : mu[x] < n => F[x] = Goes(F, x, stop, add, a, p)
Descends(F, D, stop, add, a, p) ==
  F = [x \in D |-> F[x]] /\ \A x \in D : F[x] = Goes(F, x, stop, add, a, p)

\* One place more.
LEMMA BelowGrows ==
  ASSUME NEW D, NEW stop, NEW add, NEW a, NEW p, NEW mu, Lower(D, stop, p, mu),
         NEW n \in Nat, NEW F, Below(F, D, stop, add, a, p, mu, n)
  PROVE  \E G : Below(G, D, stop, add, a, p, mu, n + 1)
<1> DEFINE G == [x \in D |-> IF mu[x] < n THEN F[x] ELSE Goes(F, x, stop, add, a, p)]
<1>2. G = [x \in D |-> G[x]]
  OBVIOUS
<1>3. \A x \in D : mu[x] < n => G[x] = F[x]
  OBVIOUS
<1>4. ASSUME NEW x \in D, mu[x] < n + 1 PROVE G[x] = Goes(G, x, stop, add, a, p)
  <2>1. G[x] = Goes(F, x, stop, add, a, p)
    BY DEF Below
  <2>2. CASE x \in stop
    BY <2>1, <2>2 DEF Goes
  <2>3. CASE x \notin stop
    <3>1. p[x] \in D /\ mu[p[x]] < n
      BY <2>3, <1>4 DEF Lower
    <3>2. G[p[x]] = F[p[x]]
      BY <3>1, <1>3
    <3> HIDE DEF G
    <3> QED BY <2>1, <2>3, <3>2 DEF Goes
  <2> QED BY <2>2, <2>3
<1>5. Below(G, D, stop, add, a, p, mu, n + 1)
  <2> HIDE DEF G
  <2> QED BY <1>2, <1>4 DEF Below
<1> QED BY <1>5

\* Any number of places.
LEMMA BelowAll ==
  ASSUME NEW D, NEW stop, NEW add, NEW a, NEW p, NEW mu, Lower(D, stop, p, mu), NEW n \in Nat
  PROVE  \E F : Below(F, D, stop, add, a, p, mu, n)
<1> DEFINE T == { k \in Nat : \E F : Below(F, D, stop, add, a, p, mu, k) }
<1>1. 0 \in T
  <2> DEFINE F == [x \in D |-> a[x]]
  <2>1. F = [x \in D |-> F[x]] /\ \A x \in D : ~ (mu[x] < 0)
    BY DEF Lower
  <2> HIDE DEF F
  <2>2. Below(F, D, stop, add, a, p, mu, 0)
    BY <2>1 DEF Below
  <2> QED BY <2>2
<1>2. ASSUME NEW k \in 1 .. n, k - 1 \in T PROVE k \in T
  <2>1. k - 1 \in Nat /\ k - 1 + 1 = k /\ k \in Nat
    OBVIOUS
  <2>2. PICK F : Below(F, D, stop, add, a, p, mu, k - 1)
    BY <1>2
  <2>3. \E G : Below(G, D, stop, add, a, p, mu, k - 1 + 1)
    BY <2>1, <2>2, BelowGrows
  <2> QED BY <2>1, <2>3
<1> HIDE DEF T
<1>3. 0 .. n \subseteq T
  <2>1. \A k \in 1 .. n : k - 1 \in T => k \in T
    BY <1>2
  <2> QED BY <1>1, <2>1, UpToAll
<1>4. n \in T
  BY <1>3
<1> QED BY <1>4 DEF T

\* Two functions of which both hold agree.
LEMMA BelowOne ==
  ASSUME NEW D, NEW stop, NEW add, NEW a, NEW p, NEW mu, Lower(D, stop, p, mu),
         NEW n \in Nat, NEW m \in Nat, NEW F, NEW G,
         Below(F, D, stop, add, a, p, mu, n), Below(G, D, stop, add, a, p, mu, m),
         NEW x \in D, mu[x] < n, mu[x] < m
  PROVE  F[x] = G[x]
<1> DEFINE l == mu[x]
           T == { k \in Nat : \A y \in D : mu[y] <= k /\ mu[y] < n /\ mu[y] < m => F[y] = G[y] }
<1>0. l \in Nat
  BY DEF Lower
<1>1. ASSUME NEW y \in D, mu[y] < n, mu[y] < m,
             \A z \in D : mu[z] < mu[y] => F[z] = G[z]
      PROVE  F[y] = G[y]
  <2>1. F[y] = Goes(F, y, stop, add, a, p) /\ G[y] = Goes(G, y, stop, add, a, p)
    BY <1>1 DEF Below
  <2>2. y \notin stop => F[p[y]] = G[p[y]]
    BY <1>1 DEF Lower
  <2> QED BY <2>1, <2>2 DEF Goes
<1>2. 0 \in T
  <2> SUFFICES ASSUME NEW y \in D, mu[y] <= 0, mu[y] < n, mu[y] < m PROVE F[y] = G[y]
    OBVIOUS
  <2>1. \A z \in D : ~ (mu[z] < mu[y])
    BY DEF Lower
  <2> QED BY <2>1, <1>1
<1>3. ASSUME NEW k \in 1 .. l, k - 1 \in T PROVE k \in T
  <2>1. k \in Nat /\ k - 1 \in Nat
    BY <1>0
  <2> SUFFICES ASSUME NEW y \in D, mu[y] <= k, mu[y] < n, mu[y] < m PROVE F[y] = G[y]
    BY <2>1
  <2>2. ASSUME NEW z \in D, mu[z] < mu[y] PROVE F[z] = G[z]
    <3>1. mu[z] \in Nat /\ mu[y] \in Nat
      BY DEF Lower
    <3>2. mu[z] <= k - 1 /\ mu[z] < n /\ mu[z] < m
      BY <3>1, <2>1, <2>2
    <3> QED BY <3>2, <1>3
  <2> QED BY <2>2, <1>1
<1>4. l \in T
  <2> HIDE DEF T
  <2>1. \A k \in 1 .. l : k - 1 \in T => k \in T
    BY <1>3
  <2>2. 0 .. l \subseteq T
    BY <1>0, <1>2, <2>1, UpToAll
  <2> QED BY <2>2, <1>0
<1> QED BY <1>4, <1>0

\* There is a function on D that goes on like that everywhere.
LEMMA Descent ==
  ASSUME NEW D, NEW stop, NEW add, NEW a, NEW p, NEW mu, Lower(D, stop, p, mu)
  PROVE  \E F : Descends(F, D, stop, add, a, p)
<1> DEFINE Up(F, n) == Below(F, D, stop, add, a, p, mu, n)
           G == [x \in D |-> CHOOSE F : Up(F, mu[x] + 1)]
           H == [x \in D |-> G[x][x]]
<1>0. \A x \in D : mu[x] \in Nat /\ mu[x] + 1 \in Nat
  BY DEF Lower
<1>1. ASSUME NEW x \in D PROVE Up(G[x], mu[x] + 1)
  <2>1. \E F : Up(F, mu[x] + 1)
    BY <1>0, BelowAll
  <2> HIDE DEF Up
  <2> QED BY <2>1
<1>2. ASSUME NEW x \in D, x \notin stop PROVE H[p[x]] = G[x][p[x]]
  <2>1. p[x] \in D /\ mu[p[x]] < mu[p[x]] + 1 /\ mu[p[x]] < mu[x] + 1
    BY <1>0, <1>2 DEF Lower
  <2>2. Up(G[x], mu[x] + 1) /\ Up(G[p[x]], mu[p[x]] + 1)
    BY <1>1, <2>1
  <2>3. H[p[x]] = G[p[x]][p[x]]
    BY <2>1
  <2> HIDE DEF G, H
  <2>4. G[p[x]][p[x]] = G[x][p[x]]
    <3>1. PICK n \in Nat, m \in Nat : n = mu[p[x]] + 1 /\ m = mu[x] + 1
      BY <2>1, <1>0
    <3>2. PICK u, v : u = G[p[x]] /\ v = G[x]
      OBVIOUS
    <3>3. Below(u, D, stop, add, a, p, mu, n) /\ Below(v, D, stop, add, a, p, mu, m)
      BY <2>2, <3>1, <3>2
    <3>4. mu[p[x]] < n /\ mu[p[x]] < m /\ p[x] \in D
      BY <2>1, <3>1
    <3> HIDE DEF Up
    <3>5. u[p[x]] = v[p[x]]
      BY <3>3, <3>4, BelowOne
    <3> QED BY <3>2, <3>5
  <2> QED BY <2>3, <2>4
<1>3. ASSUME NEW x \in D PROVE H[x] = Goes(H, x, stop, add, a, p)
  <2>1. Up(G[x], mu[x] + 1) /\ mu[x] < mu[x] + 1
    BY <1>0, <1>1
  <2>2. H[x] = G[x][x]
    OBVIOUS
  <2> HIDE DEF G, H
  <2>3. G[x][x] = Goes(G[x], x, stop, add, a, p)
    BY <2>1 DEF Below
  <2>4. Goes(G[x], x, stop, add, a, p) = Goes(H, x, stop, add, a, p)
    BY <1>2 DEF Goes
  <2> QED BY <2>2, <2>3, <2>4
<1>4. H = [x \in D |-> H[x]]
  OBVIOUS
<1>5. Descends(H, D, stop, add, a, p)
  <2> HIDE DEF H
  <2> QED BY <1>3, <1>4 DEF Descends
<1> QED BY <1>5

-----------------------------------------------------------------------------
\* Strings, and where they end.

\* e is the end of the string at s.
EndAt(m, s, e) == e \in Addrs /\ e >= s /\ m[e] = 0 /\ \A d \in s .. e - 1 : m[d] # 0

\* The memory is an interval.
LEMMA FinalIs == Final \in Nat \ {0} /\ Addrs = 1 .. Final /\ Addrs \subseteq Nat
<1>1. Final \in Nat
  <2>1. IsFiniteSet(Addrs)
    BY MemoryAssumption
  <2> QED BY <2>1, FS_CardinalityType DEF Final
<1>2. Addrs = 1 .. Final /\ Addrs # {}
  BY MemoryAssumption DEF Final
<1> QED BY <1>1, <1>2

\* Every string ends, in one place.
LEMMA EndIs ==
  ASSUME NEW m \in Memories, NEW s \in Addrs
  PROVE  \E e : EndAt(m, s, e)
<1> DEFINE Q == { e \in Nat : e \in Addrs /\ e >= s /\ m[e] = 0 }
<1>1. Final \in Q
  BY FinalIs DEF Memories
<1>2. Q \in SUBSET Nat /\ Q # {}
  BY <1>1
<1>3. PICK e \in Q : \A k \in Q : e <= k
  <2> HIDE DEF Q
  <2> QED BY <1>2, Least
<1>4. ASSUME NEW d \in s .. e - 1 PROVE m[d] # 0
  <2>1. d \in Nat /\ d \in Addrs /\ d >= s /\ ~ (e <= d)
    BY <1>3, FinalIs
  <2> QED BY <2>1, <1>3
<1> QED BY <1>3, <1>4 DEF EndAt

LEMMA EndUnique ==
  ASSUME NEW m, NEW s \in Addrs, NEW d, NEW e, EndAt(m, s, d), EndAt(m, s, e)
  PROVE  d = e
<1>1. s \in Nat /\ d \in Nat /\ e \in Nat /\ d >= s /\ e >= s
  BY FinalIs DEF EndAt
<1>2. ~ (d < e)
  <2>1. d < e => d \in s .. e - 1
    BY <1>1
  <2> QED BY <2>1 DEF EndAt
<1>3. ~ (e < d)
  <2>1. e < d => e \in s .. d - 1
    BY <1>1
  <2> QED BY <2>1 DEF EndAt
<1> QED BY <1>1, <1>2, <1>3

\* The string at s has the characters up to its end, none of which is 0.
LEMMA StrIs ==
  ASSUME NEW m \in Memories, NEW s \in Addrs, NEW e, EndAt(m, s, e)
  PROVE  /\ Str(m, s) \in Seq(Chars \ {0}) /\ Len(Str(m, s)) = e - s
         /\ e - s \in Nat /\ DOMAIN Str(m, s) = 1 .. e - s
         /\ \A i \in 1 .. e - s : Str(m, s)[i] = m[s + i - 1] /\ m[s + i - 1] # 0
<1> DEFINE x == CHOOSE y \in Addrs : y >= s /\ m[y] = 0 /\ \A d \in s .. y - 1 : m[d] # 0
<1>1. e \in Nat /\ s \in Nat /\ e >= s /\ e - s \in Nat
  BY FinalIs DEF EndAt
<1>2. EndAt(m, s, x)
  <2>1. \E y \in Addrs : y >= s /\ m[y] = 0 /\ \A d \in s .. y - 1 : m[d] # 0
    BY DEF EndAt
  <2>2. x \in Addrs /\ x >= s /\ m[x] = 0 /\ \A d \in s .. x - 1 : m[d] # 0
    BY <2>1
  <2> QED BY <2>2 DEF EndAt
<1>3. Str(m, s) = SubSeq(m, s, x - 1)
  BY DEF Str
<1> HIDE DEF x
<1>4. x = e
  BY <1>2, EndUnique
<1>5. \A i \in s .. e - 1 : m[i] \in Chars \ {0}
  <2> TAKE i \in s .. e - 1
  <2>1. i \in Addrs
    BY <1>1, FinalIs DEF EndAt
  <2> QED BY <2>1 DEF EndAt, Memories
<1>6. /\ SubSeq(m, s, e - 1) \in Seq(Chars \ {0})
      /\ Len(SubSeq(m, s, e - 1)) = IF s <= e - 1 THEN e - 1 - s + 1 ELSE 0
      /\ \A i \in 1 .. e - 1 - s + 1 : SubSeq(m, s, e - 1)[i] = m[s + i - 1]
  <2>1. s \in Int /\ e - 1 \in Int
    BY <1>1
  <2> QED BY <2>1, <1>5, SubSeqProperties
<1>7. Len(Str(m, s)) = e - s
  BY <1>1, <1>3, <1>4, <1>6
<1>8. \A i \in 1 .. e - s : Str(m, s)[i] = m[s + i - 1] /\ m[s + i - 1] # 0
  <2> TAKE i \in 1 .. e - s
  <2>1. i \in 1 .. e - 1 - s + 1 /\ s + i - 1 \in s .. e - 1
    BY <1>1
  <2> QED BY <2>1, <1>3, <1>4, <1>5, <1>6
<1>9. Str(m, s) \in Seq(Chars \ {0})
  BY <1>3, <1>4, <1>6
<1> QED BY <1>1, <1>7, <1>8, <1>9, LenProperties

\* strlen counts them.
LEMMA StrlenIs ==
  ASSUME NEW m \in Memories, NEW s \in Addrs, NEW e, EndAt(m, s, e)
  PROVE  strlen(m, s) = e - s
<1> DEFINE Rec(f) == f = [x \in Addrs |-> IF m[x] = 0 THEN 0 ELSE 1 + f[x + 1]]
           f == CHOOSE h : Rec(h)
           end == [x \in Addrs |-> CHOOSE d : EndAt(m, x, d)]
           h == [x \in Addrs |-> end[x] - x]
<1>0. e \in Nat /\ s \in Nat /\ e >= s /\ e - s \in Nat /\ e \in Addrs
  BY FinalIs DEF EndAt
<1>1. strlen(m, s) = f[s]
  BY DEF strlen
<1>2. \A x \in Addrs : EndAt(m, x, end[x])
  <2> TAKE x \in Addrs
  <2>1. \E d : EndAt(m, x, d)
    BY EndIs
  <2> QED BY <2>1
<1> HIDE DEF end
<1>3. ASSUME NEW x \in Addrs PROVE h[x] = IF m[x] = 0 THEN 0 ELSE 1 + h[x + 1]
  <2>1. x \in Nat /\ end[x] \in Nat /\ end[x] >= x /\ m[end[x]] = 0
    BY <1>2, FinalIs DEF EndAt
  <2>2. CASE m[x] = 0
    <3>1. EndAt(m, x, x)
      BY <2>1, <2>2 DEF EndAt
    <3>2. end[x] = x
      BY <3>1, <1>2, EndUnique
    <3> QED BY <2>1, <2>2, <3>2
  <2>3. CASE m[x] # 0
    <3>1. end[x] # x
      BY <2>1, <2>3
    <3>2. x + 1 \in Addrs /\ end[x] >= x + 1
      BY <2>1, <3>1, <1>2, FinalIs DEF EndAt
    <3>3. EndAt(m, x + 1, end[x])
      <4>1. \A d \in x + 1 .. end[x] - 1 : d \in x .. end[x] - 1
        BY <2>1
      <4> QED BY <4>1, <3>2, <1>2 DEF EndAt
    <3>4. end[x + 1] = end[x]
      BY <3>2, <3>3, <1>2, EndUnique
    <3> QED BY <2>1, <2>3, <3>2, <3>4
  <2> QED BY <2>2, <2>3
<1>4. Rec(h)
  <2>1. h = [x \in Addrs |-> h[x]]
    OBVIOUS
  <2> HIDE DEF h
  <2> QED BY <1>3, <2>1
<1> HIDE DEF h
<1>5. Rec(f)
  <2> HIDE DEF Rec
  <2> QED BY <1>4
<1> HIDE DEF f
<1>7. \A x \in Addrs : f[x] = IF m[x] = 0 THEN 0 ELSE 1 + f[x + 1]
  BY <1>5
<1> DEFINE T == { k \in 0 .. e - s : f[e - k] = k }
<1>8. 0 \in T
  BY <1>0, <1>7 DEF EndAt
<1>9. ASSUME NEW k \in 1 .. e - s, k - 1 \in T PROVE k \in T
  <2>1. e - k \in Addrs /\ e - k \in s .. e - 1 /\ e - k + 1 = e - (k - 1) /\ f[e - (k - 1)] = k - 1
    BY <1>0, <1>9, FinalIs
  <2>2. m[e - k] # 0
    BY <2>1 DEF EndAt
  <2>3. f[e - k] = 1 + (k - 1)
    BY <2>1, <2>2, <1>7
  <2> QED BY <2>3, <1>0
<1>10. 0 .. e - s \subseteq T
  <2> HIDE DEF T
  <2>1. \A k \in 1 .. e - s : k - 1 \in T => k \in T
    BY <1>9
  <2> QED BY <1>0, <1>8, <2>1, UpToAll
<1>11. f[e - (e - s)] = e - s /\ e - (e - s) = s
  BY <1>0, <1>10
<1> QED BY <1>1, <1>11

-----------------------------------------------------------------------------
\* Where two strings are apart.

\* Alike from a and b on for l characters, which are not ends, and no longer.
AlikeFor(m, a, b, l) ==
  /\ l \in Nat /\ \A i \in 0 .. l - 1 : m[a + i] = m[b + i] /\ m[a + i] # 0
  /\ m[a + l] # m[b + l] \/ m[a + l] = 0

\* Apart: the recursion over the places where strings are still alike.
LEMMA ApartIs ==
  ASSUME NEW m, NEW a, NEW b, NEW l, AlikeFor(m, a, b, l)
  PROVE  Apart(m, a, b) = l
<1> DEFINE Rec(i) == i = [n \in Nat |-> IF m[a + n] = m[b + n] /\ m[a + n] # 0 THEN i[n + 1] ELSE n]
           f == CHOOSE i : Rec(i)
           Stop(e) == ~ (m[a + e] = m[b + e] /\ m[a + e] # 0)
           Q == [n \in Nat |-> { e \in Nat : e >= n /\ Stop(e) }]
           h == [n \in Nat |-> IF Q[n] = {} THEN 0 ELSE CHOOSE e \in Q[n] : \A k \in Q[n] : e <= k]
<1>1. Apart(m, a, b) = f[0]
  BY DEF Apart
<1>2. ASSUME NEW n \in Nat PROVE h[n] = IF m[a + n] = m[b + n] /\ m[a + n] # 0 THEN h[n + 1] ELSE n
  <2>1. CASE Stop(n)
    <3>1. n \in Q[n] /\ \A k \in Q[n] : n <= k
      BY <2>1
    <3>2. \A e \in Q[n] : (\A k \in Q[n] : e <= k) => e = n
      <4>1. \A e \in Q[n] : e \in Nat
        OBVIOUS
      <4> HIDE DEF Q
      <4> QED BY <3>1, <4>1
    <3>3. h[n] = CHOOSE e \in Q[n] : \A k \in Q[n] : e <= k
      BY <3>1
    <3>4. h[n] = n
      <4> HIDE DEF Q, h
      <4> QED BY <3>1, <3>2, <3>3
    <3> HIDE DEF h, Q
    <3> QED BY <2>1, <3>4
  <2>2. CASE ~ Stop(n)
    <3>1. Q[n] = Q[n + 1]
      <4>1. ASSUME NEW e \in Nat, Stop(e) PROVE e >= n <=> e >= n + 1
        <5>1. e # n
          BY <4>1, <2>2
        <5> QED BY <5>1
      <4>2. n + 1 \in Nat
        OBVIOUS
      <4>3. Q[n] \subseteq Q[n + 1]
        BY <4>1, <4>2
      <4>4. Q[n + 1] \subseteq Q[n]
        BY <4>1, <4>2
      <4> QED BY <4>3, <4>4
    <3>2. h[n] = IF Q[n] = {} THEN 0 ELSE CHOOSE e \in Q[n] : \A k \in Q[n] : e <= k
      OBVIOUS
    <3>3. h[n + 1] = IF Q[n + 1] = {} THEN 0 ELSE CHOOSE e \in Q[n + 1] : \A k \in Q[n + 1] : e <= k
      <4>1. n + 1 \in Nat
        OBVIOUS
      <4> DEFINE x == n + 1
      <4> HIDE DEF x, Q
      <4>2. x \in Nat
        BY <4>1 DEF x
      <4>3. h[x] = IF Q[x] = {} THEN 0 ELSE CHOOSE e \in Q[x] : \A k \in Q[x] : e <= k
        BY <4>2
      <4> HIDE DEF h
      <4> QED BY <4>3 DEF x
    <3> HIDE DEF h, Q
    <3> QED BY <2>2, <3>1, <3>2, <3>3
  <2> HIDE DEF h
  <2> QED BY <2>1, <2>2
<1>3. Rec(h)
  <2>1. h = [n \in Nat |-> h[n]]
    OBVIOUS
  <2> HIDE DEF h
  <2> QED BY <2>1, <1>2
<1> HIDE DEF h
<1>4. Rec(f)
  <2> HIDE DEF Rec
  <2> QED BY <1>3
<1> HIDE DEF f
<1>5. \A n \in Nat : f[n] = IF m[a + n] = m[b + n] /\ m[a + n] # 0 THEN f[n + 1] ELSE n
  BY <1>4
<1> HIDE DEF Rec, Q, Stop
<1> DEFINE T == { k \in 0 .. l : f[k] = f[0] }
<1>6. l \in Nat
  BY DEF AlikeFor
<1>7. ASSUME NEW k \in 1 .. l, k - 1 \in T PROVE k \in T
  <2>1. k - 1 \in Nat /\ k - 1 \in 0 .. l - 1 /\ k - 1 + 1 = k
    BY <1>6
  <2>2. f[k - 1] = f[k - 1 + 1]
    BY <2>1, <1>5 DEF AlikeFor
  <2> QED BY <2>1, <2>2, <1>7, <1>6
<1>8. 0 .. l \subseteq T
  <2>1. \A k \in 1 .. l : k - 1 \in T => k \in T
    BY <1>7
  <2>2. 0 \in T
    BY <1>6
  <2> HIDE DEF T
  <2> QED BY <1>6, <2>1, <2>2, UpToAll
<1>9. f[l] = f[0]
  BY <1>6, <1>8
<1>10. f[l] = l
  BY <1>5, <1>6 DEF AlikeFor
<1> QED BY <1>1, <1>9, <1>10

\* It stops at the first difference, or at the end of both.
LEMMA ApartAt ==
  ASSUME NEW m \in Memories, NEW a \in Addrs, NEW b \in Addrs, NEW d, NEW e, EndAt(m, a, d), EndAt(m, b, e)
  PROVE  \E l : AlikeFor(m, a, b, l) /\ a + l <= d /\ b + l <= e
<1>0. a \in Nat /\ b \in Nat /\ d \in Nat /\ e \in Nat /\ d >= a /\ e >= b
  BY FinalIs DEF EndAt
<1> DEFINE Q == { i \in Nat : m[a + i] # m[b + i] \/ m[a + i] = 0 }
<1>1. d - a \in Q
  BY <1>0 DEF EndAt
<1>2. PICK l \in Q : \A k \in Q : l <= k
  <2>1. Q \in SUBSET Nat /\ Q # {}
    BY <1>1
  <2> HIDE DEF Q
  <2> QED BY <2>1, Least
<1>3. l \in Nat /\ l <= d - a
  BY <1>1, <1>2
<1>4. ASSUME NEW i \in 0 .. l - 1 PROVE m[a + i] = m[b + i] /\ m[a + i] # 0
  <2>1. i \in Nat /\ ~ (l <= i)
    BY <1>3
  <2> QED BY <2>1, <1>2
<1>5. AlikeFor(m, a, b, l)
  BY <1>2, <1>3, <1>4 DEF AlikeFor
<1>6. l <= e - b
  <2> SUFFICES ASSUME e - b < l PROVE FALSE
    BY <1>0, <1>3
  <2>1. e - b \in 0 .. l - 1 /\ b + (e - b) = e
    BY <1>0, <1>3
  <2>2. m[b + (e - b)] # 0
    BY <2>1, <1>4
  <2> QED BY <2>1, <2>2 DEF EndAt
<1> QED BY <1>0, <1>3, <1>5, <1>6

\* Of strings that are alike so far, whose ends are ahead.
LEMMA SamePrefix ==
  ASSUME NEW S, NEW s \in Seq(S), NEW t \in Seq(S)
  PROVE  IsPrefix(s, t) <=> Len(s) <= Len(t) /\ \A i \in 1 .. Len(s) : s[i] = t[i]
<1>1. Len(s) \in Nat /\ Len(t) \in Nat
  BY LenProperties
<1>2. /\ SubSeq(s, 1, Len(s)) \in Seq(S) /\ Len(SubSeq(s, 1, Len(s))) = Len(s)
      /\ \A i \in 1 .. Len(s) : SubSeq(s, 1, Len(s))[i] = s[i]
  BY SubSeqFull
<1>3. ASSUME Len(s) <= Len(t)
      PROVE  /\ SubSeq(t, 1, Len(s)) \in Seq(S) /\ Len(SubSeq(t, 1, Len(s))) = Len(s)
             /\ \A i \in 1 .. Len(s) : SubSeq(t, 1, Len(s))[i] = t[i]
  <2>1. \A i \in 1 .. Len(s) : t[i] \in S
    BY <1>1, <1>3, ElementOfSeq
  <2>2. 1 \in Int /\ Len(s) \in Int
    BY <1>1
  <2>3. /\ SubSeq(t, 1, Len(s)) \in Seq(S)
        /\ Len(SubSeq(t, 1, Len(s))) = IF 1 <= Len(s) THEN Len(s) - 1 + 1 ELSE 0
        /\ \A i \in 1 .. Len(s) - 1 + 1 : SubSeq(t, 1, Len(s))[i] = t[1 + i - 1]
    BY <2>1, <2>2, SubSeqProperties
  <2> QED BY <2>3, <1>1
<1>4. ASSUME Len(s) <= Len(t)
      PROVE  SubSeq(s, 1, Len(s)) = SubSeq(t, 1, Len(s)) <=> \A i \in 1 .. Len(s) : s[i] = t[i]
  <2>1. ASSUME SubSeq(s, 1, Len(s)) = SubSeq(t, 1, Len(s)) PROVE \A i \in 1 .. Len(s) : s[i] = t[i]
    BY <2>1, <1>2, <1>3, <1>4
  <2>2. ASSUME \A i \in 1 .. Len(s) : s[i] = t[i] PROVE SubSeq(s, 1, Len(s)) = SubSeq(t, 1, Len(s))
    <3> DEFINE u == SubSeq(s, 1, Len(s))
               v == SubSeq(t, 1, Len(s))
    <3>1. u \in Seq(S) /\ v \in Seq(S) /\ Len(u) = Len(v) /\ \A i \in 1 .. Len(u) : u[i] = v[i]
      BY <2>2, <1>2, <1>3, <1>4
    <3> HIDE DEF u, v
    <3>2. u = v
      BY <3>1, SeqEqual
    <3> QED BY <3>2 DEF u, v
  <2> QED BY <2>1, <2>2
<1> QED BY <1>4 DEF IsPrefix

-----------------------------------------------------------------------------
\* Comparing strings.

\* Both strings, from a to d and from b to e, alike for l characters.
Both(m, a, b, d, e, l) ==
  /\ EndAt(m, a, d) /\ EndAt(m, b, e) /\ AlikeFor(m, a, b, l) /\ a + l <= d /\ b + l <= e

LEMMA BothAre ==
  ASSUME NEW m \in Memories, NEW a \in Addrs, NEW b \in Addrs
  PROVE  \E d, e, l : Both(m, a, b, d, e, l)
BY EndIs, ApartAt DEF Both

\* What is where, by the places in the strings.
LEMMA BothFacts ==
  ASSUME NEW m \in Memories, NEW a \in Addrs, NEW b \in Addrs, NEW d, NEW e, NEW l, Both(m, a, b, d, e, l)
  PROVE  /\ a \in Nat /\ b \in Nat /\ d \in Nat /\ e \in Nat /\ l \in Nat
         /\ d - a \in Nat /\ e - b \in Nat /\ a + l \in Addrs /\ b + l \in Addrs
         /\ a + l = d <=> m[a + l] = 0
         /\ b + l = e <=> m[b + l] = 0
         /\ \A i \in 1 .. l : Str(m, a)[i] = Str(m, b)[i]
<1>1. /\ a \in Nat /\ b \in Nat /\ d \in Nat /\ e \in Nat /\ l \in Nat
      /\ d - a \in Nat /\ e - b \in Nat /\ a + l \in Addrs /\ b + l \in Addrs
  BY FinalIs DEF Both, EndAt, AlikeFor
<1>2. a + l = d <=> m[a + l] = 0
  <2>1. a + l # d => a + l \in a .. d - 1
    BY <1>1 DEF Both
  <2> QED BY <2>1 DEF Both, EndAt
<1>3. b + l = e <=> m[b + l] = 0
  <2>1. b + l # e => b + l \in b .. e - 1
    BY <1>1 DEF Both
  <2> QED BY <2>1 DEF Both, EndAt
<1>4. ASSUME NEW i \in 1 .. l PROVE Str(m, a)[i] = Str(m, b)[i]
  <2>1. i \in 1 .. d - a /\ i \in 1 .. e - b /\ i - 1 \in 0 .. l - 1
        /\ a + i - 1 = a + (i - 1) /\ b + i - 1 = b + (i - 1)
    BY <1>1 DEF Both
  <2>2. Str(m, a)[i] = m[a + i - 1] /\ Str(m, b)[i] = m[b + i - 1]
    BY <2>1, StrIs DEF Both
  <2>3. m[a + (i - 1)] = m[b + (i - 1)]
    BY <2>1 DEF Both, AlikeFor
  <2> QED BY <2>1, <2>2, <2>3
<1> QED BY <1>1, <1>2, <1>3, <1>4

\* The strings are the same just if they are of one length and alike so far.
LEMMA SameStr ==
  ASSUME NEW m \in Memories, NEW a \in Addrs, NEW b \in Addrs
  PROVE  Str(m, a) = Str(m, b) <=>
           Len(Str(m, a)) = Len(Str(m, b)) /\ \A i \in 1 .. Len(Str(m, a)) : Str(m, a)[i] = Str(m, b)[i]
<1>1. PICK d, e : EndAt(m, a, d) /\ EndAt(m, b, e)
  BY EndIs
<1>2. Str(m, a) \in Seq(Chars \ {0}) /\ Str(m, b) \in Seq(Chars \ {0})
  BY <1>1, StrIs
<1> DEFINE s == Str(m, a)
           t == Str(m, b)
<1> HIDE DEF s, t
<1>3. s = t <=> Len(s) = Len(t) /\ \A i \in 1 .. Len(s) : s[i] = t[i]
  <2>1. s \in Seq(Chars \ {0}) /\ t \in Seq(Chars \ {0})
    BY <1>2 DEF s, t
  <2> QED BY <2>1, SeqEqual
<1> QED BY <1>3 DEF s, t

\* kstreq compares the strings.
LEMMA KstreqIs ==
  ASSUME NEW m \in Memories, NEW a \in Addrs, NEW b \in Addrs
  PROVE  kstreq(m, a, b) <=> Str(m, a) = Str(m, b)
<1>1. PICK d, e : EndAt(m, a, d) /\ EndAt(m, b, e)
  BY EndIs
<1>2. /\ strlen(m, a) = d - a /\ Len(Str(m, a)) = d - a /\ d - a \in Nat
      /\ strlen(m, b) = e - b /\ Len(Str(m, b)) = e - b /\ e - b \in Nat
      /\ \A i \in 1 .. d - a : Str(m, a)[i] = m[a + i - 1]
      /\ \A i \in 1 .. e - b : Str(m, b)[i] = m[b + i - 1]
  BY <1>1, StrIs, StrlenIs
<1>3. a \in Nat /\ b \in Nat
  BY FinalIs
<1>4. ASSUME d - a = e - b
      PROVE  (\A i \in 0 .. d - a - 1 : m[a + i] = m[b + i])
               <=> \A i \in 1 .. d - a : Str(m, a)[i] = Str(m, b)[i]
  <2>1. ASSUME \A i \in 0 .. d - a - 1 : m[a + i] = m[b + i], NEW i \in 1 .. d - a
        PROVE  Str(m, a)[i] = Str(m, b)[i]
    <3>1. i - 1 \in 0 .. d - a - 1 /\ a + i - 1 = a + (i - 1) /\ b + i - 1 = b + (i - 1)
      BY <1>2, <1>3
    <3> QED BY <3>1, <2>1, <1>2, <1>4
  <2>2. ASSUME \A i \in 1 .. d - a : Str(m, a)[i] = Str(m, b)[i], NEW i \in 0 .. d - a - 1
        PROVE  m[a + i] = m[b + i]
    <3>1. i + 1 \in 1 .. d - a /\ a + (i + 1) - 1 = a + i /\ b + (i + 1) - 1 = b + i
      BY <1>2, <1>3
    <3> QED BY <3>1, <2>2, <1>2, <1>4
  <2> QED BY <2>1, <2>2
<1> QED BY <1>2, <1>4, SameStr DEF kstreq

\* streq compares the strings.
LEMMA StreqIs ==
  ASSUME NEW m \in Memories, NEW a \in Addrs, NEW b \in Addrs
  PROVE  streq(m, a, b) <=> Str(m, a) = Str(m, b)
<1>1. PICK d, e, l : Both(m, a, b, d, e, l)
  BY BothAre
<1>2. /\ a \in Nat /\ b \in Nat /\ d \in Nat /\ e \in Nat /\ l \in Nat
      /\ d - a \in Nat /\ e - b \in Nat /\ a + l \in Addrs /\ b + l \in Addrs
      /\ a + l = d <=> m[a + l] = 0
      /\ b + l = e <=> m[b + l] = 0
      /\ \A i \in 1 .. l : Str(m, a)[i] = Str(m, b)[i]
  BY <1>1, BothFacts
<1>3. /\ Len(Str(m, a)) = d - a /\ Len(Str(m, b)) = e - b
      /\ \A i \in 1 .. d - a : Str(m, a)[i] = m[a + i - 1]
      /\ \A i \in 1 .. e - b : Str(m, b)[i] = m[b + i - 1]
  BY <1>1, StrIs DEF Both
<1>4. Apart(m, a, b) = l /\ (m[a + l] # m[b + l] \/ m[a + l] = 0) /\ a + l <= d /\ b + l <= e
  BY <1>1, ApartIs DEF Both, AlikeFor
<1>5. ASSUME m[a + l] = m[b + l] PROVE Str(m, a) = Str(m, b)
  <2>1. a + l = d /\ b + l = e
    BY <1>2, <1>4, <1>5
  <2>2. d - a = l /\ e - b = l
    BY <2>1, <1>2
  <2> QED BY <2>2, <1>2, <1>3, SameStr
<1>6. ASSUME Str(m, a) = Str(m, b) PROVE m[a + l] = m[b + l]
  <2>1. d - a = e - b
    BY <1>3, <1>6
  <2>2. CASE a + l = d
    <3>1. b + l = e
      BY <2>1, <2>2, <1>2
    <3> QED BY <3>1, <2>2, <1>2
  <2>3. CASE a + l # d
    <3>1. l + 1 \in 1 .. d - a /\ l + 1 \in 1 .. e - b /\ a + (l + 1) - 1 = a + l /\ b + (l + 1) - 1 = b + l
      BY <2>1, <2>3, <1>2, <1>4
    <3> QED BY <3>1, <1>3, <1>6
  <2> QED BY <2>2, <2>3
<1> QED BY <1>4, <1>5, <1>6 DEF streq

\* Of two different characters the difference is not 0, as an int.
LEMMA CharsDiffer ==
  ASSUME NEW x \in Chars, NEW y \in Chars, x # y
  PROVE  (x - y) % IntMod # 0
<1>1. IntMod \in Nat \ {0} /\ x \in 0 .. IntMod - 1 /\ y \in 0 .. IntMod - 1
  <2>1. IntMod \in Nat \ {0} /\ Chars \subseteq 0 .. IntMod - 1
    BY LibraryAssumption
  <2> QED BY <2>1
<1>2. CASE x > y
  <2>1. x - y \in 0 .. IntMod - 1 /\ IntMod * 0 + (x - y) = x - y /\ 0 \in Nat
    BY <1>1, <1>2
  <2>2. (IntMod * 0 + (x - y)) % IntMod = x - y
    BY <1>1, <2>1, DivModIs
  <2> QED BY <2>1, <2>2, <1>1, <1>2
<1>3. CASE x < y
  <2>1. y - x \in 1 .. IntMod - 1
    BY <1>1, <1>3
  <2> DEFINE z == x - y
  <2>2. z \in Int /\ z < 0 /\ z > - IntMod /\ IntMod \in Int
    BY <1>1, <1>3
  <2> HIDE DEF z
  <2>3. z % IntMod # 0
    <3> DEFINE q == z \div IntMod
    <3>1. z = IntMod * q + (z % IntMod) /\ q \in Int /\ z % IntMod \in 0 .. IntMod - 1
      BY <1>1, <2>2
    <3> HIDE DEF q
    <3>2. (q >= 0 => IntMod * q >= 0) /\ (q <= -1 => IntMod * q <= - IntMod)
      BY <1>1, <3>1
    <3> QED BY <1>1, <2>2, <3>1, <3>2
  <2> QED BY <2>3 DEF z
<1> QED BY <1>1, <1>2, <1>3

\* strcmp is 0 where one is the beginning of the other.
LEMMA StrcmpIs ==
  ASSUME NEW m \in Memories, NEW a \in Addrs, NEW b \in Addrs
  PROVE  strcmp(m, a, b) = 0 <=> IsPrefix(Str(m, a), Str(m, b)) \/ IsPrefix(Str(m, b), Str(m, a))
<1>1. PICK d, e, l : Both(m, a, b, d, e, l)
  BY BothAre
<1>2. /\ a \in Nat /\ b \in Nat /\ d \in Nat /\ e \in Nat /\ l \in Nat
      /\ d - a \in Nat /\ e - b \in Nat /\ a + l \in Addrs /\ b + l \in Addrs
      /\ a + l = d <=> m[a + l] = 0
      /\ b + l = e <=> m[b + l] = 0
      /\ \A i \in 1 .. l : Str(m, a)[i] = Str(m, b)[i]
  BY <1>1, BothFacts
<1> DEFINE s == Str(m, a)
           t == Str(m, b)
<1>3. /\ Len(s) = d - a /\ Len(t) = e - b /\ s \in Seq(Chars \ {0}) /\ t \in Seq(Chars \ {0})
      /\ \A i \in 1 .. d - a : s[i] = m[a + i - 1]
      /\ \A i \in 1 .. e - b : t[i] = m[b + i - 1]
  BY <1>1, StrIs DEF Both
<1>4. Apart(m, a, b) = l /\ (m[a + l] # m[b + l] \/ m[a + l] = 0) /\ a + l <= d /\ b + l <= e
  BY <1>1, ApartIs DEF Both, AlikeFor
<1>5. m[a + l] \in Chars /\ m[b + l] \in Chars
  BY <1>2 DEF Memories
<1>6. strcmp(m, a, b) = 0 <=> m[a + l] = 0 \/ m[b + l] = 0
  <2>1. CASE m[a + l] = 0 \/ m[b + l] = 0
    BY <2>1, <1>4 DEF strcmp
  <2>2. CASE ~ (m[a + l] = 0 \/ m[b + l] = 0)
    <3>1. (m[a + l] - m[b + l]) % IntMod # 0
      BY <2>2, <1>4, <1>5, CharsDiffer
    <3>2. strcmp(m, a, b) = (m[a + l] - m[b + l]) % IntMod
      BY <2>2, <1>4 DEF strcmp
    <3> QED BY <2>2, <3>1, <3>2
  <2> QED BY <2>1, <2>2
<1>7. /\ IsPrefix(s, t) <=> Len(s) <= Len(t) /\ \A i \in 1 .. Len(s) : s[i] = t[i]
      /\ IsPrefix(t, s) <=> Len(t) <= Len(s) /\ \A i \in 1 .. Len(t) : t[i] = s[i]
  <2> HIDE DEF s, t
  <2> QED BY <1>3, SamePrefix
<1>8. \A i \in 1 .. l : s[i] = t[i]
  BY <1>2
<1> HIDE DEF s, t
<1>9. m[a + l] = 0 => IsPrefix(s, t)
  <2> SUFFICES ASSUME m[a + l] = 0 PROVE IsPrefix(s, t)
    OBVIOUS
  <2>1. d - a = l /\ l <= e - b
    BY <1>2, <1>4
  <2> QED BY <2>1, <1>3, <1>7, <1>8
<1>10. m[b + l] = 0 => IsPrefix(t, s)
  <2> SUFFICES ASSUME m[b + l] = 0 PROVE IsPrefix(t, s)
    OBVIOUS
  <2>1. e - b = l /\ l <= d - a
    BY <1>2, <1>4
  <2>2. \A i \in 1 .. Len(t) : t[i] = s[i]
    BY <2>1, <1>3, <1>8
  <2> QED BY <2>1, <2>2, <1>3, <1>7
<1>11. ASSUME m[a + l] # 0, m[b + l] # 0 PROVE ~ IsPrefix(s, t) /\ ~ IsPrefix(t, s)
  <2>1. l + 1 \in 1 .. d - a /\ l + 1 \in 1 .. e - b /\ a + (l + 1) - 1 = a + l /\ b + (l + 1) - 1 = b + l
    BY <1>2, <1>4, <1>11
  <2>2. s[l + 1] # t[l + 1]
    BY <2>1, <1>3, <1>4, <1>11
  <2> QED BY <2>1, <2>2, <1>3, <1>7
<1> QED BY <1>6, <1>9, <1>10, <1>11 DEF s, t

\* Where strchr stops.
StopsAt(m, c) == { x \in Addrs : m[x] = 0 \/ m[x] = c }

\* strchr: the recursion up to a place where it stops.
LEMMA StrchrIs ==
  ASSUME NEW m \in Memories, NEW s \in Addrs, NEW c \in Chars, NEW q \in StopsAt(m, c), q >= s,
         \A x \in s .. q - 1 : x \notin StopsAt(m, c)
  PROVE  strchr(m, s, c) = IF m[q] = 0 THEN 0 ELSE q
<1> DEFINE Rec(f) == f = [x \in Addrs |-> CASE m[x] = 0 -> 0 [] m[x] = c /\ c # 0 -> x [] OTHER -> f[x + 1]]
           f == CHOOSE h : Rec(h)
           stop == StopsAt(m, c)
           none == {}
           a == [x \in Addrs |-> IF m[x] = 0 THEN 0 ELSE x]
           p == [x \in Addrs |-> x + 1]
           mu == [x \in Addrs |-> Final - x]
<1>0. q \in Nat /\ s \in Nat /\ q \in Addrs /\ q - s \in Nat
  BY FinalIs DEF StopsAt
<1>1. strchr(m, s, c) = f[s]
  BY DEF strchr
<1>2. Lower(Addrs, stop, p, mu)
  <2> SUFFICES ASSUME NEW x \in Addrs
               PROVE  mu[x] \in Nat /\ (x \notin stop => p[x] \in Addrs /\ mu[p[x]] < mu[x])
    BY DEF Lower
  <2>1. x \notin stop => x # Final
    BY DEF Memories, StopsAt
  <2> QED BY <2>1, FinalIs
<1>3. PICK h : Descends(h, Addrs, stop, none, a, p)
  <2> HIDE DEF stop, none, a, p, mu
  <2> QED BY <1>2, Descent
<1>4. h = [x \in Addrs |-> h[x]] /\ \A x \in Addrs : h[x] = Goes(h, x, stop, none, a, p)
  BY <1>3 DEF Descends
<1>5. Rec(h)
  <2>1. ASSUME NEW x \in Addrs
        PROVE  h[x] = CASE m[x] = 0 -> 0 [] m[x] = c /\ c # 0 -> x [] OTHER -> h[x + 1]
    <3>1. x \notin stop => h[x] = h[x + 1]
      <4>1. x \notin stop => x + 1 \in Addrs /\ p[x] = x + 1
        BY <1>2 DEF Lower
      <4>2. x \notin stop => h[x] = h[p[x]]
        BY <1>4 DEF Goes
      <4> HIDE DEF stop, p
      <4> QED BY <4>1, <4>2
    <3>2. x \in stop => h[x] = IF m[x] = 0 THEN 0 ELSE x
      BY <1>4 DEF Goes
    <3>3. x \in stop <=> m[x] = 0 \/ (m[x] = c /\ c # 0)
      BY DEF StopsAt
    <3> HIDE DEF stop
    <3> QED BY <3>1, <3>2, <3>3
  <2>2. h = [x \in Addrs |-> h[x]]
    BY <1>4
  <2> QED BY <2>1, <2>2
<1>6. Rec(f)
  <2> HIDE DEF Rec
  <2> QED BY <1>5
<1> HIDE DEF f
<1>7. \A x \in Addrs : f[x] = CASE m[x] = 0 -> 0 [] m[x] = c /\ c # 0 -> x [] OTHER -> f[x + 1]
  BY <1>6
<1> DEFINE T == { k \in 0 .. q - s : f[q - k] = f[q] }
<1>8. 0 \in T
  BY <1>0
<1>9. ASSUME NEW k \in 1 .. q - s, k - 1 \in T PROVE k \in T
  <2>1. q - k \in Addrs /\ q - k \in s .. q - 1 /\ q - k + 1 = q - (k - 1) /\ f[q - (k - 1)] = f[q]
    BY <1>0, <1>9, FinalIs
  <2>2. m[q - k] # 0 /\ m[q - k] # c
    BY <2>1 DEF StopsAt
  <2>3. f[q - k] = f[q - k + 1]
    BY <2>1, <2>2, <1>7
  <2> QED BY <2>1, <2>3, <1>0
<1>10. 0 .. q - s \subseteq T
  <2> HIDE DEF T
  <2>1. \A k \in 1 .. q - s : k - 1 \in T => k \in T
    BY <1>9
  <2> QED BY <1>0, <1>8, <2>1, UpToAll
<1>11. f[s] = f[q]
  <2>1. q - (q - s) = s /\ q - s \in 0 .. q - s
    BY <1>0
  <2> QED BY <2>1, <1>10
<1>12. f[q] = IF m[q] = 0 THEN 0 ELSE q
  <2>1. m[q] = 0 \/ (m[q] = c /\ c # 0)
    BY DEF StopsAt
  <2> QED BY <2>1, <1>0, <1>7
<1> QED BY <1>1, <1>11, <1>12

\* It finds the first, and nothing if there is none.
LEMMA StrchrFinds ==
  ASSUME NEW m \in Memories, NEW a \in Addrs, NEW c \in Chars
  PROVE  LET p == strchr(m, a, c)
             w == Str(m, a)
         IN  IF \A i \in DOMAIN w : w[i] # c THEN p = 0
             ELSE m[p] = c /\ \A i \in 1 .. p - a : w[i] # c
<1>1. PICK e : EndAt(m, a, e)
  BY EndIs
<1> DEFINE Q == { x \in Nat : x >= a /\ x \in StopsAt(m, c) }
           w == Str(m, a)
<1>2. e \in Nat /\ a \in Nat /\ e >= a /\ e \in Addrs /\ m[e] = 0 /\ e \in Q
  BY <1>1, FinalIs DEF EndAt, StopsAt
<1>3. PICK q \in Q : \A k \in Q : q <= k
  <2>1. Q \in SUBSET Nat /\ Q # {}
    BY <1>2
  <2> HIDE DEF Q
  <2> QED BY <2>1, Least
<1>4. q \in Nat /\ q >= a /\ q <= e /\ q \in Addrs /\ q \in StopsAt(m, c)
  BY <1>2, <1>3 DEF StopsAt
<1>5. \A x \in a .. q - 1 : x \notin StopsAt(m, c)
  <2> TAKE x \in a .. q - 1
  <2>1. x \in Nat /\ x >= a /\ ~ (q <= x)
    BY <1>2, <1>4
  <2> QED BY <2>1, <1>3
<1> HIDE DEF Q
<1>6. strchr(m, a, c) = IF m[q] = 0 THEN 0 ELSE q
  BY <1>4, <1>5, StrchrIs
<1>7. DOMAIN w = 1 .. e - a /\ \A i \in 1 .. e - a : w[i] = m[a + i - 1] /\ w[i] # 0
  BY <1>1, StrIs
<1>8. \A i \in 1 .. q - a : w[i] # c
  <2> TAKE i \in 1 .. q - a
  <2>1. i \in 1 .. e - a /\ a + i - 1 \in a .. q - 1 /\ a + i - 1 \in Addrs
    BY <1>2, <1>4, FinalIs
  <2> QED BY <2>1, <1>5, <1>7 DEF StopsAt
<1>9. CASE m[q] = 0
  <2>1. q = e
    <3>1. q # e => q \in a .. e - 1
      BY <1>2, <1>4
    <3> QED BY <3>1, <1>1, <1>9 DEF EndAt
  <2> QED BY <2>1, <1>6, <1>7, <1>8, <1>9
<1>10. CASE m[q] # 0
  <2>1. m[q] = c /\ q # e
    BY <1>2, <1>4, <1>10 DEF StopsAt
  <2>2. q - a + 1 \in 1 .. e - a /\ a + (q - a + 1) - 1 = q
    BY <2>1, <1>2, <1>4
  <2>3. w[q - a + 1] = c
    BY <2>1, <2>2, <1>7
  <2>4. ~ \A i \in DOMAIN w : w[i] # c
    BY <2>2, <2>3, <1>7
  <2> QED BY <2>1, <2>4, <1>6, <1>8, <1>10
<1> QED BY <1>9, <1>10

\* strlen, kstreq, the shell's streq, strcmp and strchr say of strings what they are
\* for, in every memory (kernel/util/string.c, stdlib/string.c).
THEOREM StringsCompared == ComparesStrings
<1> SUFFICES ASSUME NEW m \in Memories, NEW a \in Addrs, NEW b \in Addrs
             PROVE  /\ strlen(m, a) = Len(Str(m, a))
                    /\ kstreq(m, a, b) <=> Str(m, a) = Str(m, b)
                    /\ streq(m, a, b) <=> Str(m, a) = Str(m, b)
                    /\ strcmp(m, a, b) = 0 <=>
                         IsPrefix(Str(m, a), Str(m, b)) \/ IsPrefix(Str(m, b), Str(m, a))
                    /\ \A c \in Chars :
                         LET p == strchr(m, a, c)
                             w == Str(m, a)
                         IN  IF \A i \in DOMAIN w : w[i] # c THEN p = 0
                             ELSE m[p] = c /\ \A i \in 1 .. p - a : w[i] # c
  BY DEF ComparesStrings
<1>1. strlen(m, a) = Len(Str(m, a))
  BY EndIs, StrIs, StrlenIs
<1> QED BY <1>1, KstreqIs, StreqIs, StrcmpIs, StrchrFinds

-----------------------------------------------------------------------------
\* Copying memory.

\* m with the n characters from b on as put says.
Filled(m, b, n, put) == [x \in Addrs |-> IF x \in b .. b + n - 1 THEN put[x] ELSE m[x]]

\* memcpy, a byte after the other.
LEMMA MemcpyIs ==
  ASSUME NEW m \in Memories, NEW a \in Addrs, NEW b \in Addrs, NEW n \in Nat,
         a + n - 1 <= Final, b + n - 1 <= Final, b \notin a + 1 .. a + n - 1
  PROVE  memcpy(m, b, a, n) = [x \in Addrs |-> IF x \in b .. b + n - 1 THEN m[x - b + a] ELSE m[x]]
<1> DEFINE Rec(f) == f = [i \in 0 .. n |-> IF i = 0 THEN m
                           ELSE [f[i - 1] EXCEPT ![b + i - 1] = f[i - 1][a + i - 1]]]
           f == CHOOSE h : Rec(h)
           put == [x \in b .. b + n - 1 |-> m[x - b + a]]
           h == [i \in 0 .. n |-> Filled(m, b, i, put)]
<1>0. a \in Nat /\ b \in Nat /\ Final \in Nat /\ Addrs = 1 .. Final
  BY FinalIs
<1>1. memcpy(m, b, a, n) = f[n]
  BY DEF memcpy
<1>2. Filled(m, b, 0, put) = m
  <2>1. m = [x \in Addrs |-> m[x]]
    BY DEF Memories
  <2>2. \A x : x \notin b .. b + 0 - 1
    BY <1>0
  <2> HIDE DEF put
  <2> QED BY <2>1, <2>2 DEF Filled
<1>3. ASSUME NEW i \in 1 .. n
      PROVE  h[i] = [h[i - 1] EXCEPT ![b + i - 1] = h[i - 1][a + i - 1]]
  <2>1. i - 1 \in 0 .. n /\ i \in 0 .. n /\ b + i - 1 \in b .. b + n - 1 /\ b + i - 1 - b + a = a + i - 1
    BY <1>0
  <2>2. a + i - 1 \in Addrs /\ a + i - 1 \notin b .. b + (i - 1) - 1
    BY <1>0
  <2>3. h[i] = Filled(m, b, i, put) /\ h[i - 1] = Filled(m, b, i - 1, put)
    BY <2>1
  <2>4. h[i - 1][a + i - 1] = m[a + i - 1] /\ put[b + i - 1] = m[a + i - 1]
    <3>1. put[b + i - 1] = m[b + i - 1 - b + a]
      <4>1. PICK x : x = b + i - 1
        OBVIOUS
      <4>2. put[x] = m[x - b + a]
        BY <2>1, <4>1
      <4> HIDE DEF put
      <4> QED BY <1>0, <4>1, <4>2
    <3>2. Filled(m, b, i - 1, put)[a + i - 1] = m[a + i - 1]
      <4> HIDE DEF put
      <4> QED BY <2>2 DEF Filled
    <3> HIDE DEF h, put
    <3> QED BY <2>1, <2>3, <3>1, <3>2
  <2>5. \A x \in Addrs : x \in b .. b + i - 1 <=> x = b + i - 1 \/ x \in b .. b + (i - 1) - 1
    BY <1>0
  <2>6. b + i - 1 \notin b .. b + (i - 1) - 1
    BY <1>0
  <2> DEFINE v == m[a + i - 1]
  <2> HIDE DEF h, put, v
  <2>7. h[i] = [h[i - 1] EXCEPT ![b + i - 1] = v]
    BY <2>3, <2>4, <2>5, <2>6 DEF Filled, v
  <2> QED BY <2>4, <2>7 DEF v
<1>4. Rec(h)
  <2>1. h[0] = m
    BY <1>2
  <2>2. \A i \in 0 .. n : i # 0 => i \in 1 .. n
    OBVIOUS
  <2>3. h = [i \in 0 .. n |-> h[i]]
    OBVIOUS
  <2> HIDE DEF h
  <2> QED BY <2>1, <2>2, <2>3, <1>3
<1>5. Rec(f)
  <2> HIDE DEF Rec, h
  <2> QED BY <1>4
<1> HIDE DEF f
<1>6. f = h
  <2>1. UpTo(f, n) /\ UpTo(h, n)
    <3>1. f = [k \in 0 .. n |-> f[k]]
      <4> HIDE DEF h
      <4> QED BY <1>5
    <3> QED BY <3>1 DEF UpTo
  <2>2. SameNext(f, h, n)
    <3>1. f[0] = m /\ h[0] = m
      BY <1>5, <1>2
    <3>2. \A k \in 1 .. n : f[k] = [f[k - 1] EXCEPT ![b + k - 1] = f[k - 1][a + k - 1]]
      <4>1. \A k \in 1 .. n : k \in 0 .. n /\ k # 0
        OBVIOUS
      <4> HIDE DEF h
      <4> QED BY <4>1, <1>5
    <3> HIDE DEF h, Rec
    <3> QED BY <3>1, <3>2, <1>3 DEF SameNext
  <2> HIDE DEF h, Rec
  <2> QED BY <2>1, <2>2, Unique
<1>7. memcpy(m, b, a, n) = Filled(m, b, n, put)
  BY <1>1, <1>6
<1> QED BY <1>7 DEF Filled

\* memset.
LEMMA MemsetIs ==
  ASSUME NEW m \in Memories, NEW a \in Addrs, NEW n \in Nat, NEW c, a + n - 1 <= Final
  PROVE  memset(m, a, c, n) = [x \in Addrs |-> IF x \in a .. a + n - 1 THEN c ELSE m[x]]
<1> DEFINE Rec(f) == f = [i \in 0 .. n |-> IF i = 0 THEN m ELSE [f[i - 1] EXCEPT ![a + i - 1] = c]]
           f == CHOOSE h : Rec(h)
           put == [x \in a .. a + n - 1 |-> c]
           h == [i \in 0 .. n |-> Filled(m, a, i, put)]
<1>0. a \in Nat /\ Final \in Nat /\ Addrs = 1 .. Final
  BY FinalIs
<1>1. memset(m, a, c, n) = f[n]
  BY DEF memset
<1>2. Filled(m, a, 0, put) = m
  <2>1. m = [x \in Addrs |-> m[x]]
    BY DEF Memories
  <2>2. \A x : x \notin a .. a + 0 - 1
    BY <1>0
  <2> HIDE DEF put
  <2> QED BY <2>1, <2>2 DEF Filled
<1>3. ASSUME NEW i \in 1 .. n
      PROVE  h[i] = [h[i - 1] EXCEPT ![a + i - 1] = c]
  <2>1. i - 1 \in 0 .. n /\ i \in 0 .. n /\ a + i - 1 \in a .. a + n - 1
    BY <1>0
  <2>3. h[i] = Filled(m, a, i, put) /\ h[i - 1] = Filled(m, a, i - 1, put)
    BY <2>1
  <2>4. put[a + i - 1] = c
    BY <2>1
  <2>5. \A x \in Addrs : x \in a .. a + i - 1 <=> x = a + i - 1 \/ x \in a .. a + (i - 1) - 1
    BY <1>0
  <2>6. a + i - 1 \notin a .. a + (i - 1) - 1
    BY <1>0
  <2> HIDE DEF h, put
  <2> QED BY <2>3, <2>4, <2>5, <2>6 DEF Filled
<1>4. Rec(h)
  <2>1. h[0] = m
    BY <1>2
  <2>2. \A i \in 0 .. n : i # 0 => i \in 1 .. n
    OBVIOUS
  <2>3. h = [i \in 0 .. n |-> h[i]]
    OBVIOUS
  <2> HIDE DEF h
  <2> QED BY <2>1, <2>2, <2>3, <1>3
<1>5. Rec(f)
  <2> HIDE DEF Rec, h
  <2> QED BY <1>4
<1> HIDE DEF f
<1>6. f = h
  <2>1. UpTo(f, n) /\ UpTo(h, n)
    <3>1. f = [k \in 0 .. n |-> f[k]]
      <4> HIDE DEF h
      <4> QED BY <1>5
    <3> QED BY <3>1 DEF UpTo
  <2>2. SameNext(f, h, n)
    <3>1. f[0] = m /\ h[0] = m
      BY <1>5, <1>2
    <3>2. \A k \in 1 .. n : f[k] = [f[k - 1] EXCEPT ![a + k - 1] = c]
      <4>1. \A k \in 1 .. n : k \in 0 .. n /\ k # 0
        OBVIOUS
      <4> HIDE DEF h
      <4> QED BY <4>1, <1>5
    <3> HIDE DEF h, Rec
    <3> QED BY <3>1, <3>2, <1>3 DEF SameNext
  <2> HIDE DEF h, Rec
  <2> QED BY <2>1, <2>2, Unique
<1>7. memset(m, a, c, n) = Filled(m, a, n, put)
  BY <1>1, <1>6
<1> QED BY <1>7 DEF Filled

\* strcpy copies the string and its end.
LEMMA StrcpyIs ==
  ASSUME NEW m \in Memories, NEW a \in Addrs, NEW b \in Addrs,
         b + strlen(m, a) <= Final, b \notin a + 1 .. a + strlen(m, a)
  PROVE  /\ Str(strcpy(m, b, a), b) = Str(m, a)
         /\ \A x \in Addrs \ (b .. b + strlen(m, a)) : strcpy(m, b, a)[x] = m[x]
<1>1. PICK e : EndAt(m, a, e)
  BY EndIs
<1> DEFINE n == e - a
           w == [x \in Addrs |-> IF x \in b .. b + n - 1 THEN m[x - b + a] ELSE m[x]]
           z == [w EXCEPT ![b + n] = 0]
<1>2. /\ a \in Nat /\ b \in Nat /\ e \in Nat /\ n \in Nat /\ Final \in Nat /\ Addrs = 1 .. Final
      /\ strlen(m, a) = n /\ a + n = e /\ e \in Addrs
  <2>1. strlen(m, a) = e - a
    BY <1>1, StrlenIs
  <2>2. a \in Nat /\ b \in Nat /\ e \in Nat /\ e >= a /\ e \in Addrs
    BY <1>1, FinalIs DEF EndAt
  <2> QED BY <2>1, <2>2, FinalIs
<1>3. a + n - 1 <= Final /\ b + n - 1 <= Final /\ b \notin a + 1 .. a + n - 1
      /\ b + n \in Addrs /\ b + n <= Final
  BY <1>2
<1>4. memcpy(m, b, a, n) = w
  <2> HIDE DEF n
  <2> QED BY <1>2, <1>3, MemcpyIs
<1>5. strcpy(m, b, a) = z
  <2> HIDE DEF n, w
  <2> QED BY <1>2, <1>4 DEF strcpy
<1>6. \A x \in Addrs \ (b .. b + n) : z[x] = m[x]
  <2>1. \A x \in Addrs \ (b .. b + n) : x # b + n /\ x \notin b .. b + n - 1
    BY <1>2
  <2> HIDE DEF n
  <2> QED BY <2>1
<1>7. \A x \in b .. b + n - 1 : z[x] = m[x - b + a] /\ x - b + a \in a .. e - 1 /\ x \in Addrs
  <2> TAKE x \in b .. b + n - 1
  <2>1. x # b + n /\ x \in Addrs /\ x - b + a \in a .. e - 1
    BY <1>2, <1>3
  <2> HIDE DEF n
  <2> QED BY <2>1
<1>8. z[b + n] = 0
  BY <1>3
<1>9. z \in Memories
  <2>1. z \in [Addrs -> Chars]
    <3>0. m \in [Addrs -> Chars] /\ 0 \in Chars
      BY LibraryAssumption DEF Memories
    <3>1. \A x \in Addrs : w[x] \in Chars
      <4> TAKE x \in Addrs
      <4>1. CASE x \in b .. b + n - 1
        <5>1. x - b + a \in Addrs
          BY <1>2, <4>1
        <5> HIDE DEF n
        <5> QED BY <5>1, <4>1, <3>0
      <4>2. CASE x \notin b .. b + n - 1
        <5> HIDE DEF n
        <5> QED BY <4>2, <3>0
      <4> QED BY <4>1, <4>2
    <3>2. w = [x \in Addrs |-> w[x]]
      OBVIOUS
    <3>3. b + n \in Addrs
      BY <1>3
    <3> HIDE DEF w, n
    <3>4. \A x \in Addrs : z[x] \in Chars
      BY <3>0, <3>1, <3>2, <3>3
    <3>5. z = [x \in Addrs |-> z[x]]
      BY <3>2
    <3> HIDE DEF z
    <3> QED BY <3>4, <3>5
  <2>2. z[Final] = 0
    <3>1. Final \in Addrs /\ (Final # b + n => Final \notin b .. b + n)
      BY <1>2, <1>3
    <3>2. m[Final] = 0
      BY DEF Memories
    <3> HIDE DEF z, n
    <3> QED BY <3>1, <3>2, <1>6, <1>8
  <2> HIDE DEF z
  <2> QED BY <2>1, <2>2 DEF Memories
<1> HIDE DEF z, w
<1>10. EndAt(z, b, b + n)
  <2>1. \A d \in b .. b + n - 1 : z[d] # 0
    BY <1>1, <1>7 DEF EndAt
  <2>2. b + n \in Addrs /\ b + n >= b
    BY <1>2, <1>3
  <2> HIDE DEF n
  <2> QED BY <1>2, <2>1, <2>2, <1>8 DEF EndAt
<1>11. /\ Str(z, b) \in Seq(Chars \ {0}) /\ Len(Str(z, b)) = b + n - b
       /\ \A i \in 1 .. b + n - b : Str(z, b)[i] = z[b + i - 1]
  <2> HIDE DEF n
  <2>1. PICK x : x = b + n
    OBVIOUS
  <2>2. EndAt(z, b, x)
    BY <2>1, <1>10
  <2>3. /\ Str(z, b) \in Seq(Chars \ {0}) /\ Len(Str(z, b)) = x - b
        /\ \A i \in 1 .. x - b : Str(z, b)[i] = z[b + i - 1]
    BY <2>2, <1>9, StrIs
  <2> QED BY <1>2, <2>1, <2>3
<1>12. /\ Str(m, a) \in Seq(Chars \ {0}) /\ Len(Str(m, a)) = n
       /\ \A i \in 1 .. n : Str(m, a)[i] = m[a + i - 1]
  BY <1>1, StrIs
<1>13. ASSUME NEW i \in 1 .. n PROVE Str(z, b)[i] = Str(m, a)[i]
  <2>1. i \in 1 .. b + n - b /\ b + i - 1 \in b .. b + n - 1 /\ b + i - 1 - b + a = a + i - 1
    BY <1>2
  <2> HIDE DEF n
  <2>2. Str(z, b)[i] = z[b + i - 1]
    BY <2>1, <1>11
  <2>3. z[b + i - 1] = m[b + i - 1 - b + a]
    <3>1. PICK x : x = b + i - 1
      OBVIOUS
    <3>2. x \in b .. b + n - 1
      BY <2>1, <3>1
    <3>3. z[x] = m[x - b + a]
      BY <3>2, <1>7
    <3> QED BY <1>2, <3>1, <3>3
  <2>4. Str(m, a)[i] = m[a + i - 1]
    BY <1>2, <1>12
  <2> QED BY <1>2, <2>1, <2>2, <2>3, <2>4
<1>14. Str(z, b) = Str(m, a)
  <2>0. b + n - b = n
    BY <1>2
  <2>1. Len(Str(z, b)) = Len(Str(m, a))
    BY <2>0, <1>11, <1>12
  <2> DEFINE s == Str(z, b)
             t == Str(m, a)
  <2> HIDE DEF n, s, t
  <2>2. s = t
    <3>1. s \in Seq(Chars \ {0}) /\ t \in Seq(Chars \ {0}) /\ Len(s) = Len(t)
          /\ \A i \in 1 .. Len(s) : s[i] = t[i]
      BY <2>0, <2>1, <1>11, <1>12, <1>13 DEF s, t
    <3> QED BY <3>1, SeqEqual
  <2> QED BY <2>2 DEF s, t
<1> HIDE DEF n
<1> QED BY <1>2, <1>5, <1>6, <1>14

\* memcpy, memset and strcpy write what they are to, and nothing else
\* (kernel/util/string.c, stdlib/string.c).
THEOREM CopiesAreExact == CopiesExact
<1> SUFFICES ASSUME NEW m \in Memories, NEW a \in Addrs, NEW b \in Addrs
             PROVE
     /\ \A n \in 0 .. Final :
          a + n - 1 <= Final /\ b + n - 1 <= Final /\ b \notin a + 1 .. a + n - 1 =>
            memcpy(m, b, a, n) = [x \in Addrs |-> IF x \in b .. b + n - 1 THEN m[x - b + a] ELSE m[x]]
     /\ \A n \in 0 .. Final, c \in Chars :
          a + n - 1 <= Final =>
            memset(m, a, c, n) = [x \in Addrs |-> IF x \in a .. a + n - 1 THEN c ELSE m[x]]
     /\ LET n == strlen(m, a)
        IN  b + n <= Final /\ b \notin a + 1 .. a + n =>
              /\ Str(strcpy(m, b, a), b) = Str(m, a)
              /\ \A x \in Addrs \ (b .. b + n) : strcpy(m, b, a)[x] = m[x]
  BY DEF CopiesExact
<1>1. ASSUME NEW n \in 0 .. Final, a + n - 1 <= Final, b + n - 1 <= Final, b \notin a + 1 .. a + n - 1
      PROVE  memcpy(m, b, a, n) = [x \in Addrs |-> IF x \in b .. b + n - 1 THEN m[x - b + a] ELSE m[x]]
  <2>1. n \in Nat
    BY FinalIs
  <2> QED BY <2>1, <1>1, MemcpyIs
<1>2. ASSUME NEW n \in 0 .. Final, NEW c \in Chars, a + n - 1 <= Final
      PROVE  memset(m, a, c, n) = [x \in Addrs |-> IF x \in a .. a + n - 1 THEN c ELSE m[x]]
  <2>1. n \in Nat
    BY FinalIs
  <2> QED BY <2>1, <1>2, MemsetIs
<1> QED BY <1>1, <1>2, StrcpyIs

-----------------------------------------------------------------------------
\* Dividing lines.

\* The word that a line begins with, up to a c, and the rest of it after that; the
\* word ends where k is the first c, or after the end.  (The SMT backend cannot read
\* a space in quotes, so it has a name.)
Space == " "
StopAt(line, c) == LET n[i \in 1 .. Len(line) + 1] ==
                         IF i <= Len(line) /\ line[i] # c THEN n[i + 1] ELSE i - 1
                   IN  n[1]
WordTo(line, c) == SubSeq(line, 1, StopAt(line, c))
RestFrom(line, c) == SubSeq(line, StopAt(line, c) + 2, Len(line))

WordEnds(line, c, k) ==
  /\ k \in 1 .. Len(line) + 1 /\ (k = Len(line) + 1 \/ line[k] = c)
  /\ \A i \in 1 .. k - 1 : line[i] # c

LEMMA StopSpace ==
  \A line : CmdLen(line) = StopAt(line, Space) /\ Arg(line) = RestFrom(line, Space)
<1> SUFFICES ASSUME NEW line
             PROVE  CmdLen(line) = StopAt(line, Space) /\ Arg(line) = RestFrom(line, Space)
  OBVIOUS
<1>1. CmdLen(line) = StopAt(line, Space)
  BY Zenon DEF CmdLen, StopAt, Space
<1> QED BY <1>1, Zenon DEF Arg, RestFrom

\* CmdLen: the recursion over the letters of the line.
LEMMA StopIs ==
  ASSUME NEW S, NEW line \in Seq(S), NEW c, NEW k, WordEnds(line, c, k)
  PROVE  StopAt(line, c) = k - 1
<1> DEFINE L == Len(line)
           D == 1 .. L + 1
           Rec(f) == f = [i \in D |-> IF i <= L /\ line[i] # c THEN f[i + 1] ELSE i - 1]
           f == CHOOSE h : Rec(h)
           none == {}
           stop == { i \in D : i = L + 1 \/ line[i] = c }
           a == [i \in D |-> i - 1]
           p == [i \in D |-> i + 1]
           mu == [i \in D |-> L + 1 - i]
<1>0. L \in Nat
  BY LenProperties
<1>1. StopAt(line, c) = f[1]
  BY DEF StopAt
<1> HIDE DEF L
<1>2. Lower(D, stop, p, mu)
  BY <1>0 DEF Lower
<1>3. PICK h : Descends(h, D, stop, none, a, p)
  <2> HIDE DEF stop, none, a, p, mu, D
  <2> QED BY <1>2, Descent
<1>4. h = [x \in D |-> h[x]] /\ \A x \in D : h[x] = Goes(h, x, stop, none, a, p)
  BY <1>3 DEF Descends
<1>5. Rec(h)
  <2>1. ASSUME NEW x \in D PROVE h[x] = IF x <= L /\ line[x] # c THEN h[x + 1] ELSE x - 1
    <3>1. x \in stop <=> ~ (x <= L /\ line[x] # c)
      BY <1>0
    <3>2. x \in stop => h[x] = x - 1
      BY <1>4 DEF Goes
    <3>3. x \notin stop => h[x] = h[x + 1]
      <4>1. x \notin stop => p[x] = x + 1
        OBVIOUS
      <4>2. x \notin stop => h[x] = h[p[x]]
        BY <1>4 DEF Goes
      <4> HIDE DEF stop, p
      <4> QED BY <4>1, <4>2
    <3> HIDE DEF stop
    <3> QED BY <3>1, <3>2, <3>3
  <2>2. h = [x \in D |-> h[x]]
    BY <1>4
  <2> HIDE DEF D
  <2> QED BY <2>1, <2>2
<1>6. Rec(f)
  <2> HIDE DEF Rec
  <2> QED BY <1>5
<1> HIDE DEF f
<1>7. \A i \in D : f[i] = IF i <= L /\ line[i] # c THEN f[i + 1] ELSE i - 1
  BY <1>6
<1>8. k \in 1 .. L + 1 /\ (k = L + 1 \/ line[k] = c) /\ \A i \in 1 .. k - 1 : line[i] # c
  BY DEF WordEnds, L
<1> DEFINE T == { j \in 0 .. k - 1 : f[k - j] = k - 1 }
<1>9. 0 \in T
  BY <1>0, <1>7, <1>8
<1>10. ASSUME NEW j \in 1 .. k - 1, j - 1 \in T PROVE j \in T
  <2>1. k - j \in D /\ k - j \in 1 .. k - 1 /\ k - j <= L /\ k - j + 1 = k - (j - 1) /\ f[k - (j - 1)] = k - 1
    BY <1>0, <1>8, <1>10
  <2>2. line[k - j] # c
    BY <2>1, <1>8
  <2>3. f[k - j] = f[k - j + 1]
    BY <2>1, <2>2, <1>7
  <2> QED BY <2>1, <2>3, <1>0
<1>11. 0 .. k - 1 \subseteq T
  <2> HIDE DEF T
  <2>1. \A j \in 1 .. k - 1 : j - 1 \in T => j \in T
    BY <1>10
  <2>2. k - 1 \in Nat
    BY <1>8
  <2> QED BY <2>1, <2>2, <1>9, UpToAll
<1>12. f[1] = k - 1
  <2>1. k - (k - 1) = 1 /\ k - 1 \in 0 .. k - 1
    BY <1>8
  <2> QED BY <2>1, <1>11
<1> QED BY <1>1, <1>12

\* A word goes up to the first space, or to the end.
LEMMA WordEndsAt ==
  ASSUME NEW S, NEW line \in Seq(S), NEW c
  PROVE  \E k : WordEnds(line, c, k)
<1> DEFINE L == Len(line)
           Q == { i \in Nat : i \in 1 .. L + 1 /\ (i = L + 1 \/ line[i] = c) }
<1>0. L \in Nat
  BY LenProperties
<1>1. PICK k \in Q : \A i \in Q : k <= i
  <2>1. L + 1 \in Q /\ Q \in SUBSET Nat
    BY <1>0
  <2>2. Q # {}
    BY <2>1
  <2> HIDE DEF Q
  <2> QED BY <2>1, <2>2, Least
<1> HIDE DEF L
<1>2. ASSUME NEW i \in 1 .. k - 1 PROVE line[i] # c
  <2>1. i \in Nat /\ i \in 1 .. L + 1 /\ ~ (k <= i)
    BY <1>0
  <2> QED BY <2>1, <1>1
<1> QED BY <1>0, <1>1, <1>2 DEF WordEnds, L

\* What Reverse does.
LEMMA ReverseOf ==
  ASSUME NEW S, NEW s \in Seq(S)
  PROVE  /\ Reverse(s) \in Seq(S) /\ Len(Reverse(s)) = Len(s)
         /\ \A i \in 1 .. Len(s) : Reverse(s)[i] = s[Len(s) - i + 1]
<1>1. Len(s) \in Nat /\ \A i \in 1 .. Len(s) : s[i] \in S
  BY LenProperties, ElementOfSeq
<1> DEFINE n == Len(s)
<1> HIDE DEF n
<1>2. Reverse(s) = [i \in 1 .. n |-> s[(n - i) + 1]]
  BY DEF Reverse, n
<1>3. \A i \in 1 .. n : s[(n - i) + 1] \in S
  <2>1. \A i \in 1 .. n : (n - i) + 1 \in 1 .. n
    BY <1>1 DEF n
  <2> QED BY <2>1, <1>1 DEF n
<1>4. n \in Nat
  BY <1>1 DEF n
<1>5. Reverse(s) \in Seq(S) /\ Len(Reverse(s)) = n /\ \A i \in 1 .. n : Reverse(s)[i] = s[n - i + 1]
  BY <1>2, <1>3, <1>4
<1> QED BY <1>5 DEF n

\* What comes last in a sequence is a suffix of it.
LEMMA LastPart ==
  ASSUME NEW S, NEW s \in Seq(S), NEW t \in Seq(S)
  PROVE  IsSuffix(t, s \o t)
<1> DEFINE u == s \o t
<1>1. u \in Seq(S) /\ Len(u) = Len(s) + Len(t) /\ Len(s) \in Nat /\ Len(t) \in Nat
      /\ \A i \in 1 .. Len(s) + Len(t) : u[i] = IF i <= Len(s) THEN s[i] ELSE t[i - Len(s)]
  BY ConcatProperties, LenProperties
<1> HIDE DEF u
<1> DEFINE r == Reverse(t)
           v == Reverse(u)
<1>2. /\ r \in Seq(S) /\ Len(r) = Len(t) /\ \A i \in 1 .. Len(t) : r[i] = t[Len(t) - i + 1]
      /\ v \in Seq(S) /\ Len(v) = Len(u) /\ \A i \in 1 .. Len(u) : v[i] = u[Len(u) - i + 1]
  BY <1>1, ReverseOf
<1> HIDE DEF r, v
<1>3. ASSUME NEW i \in 1 .. Len(t) PROVE r[i] = v[i]
  <2>1. i \in 1 .. Len(u) /\ Len(u) - i + 1 \in 1 .. Len(s) + Len(t) /\ ~ (Len(u) - i + 1 <= Len(s))
        /\ Len(u) - i + 1 - Len(s) = Len(t) - i + 1
    BY <1>1
  <2>2. PICK j : j = Len(u) - i + 1
    OBVIOUS
  <2>3. u[j] = t[j - Len(s)] /\ v[i] = u[j]
    BY <2>1, <2>2, <1>1, <1>2
  <2> QED BY <2>1, <2>2, <2>3, <1>1, <1>2
<1>4. IsPrefix(r, v)
  <2>1. Len(r) <= Len(v) /\ \A i \in 1 .. Len(r) : r[i] = v[i]
    BY <1>1, <1>2, <1>3
  <2> QED BY <2>1, <1>2, SamePrefix
<1> QED BY <1>4 DEF IsSuffix, r, v, u

\* The word and the rest make up the line.
LEMMA WordAndRest ==
  ASSUME NEW S, NEW line \in Seq(S), NEW c \in S
  PROVE  LET cmd == WordTo(line, c) arg == RestFrom(line, c)
         IN  /\ cmd \in Seq(S) /\ \A i \in DOMAIN cmd : cmd[i] # c
             /\ (line = cmd /\ arg = << >>) \/ line = cmd \o << c >> \o arg
<1> DEFINE L == Len(line)
           cmd == WordTo(line, c)
           arg == RestFrom(line, c)
<1>0. L \in Nat /\ \A i \in 1 .. L : line[i] \in S
  BY LenProperties, ElementOfSeq
<1>1. PICK k : WordEnds(line, c, k)
  BY WordEndsAt
<1>2. k \in 1 .. L + 1 /\ (k = L + 1 \/ line[k] = c) /\ \A i \in 1 .. k - 1 : line[i] # c
  BY <1>1 DEF WordEnds
<1>2b. StopAt(line, c) = k - 1
  BY <1>1, StopIs
<1>3. cmd = SubSeq(line, 1, k - 1)
  BY <1>2b DEF WordTo
<1> HIDE DEF cmd, L
<1>4. cmd \in Seq(S) /\ Len(cmd) = k - 1 /\ DOMAIN cmd = 1 .. k - 1
      /\ \A i \in 1 .. k - 1 : cmd[i] = line[i]
  <2>1. 1 \in Int /\ k - 1 \in Int /\ \A i \in 1 .. k - 1 : line[i] \in S
    BY <1>0, <1>2
  <2>2. /\ SubSeq(line, 1, k - 1) \in Seq(S)
        /\ Len(SubSeq(line, 1, k - 1)) = IF 1 <= k - 1 THEN k - 1 - 1 + 1 ELSE 0
        /\ \A i \in 1 .. k - 1 - 1 + 1 : SubSeq(line, 1, k - 1)[i] = line[1 + i - 1]
    BY <2>1, SubSeqProperties
  <2>3. cmd \in Seq(S) /\ Len(cmd) = k - 1 /\ \A i \in 1 .. k - 1 : cmd[i] = line[i]
    BY <2>2, <1>2, <1>3
  <2> QED BY <2>3, LenProperties
<1>5. \A i \in DOMAIN cmd : cmd[i] # c
  BY <1>2, <1>4
<1>6. arg = SubSeq(line, k + 1, L)
  <2>1. arg = SubSeq(line, StopAt(line, c) + 2, L)
    BY DEF RestFrom, L
  <2>2. StopAt(line, c) + 2 = k + 1
    BY <1>2, <1>2b
  <2> QED BY <2>1, <2>2
<1> HIDE DEF arg
<1>7. /\ arg \in Seq(S)
      /\ Len(arg) = IF k + 1 <= L THEN L - k ELSE 0
      /\ \A i \in 1 .. L - k : arg[i] = line[k + i]
  <2>1. k + 1 \in Int /\ L \in Int /\ \A i \in k + 1 .. L : line[i] \in S
    BY <1>0, <1>2
  <2>2. /\ SubSeq(line, k + 1, L) \in Seq(S)
        /\ Len(SubSeq(line, k + 1, L)) = IF k + 1 <= L THEN L - (k + 1) + 1 ELSE 0
        /\ \A i \in 1 .. L - (k + 1) + 1 : SubSeq(line, k + 1, L)[i] = line[k + 1 + i - 1]
    BY <2>1, SubSeqProperties
  <2>3. L - (k + 1) + 1 = L - k /\ \A i \in 1 .. L - k : k + 1 + i - 1 = k + i
    BY <1>0, <1>2
  <2>4. /\ arg \in Seq(S)
        /\ Len(arg) = IF k + 1 <= L THEN L - k ELSE 0
        /\ \A i \in 1 .. L - k : arg[i] = line[k + 1 + i - 1]
    BY <2>2, <2>3, <1>6
  <2>5. ASSUME NEW i \in 1 .. L - k PROVE arg[i] = line[k + i]
    <3>1. k + 1 + i - 1 = k + i /\ arg[i] = line[k + 1 + i - 1]
      BY <2>3, <2>4
    <3> QED BY <3>1, <1>0, <1>2
  <2> QED BY <2>4, <2>5
<1>7b. arg \in Seq(S) /\ Len(arg) \in Nat
  BY <1>7, LenProperties
<1>8. CASE k = L + 1
  <2>1. arg = << >>
    <3>1. Len(arg) = 0
      BY <1>0, <1>7, <1>8
    <3> QED BY <3>1, <1>7b, EmptySeq
  <2>2. line = cmd
    <3>1. Len(line) = Len(cmd) /\ \A i \in 1 .. Len(line) : line[i] = cmd[i]
      BY <1>0, <1>4, <1>8 DEF L
    <3> QED BY <3>1, <1>4, SeqEqual
  <2> QED BY <2>1, <2>2, <1>4, <1>5 DEF cmd, arg
<1>9. CASE k # L + 1
  <2> DEFINE b == << c >>
             u == cmd \o b
             v == u \o arg
  <2>1. b \in Seq(S) /\ Len(b) = 1 /\ b[1] = c
    OBVIOUS
  <2> HIDE DEF b
  <2>2. u \in Seq(S) /\ Len(u) = Len(cmd) + Len(b)
        /\ \A i \in 1 .. Len(cmd) + Len(b) : u[i] = IF i <= Len(cmd) THEN cmd[i] ELSE b[i - Len(cmd)]
    BY <2>1, <1>4, ConcatProperties
  <2> HIDE DEF u
  <2>2b. u \in Seq(S)
    BY <2>2
  <2>3. v \in Seq(S) /\ Len(v) = Len(u) + Len(arg)
        /\ \A i \in 1 .. Len(u) + Len(arg) : v[i] = IF i <= Len(u) THEN u[i] ELSE arg[i - Len(u)]
    BY <2>2b, <1>7b, ConcatProperties
  <2> HIDE DEF v
  <2>4. Len(u) = k /\ Len(arg) = L - k /\ Len(v) = L
    <3>1. Len(cmd) = k - 1 /\ Len(b) = 1 /\ Len(u) = Len(cmd) + Len(b) /\ Len(v) = Len(u) + Len(arg)
      BY <1>4, <2>1, <2>2, <2>3
    <3>2. Len(arg) = IF k + 1 <= L THEN L - k ELSE 0
      BY <1>0, <1>2, <1>7
    <3> QED BY <1>0, <1>2, <1>9, <3>1, <3>2
  <2>5. ASSUME NEW i \in 1 .. L PROVE line[i] = v[i]
    <3>0. i \in Nat /\ k \in Nat /\ L \in Nat /\ k <= L /\ i >= 1 /\ i <= L /\ k >= 1
      BY <1>0, <1>2, <1>9
    <3>4. v[i] = IF i <= k THEN u[i] ELSE arg[i - k]
      <4>1. i \in 1 .. Len(u) + Len(arg)
        BY <2>4, <3>0
      <4>2. v[i] = IF i <= Len(u) THEN u[i] ELSE arg[i - Len(u)]
        BY <4>1, <2>3
      <4> QED BY <4>2, <2>4
    <3>5. i <= k => u[i] = IF i <= k - 1 THEN cmd[i] ELSE b[i - (k - 1)]
      <4>1. Len(cmd) = k - 1 /\ Len(b) = 1
        BY <1>4, <2>1
      <4>2. i <= k => i \in 1 .. Len(cmd) + Len(b)
        BY <4>1, <3>0
      <4>3. i <= k => u[i] = IF i <= Len(cmd) THEN cmd[i] ELSE b[i - Len(cmd)]
        BY <4>2, <2>2
      <4> QED BY <4>1, <4>3
    <3>1. CASE i < k
      <4>1. i <= k /\ i <= k - 1 /\ i \in 1 .. k - 1
        BY <3>0, <3>1
      <4>2. cmd[i] = line[i]
        BY <4>1, <1>4
      <4> QED BY <4>1, <4>2, <3>4, <3>5
    <3>2. CASE i = k
      <4>1. i <= k /\ ~ (i <= k - 1) /\ i - (k - 1) = 1
        BY <3>0, <3>2
      <4>2. v[i] = b[1]
        BY <4>1, <3>4, <3>5
      <4> QED BY <4>2, <3>2, <2>1, <1>2, <1>9
    <3>3. CASE i > k
      <4>1. ~ (i <= k) /\ i - k \in 1 .. L - k /\ k + (i - k) = i
        BY <3>0, <3>3
      <4>2. PICK j : j = i - k
        OBVIOUS
      <4>3. arg[j] = line[k + j] /\ k + j = i
        BY <4>1, <4>2, <3>0, <1>7
      <4> QED BY <4>1, <4>2, <4>3, <3>4
    <3> QED BY <3>0, <3>1, <3>2, <3>3
  <2>6. line = v
    <3>1. Len(line) = Len(v) /\ \A i \in 1 .. Len(line) : line[i] = v[i]
      BY <2>4, <2>5 DEF L
    <3> QED BY <3>1, <2>3, SeqEqual
  <2> QED BY <2>6, <1>4, <1>5 DEF cmd, arg, u, v, b
<1> QED BY <1>8, <1>9

\* The string in memory, after the copy: the word, with its end behind it.
LEMMA CmdIs ==
  ASSUME NEW S, Nul \notin S, NEW line \in Seq(S), Len(line) <= MaxText, NEW old
  PROVE  LET cells == CopyCmd(old, line) cmd == WordTo(line, Space)
         IN  /\ Cmd(cells) = cmd /\ Len(cmd) \in Cells
             /\ \A x \in Cells : x > Len(cmd) => cells[x] = old[x]
             /\ cells[Len(cmd)] = Nul
             /\ cmd # << >> => cells[0] = cmd[1]
<1> DEFINE cells == CopyCmd(old, line)
           cmd == WordTo(line, Space)
<1>0. Len(line) \in Nat /\ MaxText \in Nat /\ \A i \in 1 .. Len(line) : line[i] \in S
  BY LibraryAssumption, LenProperties, ElementOfSeq
<1>1. PICK k : WordEnds(line, Space, k)
  BY WordEndsAt
<1>2. k \in 1 .. Len(line) + 1
  BY <1>1 DEF WordEnds
<1> DEFINE n == k - 1
<1>3. n \in Nat /\ n <= Len(line) /\ n \in Cells
  BY <1>0, <1>2 DEF Cells
<1>4. CmdLen(line) = n
  BY <1>1, StopIs, StopSpace
<1>5. cmd = SubSeq(line, 1, n)
  <2>1. StopAt(line, Space) = n
    BY <1>1, StopIs
  <2> QED BY <2>1 DEF WordTo
<1> HIDE DEF n, cmd
<1>6. /\ cmd \in Seq(S) /\ Len(cmd) = n
      /\ \A i \in 1 .. n : cmd[i] = line[i]
  <2>1. 1 \in Int /\ n \in Int /\ \A i \in 1 .. n : line[i] \in S
    BY <1>0, <1>3
  <2>2. /\ SubSeq(line, 1, n) \in Seq(S)
        /\ Len(SubSeq(line, 1, n)) = IF 1 <= n THEN n - 1 + 1 ELSE 0
        /\ \A i \in 1 .. n - 1 + 1 : SubSeq(line, 1, n)[i] = line[1 + i - 1]
    BY <2>1, SubSeqProperties
  <2> QED BY <2>2, <1>3, <1>5
<1>7. \A x \in Cells : /\ x < n => cells[x] = line[x + 1]
                       /\ x = n => cells[x] = Nul
                       /\ x > n => cells[x] = old[x]
  <2>1. ASSUME NEW x \in Cells PROVE cells[x] = CASE x < n -> line[x + 1] [] x = n -> Nul [] x > n -> old[x]
    BY <1>4 DEF CopyCmd
  <2>2. \A x \in Cells : x \in Nat
    BY <1>0 DEF Cells
  <2> QED BY <2>1, <2>2, <1>3
<1> HIDE DEF cells
<1> DEFINE First(x) == x \in Cells /\ cells[x] = Nul /\ \A y \in 0 .. x - 1 : cells[y] # Nul
           e == CHOOSE x \in Cells : cells[x] = Nul /\ \A y \in 0 .. x - 1 : cells[y] # Nul
<1>8. ASSUME NEW x \in Cells, x < n PROVE cells[x] # Nul
  <2>1. x + 1 \in 1 .. Len(line)
    BY <1>0, <1>3, <1>8 DEF Cells
  <2> QED BY <2>1, <1>0, <1>7, <1>8
<1>9. First(n)
  <2>1. \A y \in 0 .. n - 1 : y \in Cells /\ y < n
    BY <1>0, <1>3 DEF Cells
  <2> QED BY <2>1, <1>3, <1>7, <1>8
<1>10. \A x \in Cells : First(x) => x = n
  <2>1. ASSUME NEW x \in Cells, First(x) PROVE x = n
    <3>1. x \in Nat
      BY <1>0 DEF Cells
    <3>2. ~ (x < n)
      BY <1>8, <2>1
    <3>3. x > n => n \in 0 .. x - 1
      BY <3>1, <1>3
    <3> QED BY <3>1, <3>2, <3>3, <1>3, <1>9, <2>1
  <2> QED BY <2>1
<1>11. e = n
  BY <1>9, <1>10, Zenon
<1>12. Cmd(cells) = [i \in 1 .. n |-> cells[i - 1]]
  <2>1. Cmd(cells) = [i \in 1 .. e |-> cells[i - 1]]
    BY Zenon DEF Cmd
  <2> HIDE DEF e
  <2> QED BY <2>1, <1>11
<1>13. ASSUME NEW i \in 1 .. n PROVE cells[i - 1] = cmd[i] /\ cmd[i] \in S
  <2>1. i - 1 \in Cells /\ i - 1 < n /\ i - 1 + 1 = i /\ i \in 1 .. Len(line)
    BY <1>0, <1>3 DEF Cells
  <2>2. PICK j : j = i - 1
    OBVIOUS
  <2>3. cells[j] = line[j + 1]
    BY <2>1, <2>2, <1>7
  <2> QED BY <2>1, <2>2, <2>3, <1>0, <1>6
<1>14. Cmd(cells) = cmd
  <2> DEFINE s == [i \in 1 .. n |-> cells[i - 1]]
  <2>0. \A i \in 1 .. n : cells[i - 1] \in S /\ cells[i - 1] = cmd[i]
    BY <1>13
  <2>1. s \in Seq(S) /\ Len(s) = n /\ \A i \in 1 .. n : s[i] = cmd[i]
    <3>1. s \in [1 .. n -> S]
      BY <2>0
    <3>2. \A i \in 1 .. n : s[i] = cmd[i]
      BY <2>0
    <3> HIDE DEF s
    <3> QED BY <3>1, <3>2, <1>3
  <2> HIDE DEF s
  <2>2. s = cmd
    BY <2>1, <1>6, SeqEqual
  <2> QED BY <2>2, <1>12 DEF s
<1>15. cmd # << >> => cells[0] = cmd[1]
  <2>1. n = 0 => cmd = << >>
    BY <1>6, EmptySeq
  <2>2. n # 0 => 1 \in 1 .. n /\ 1 - 1 = 0
    BY <1>3
  <2> QED BY <2>1, <2>2, <1>13
<1> QED BY <1>3, <1>6, <1>7, <1>14, <1>15, Zenon DEF cells, cmd

Divided(old, line) ==
  LET cells == CopyCmd(old, line) cmd == Cmd(cells) arg == Arg(line)
  IN  /\ \A i \in DOMAIN cmd : cmd[i] # Space
      /\ (line = cmd /\ arg = << >>) \/ line = cmd \o << Space >> \o arg
      /\ PathOf(cells, << "/", "b", "/" >>)[1] = "/"
      /\ IsSuffix(cmd, PathOf(cells, << "/", "b", "/" >>))
      /\ IF Len(cmd) < CmdSize THEN \A x \in Cells : x >= CmdSize => cells[x] = old[x]
         ELSE \E x \in Cells : x >= CmdSize /\ cells[x] = Nul /\ x = Len(cmd)

\* Whatever is in the shell's buffer from the lines before, what it finds there is the
\* command up to the first space, the argument is what comes after that, and the path
\* it runs is absolute.  Nothing else is changed just if the command and its end fit
\* into the room there is: the copy has no bound, and the end of a longer one is stored
\* in what comes after (user/sh.c).
THEOREM LinesDivided == ParsesLines
<1> DEFINE S == Letters \cup {Space, "/", "b"}
           bin == << "/", "b", "/" >>
<1> SUFFICES ASSUME NEW old \in [Cells -> Letters \cup {"/", Nul}],
                    NEW line \in SeqOf(Letters \cup {Space, "/"}, MaxText)
             PROVE  Divided(old, line)
  BY Zenon DEF ParsesLines, Divided, Space
<1>1. line \in Seq(Letters \cup {Space, "/"}) /\ Len(line) <= MaxText
  <2> DEFINE R == Letters \cup {Space, "/"}
  <2>1. PICK n \in 0 .. MaxText : line \in [1 .. n -> R]
    BY DEF SeqOf
  <2>2. n \in Nat /\ n <= MaxText
    BY LibraryAssumption
  <2> HIDE DEF R
  <2>3. line \in Seq(R) /\ Len(line) = n
    BY <2>1, <2>2
  <2> QED BY <2>2, <2>3 DEF R
<1>2. bin \in Seq(S) /\ Len(bin) = 3 /\ bin[1] = "/" /\ Space \in S
  <2>1. "/" \in S /\ "b" \in S /\ Space \in S
    OBVIOUS
  <2> HIDE DEF S
  <2> QED BY <2>1
<1>3. Nul \notin Letters \cup {Space, "/"}
  <2>1. Nul \notin Letters /\ Nul # "/"
    BY LibraryAssumption DEF Nul
  <2>2. Nul # Space
    BY Zenon DEF Nul, Space
  <2> QED BY <2>1, <2>2
<1> HIDE DEF bin
<1> DEFINE cells == CopyCmd(old, line)
           cmd == Cmd(cells)
           arg == Arg(line)
           path == PathOf(cells, bin)
<1>4. /\ cmd = WordTo(line, Space) /\ Len(cmd) \in Cells
      /\ \A x \in Cells : x > Len(cmd) => cells[x] = old[x]
      /\ cells[Len(cmd)] = Nul /\ (cmd # << >> => cells[0] = cmd[1])
  <2> DEFINE R == Letters \cup {Space, "/"}
             w == WordTo(line, Space)
  <2> HIDE DEF R
  <2>1. line \in Seq(R) /\ Len(line) <= MaxText /\ Nul \notin R
    BY <1>1, <1>3 DEF R
  <2>2. /\ cmd = w /\ Len(w) \in Cells
        /\ \A x \in Cells : x > Len(w) => cells[x] = old[x]
        /\ cells[Len(w)] = Nul /\ (w # << >> => cells[0] = w[1])
    BY <2>1, CmdIs, Zenon
  <2> HIDE DEF cells, cmd, w
  <2>3. /\ cmd = w /\ Len(cmd) \in Cells
        /\ \A x \in Cells : x > Len(cmd) => cells[x] = old[x]
        /\ cells[Len(cmd)] = Nul /\ (cmd # << >> => cells[0] = cmd[1])
    BY <2>2
  <2> QED BY <2>3 DEF w
<1>5. arg = RestFrom(line, Space)
  BY StopSpace, Zenon
<1>6. line \in Seq(S)
  <2> DEFINE R == Letters \cup {Space, "/"}
  <2>1. R \subseteq S
    OBVIOUS
  <2> HIDE DEF R, S
  <2> QED BY <2>1, <1>1, SeqMonotonic DEF R
<1> HIDE DEF S
<1>7. /\ cmd \in Seq(S) /\ \A i \in DOMAIN cmd : cmd[i] # Space
      /\ (line = cmd /\ arg = << >>) \/ line = cmd \o << Space >> \o arg
  <2>1. /\ WordTo(line, Space) \in Seq(S)
        /\ \A i \in DOMAIN WordTo(line, Space) : WordTo(line, Space)[i] # Space
        /\ \/ line = WordTo(line, Space) /\ RestFrom(line, Space) = << >>
           \/ line = WordTo(line, Space) \o << Space >> \o RestFrom(line, Space)
    BY <1>2, <1>6, WordAndRest
  <2> HIDE DEF cmd, arg
  <2> QED BY <2>1, <1>4, <1>5
<1>8. path = IF cells[0] = "/" THEN cmd ELSE bin \o cmd
  BY DEF PathOf
<1> HIDE DEF cells, cmd, arg, path
<1>9. IsSuffix(cmd, path) /\ path[1] = "/"
  <2>1. CASE cells[0] = "/"
    <3>1. path = cmd /\ << >> \in Seq(S) /\ << >> \o cmd = cmd
      BY <2>1, <1>7, <1>8, EmptySeq, ConcatEmptySeq
    <3>2. IsSuffix(cmd, << >> \o cmd)
      BY <3>1, <1>7, LastPart
    <3>3. cmd # << >>
      <4>1. cmd = << >> => Len(cmd) = 0
        OBVIOUS
      <4>2. Nul # "/"
        BY DEF Nul
      <4> QED BY <4>1, <4>2, <2>1, <1>4
    <3> QED BY <2>1, <3>1, <3>2, <3>3, <1>4
  <2>2. CASE cells[0] # "/"
    <3>1. path = bin \o cmd
      BY <2>2, <1>8
    <3>2. (bin \o cmd)[1] = bin[1]
      <4>1. Len(cmd) \in Nat /\ \A i \in 1 .. Len(bin) + Len(cmd) :
              (bin \o cmd)[i] = IF i <= Len(bin) THEN bin[i] ELSE cmd[i - Len(bin)]
        BY <1>2, <1>7, ConcatProperties, LenProperties
      <4> QED BY <4>1, <1>2
    <3> QED BY <3>1, <3>2, <1>2, <1>7, LastPart
  <2> QED BY <2>1, <2>2
<1>10. IF Len(cmd) < CmdSize THEN \A x \in Cells : x >= CmdSize => cells[x] = old[x]
       ELSE \E x \in Cells : x >= CmdSize /\ cells[x] = Nul /\ x = Len(cmd)
  <2>1. CmdSize \in Nat /\ Cells \subseteq Nat
    BY LibraryAssumption DEF Cells
  <2>2. CASE Len(cmd) < CmdSize
    BY <2>1, <2>2, <1>4
  <2>3. CASE ~ (Len(cmd) < CmdSize)
    <3>1. Len(cmd) >= CmdSize
      BY <2>1, <2>3, <1>4
    <3> QED BY <2>3, <3>1, <1>4
  <2> QED BY <2>2, <2>3
<1> QED BY <1>7, <1>9, <1>10, Zenon DEF Divided, cells, cmd, arg, path, bin

-----------------------------------------------------------------------------
\* Numerals.

\* The letters of numerals, and what each of them stands for.
Digs == { Digit(d) : d \in 0 .. 15 }
Val(c) == CHOOSE d \in 0 .. 15 : Digit(d) = c

\* No two digits look the same.
LEMMA DigitsDiffer == \A d, e \in 0 .. 15 : Digit(d) = Digit(e) => d = e
<1> SUFFICES ASSUME NEW d \in 0 .. 15, NEW e \in 0 .. 15, Hex[d + 1] = Hex[e + 1] PROVE d = e
  BY DEF Digit
<1> QED BY DEF Hex

LEMMA ValIs == \A d \in 0 .. 15 : Digit(d) \in Digs /\ Val(Digit(d)) = d
<1> TAKE d \in 0 .. 15
<1>1. Val(Digit(d)) \in 0 .. 15 /\ Digit(Val(Digit(d))) = Digit(d)
  <2> HIDE DEF Digit
  <2> QED BY DEF Val
<1> QED BY <1>1, DigitsDiffer DEF Digs

LEMMA ValNat == \A c \in Digs : Val(c) \in 0 .. 15
<1> TAKE c \in Digs
<1>1. PICK d \in 0 .. 15 : c = Digit(d)
  BY DEF Digs
<1> QED BY <1>1, ValIs

\* What ValueOf says, a letter at a time.
Valued(v, s, base) == v[0] = 0 /\ \A i \in 1 .. Len(s) : v[i] = v[i - 1] * base + Val(s[i])

\* ValueOf is a function of the places.
LEMMA ValueIs ==
  ASSUME NEW base \in Nat, NEW s \in Seq(Digs)
  PROVE  \E v \in [0 .. Len(s) -> Nat] : Valued(v, s, base) /\ ValueOf(s, base) = v[Len(s)]
<1> DEFINE n == Len(s)
           Rec(v) == v = [i \in 0 .. n |-> IF i = 0 THEN 0 ELSE v[i - 1] * base + Val(s[i])]
           f == CHOOSE v : Rec(v)
           g == [k \in 1 .. n |-> [x \in Nat |-> x * base + Val(s[k])]]
<1>1. n \in Nat /\ \A i \in 1 .. n : s[i] \in Digs
  BY LenProperties, ElementOfSeq
<1>2. ValueOf(s, base) = f[n]
  BY DEF ValueOf, Val
<1> HIDE DEF n
<1>3. g \in [1 .. n -> [Nat -> Nat]]
  <2> SUFFICES ASSUME NEW k \in 1 .. n, NEW x \in Nat PROVE x * base + Val(s[k]) \in Nat
    OBVIOUS
  <2>1. Val(s[k]) \in Nat /\ x * base \in Nat
    BY <1>1, ValNat
  <2> QED BY <2>1
<1>4. PICK h \in [0 .. n -> Nat] : Iterates(h, 0, g, n)
  <2> HIDE DEF g
  <2>1. 0 \in Nat
    OBVIOUS
  <2> QED BY <1>1, <1>3, <2>1, Recursion
<1>5. h[0] = 0 /\ \A i \in 1 .. n : h[i] = h[i - 1] * base + Val(s[i])
  <2>1. ASSUME NEW i \in 1 .. n PROVE h[i] = h[i - 1] * base + Val(s[i])
    <3>1. i - 1 \in 0 .. n
      BY <1>1
    <3>2. h[i - 1] \in Nat
      BY <3>1
    <3>3. h[i] = g[i][h[i - 1]]
      BY <1>4 DEF Iterates
    <3> QED BY <3>2, <3>3
  <2> QED BY <2>1, <1>4 DEF Iterates
<1>6. Rec(h)
  <2>1. h = [i \in 0 .. n |-> h[i]] /\ \A i \in 0 .. n : i # 0 => i \in 1 .. n
    BY <1>1
  <2> QED BY <2>1, <1>5
<1>7. Rec(f)
  <2> HIDE DEF Rec
  <2> QED BY <1>6
<1> HIDE DEF f
<1>8. f = h
  <2>1. UpTo(f, n) /\ UpTo(h, n)
    <3>1. f = [i \in 0 .. n |-> f[i]]
      BY <1>7
    <3> QED BY <3>1 DEF UpTo
  <2>2. SameNext(f, h, n)
    <3>1. f[0] = 0
      BY <1>1, <1>7
    <3>2. \A i \in 1 .. n : f[i] = f[i - 1] * base + Val(s[i])
      <4>1. \A i \in 1 .. n : i \in 0 .. n /\ i # 0
        BY <1>1
      <4> QED BY <4>1, <1>7
    <3> HIDE DEF Rec
    <3> QED BY <3>1, <3>2, <1>5 DEF SameNext
  <2> HIDE DEF Rec
  <2> QED BY <1>1, <2>1, <2>2, Unique
<1>9. Valued(h, s, base) /\ ValueOf(s, base) = h[Len(s)]
  BY <1>2, <1>5, <1>8 DEF Valued, n
<1> QED BY <1>4, <1>9 DEF n

\* One more letter.
LEMMA ValueAppend ==
  ASSUME NEW base \in Nat, NEW s \in Seq(Digs), NEW c \in Digs
  PROVE  /\ ValueOf(<< >>, base) = 0
         /\ ValueOf(s, base) \in Nat
         /\ ValueOf(Append(s, c), base) = ValueOf(s, base) * base + Val(c)
<1> DEFINE t == Append(s, c)
           n == Len(s)
<1>1. t \in Seq(Digs) /\ Len(t) = n + 1 /\ t[n + 1] = c /\ n \in Nat /\ \A i \in 1 .. n : t[i] = s[i]
  BY AppendProperties, LenProperties
<1> HIDE DEF t
<1>2. PICK v \in [0 .. n -> Nat] : Valued(v, s, base) /\ ValueOf(s, base) = v[n]
  BY ValueIs
<1>3. PICK w \in [0 .. Len(t) -> Nat] : Valued(w, t, base) /\ ValueOf(t, base) = w[Len(t)]
  BY <1>1, ValueIs
<1> HIDE DEF n
<1>4. v[0] = 0 /\ \A i \in 1 .. n : v[i] = v[i - 1] * base + Val(s[i])
  BY <1>2 DEF Valued, n
<1>5. w[0] = 0 /\ \A i \in 1 .. n + 1 : w[i] = w[i - 1] * base + Val(t[i])
  BY <1>1, <1>3 DEF Valued
<1> DEFINE T == { i \in 0 .. n : v[i] = w[i] }
<1>6. 0 \in T
  BY <1>1, <1>4, <1>5
<1>7. ASSUME NEW i \in 1 .. n, i - 1 \in T PROVE i \in T
  <2>1. i \in 1 .. n + 1 /\ i \in 0 .. n /\ v[i - 1] = w[i - 1]
    BY <1>1, <1>7
  <2> QED BY <2>1, <1>1, <1>4, <1>5
<1>8. v[n] = w[n]
  <2> HIDE DEF T
  <2>1. \A i \in 1 .. n : i - 1 \in T => i \in T
    BY <1>7
  <2>2. 0 .. n \subseteq T
    BY <1>1, <1>6, <2>1, UpToAll
  <2> QED BY <1>1, <2>2 DEF T
<1>9. w[n + 1] = w[n] * base + Val(c)
  <2>1. n + 1 \in 1 .. n + 1 /\ n + 1 - 1 = n
    BY <1>1
  <2>2. PICK i \in 1 .. n + 1 : i = n + 1
    BY <2>1
  <2>3. w[i] = w[i - 1] * base + Val(t[i])
    BY <1>5, Zenon
  <2>4. i - 1 = n
    BY <1>1, <2>2
  <2> QED BY <2>2, <2>3, <2>4, <1>1
<1>10. ValueOf(<< >>, base) = 0
  <2> DEFINE e == << >>
  <2>1. e \in Seq(Digs) /\ Len(e) = 0
    BY EmptySeq
  <2> HIDE DEF e
  <2>2. PICK u \in [0 .. Len(e) -> Nat] : Valued(u, e, base) /\ ValueOf(e, base) = u[Len(e)]
    BY <2>1, ValueIs
  <2>3. ValueOf(e, base) = 0
    <3>1. u[0] = 0
      BY <2>2 DEF Valued
    <3>2. ValueOf(e, base) = u[Len(e)]
      BY <2>2
    <3> QED BY <2>1, <3>1, <3>2
  <2> QED BY <2>3 DEF e
<1>11. ValueOf(s, base) \in Nat
  <2>1. n \in 0 .. n
    BY <1>1
  <2> QED BY <2>1, <1>2
<1> QED BY <1>1, <1>2, <1>3, <1>8, <1>9, <1>10, <1>11 DEF t

\* Each division makes the number smaller.
LEMMA Smaller ==
  ASSUME NEW base \in 2 .. 16, NEW x \in Nat \ {0}
  PROVE  /\ x \div base \in Nat /\ x % base \in 0 .. base - 1 /\ x = base * (x \div base) + (x % base)
         /\ x \div base < x
<1> DEFINE q == x \div base
           r == x % base
<1>1. q \in Nat /\ r \in 0 .. base - 1 /\ x = base * q + r
  <2>1. base \in Nat \ {0} /\ x \in Nat
    OBVIOUS
  <2> QED BY <2>1, DivMod
<1> HIDE DEF q, r
<1>2. q < x
  <2>1. PICK b \in Nat : base = 2 + b
    <3>1. base - 2 \in Nat /\ base = 2 + (base - 2)
      OBVIOUS
    <3> QED BY <3>1
  <2>2. b * q \in Nat /\ base * q = q + q + b * q
    BY <1>1, <2>1
  <2>3. x = q + q + b * q + r
    BY <1>1, <2>2
  <2> QED BY <1>1, <2>2, <2>3
<1> QED BY <1>1, <1>2 DEF q, r

\* Digits: the recursion over the quotients.
LEMMA DigitsOf ==
  ASSUME NEW base \in 2 .. 16, NEW x \in Int
  PROVE  Digits(base)[x] = IF x <= 0 THEN << >> ELSE << Digit(x % base) >> \o Digits(base)[x \div base]
<1> DEFINE Rec(f) == f = [y \in Int |-> IF y <= 0 THEN << >> ELSE << Digit(y % base) >> \o f[y \div base]]
           f == CHOOSE h : Rec(h)
           stop == { y \in Int : y <= 0 }
           a == [y \in Int |-> IF y <= 0 THEN << >> ELSE << Digit(y % base) >>]
           p == [y \in Int |-> y \div base]
           mu == [y \in Int |-> IF y <= 0 THEN 0 ELSE y]
<1>1. Digits(base) = f
  BY DEF Digits
<1>2. Lower(Int, stop, p, mu)
  <2> SUFFICES ASSUME NEW y \in Int
               PROVE  mu[y] \in Nat /\ (y \notin stop => p[y] \in Int /\ mu[p[y]] < mu[y])
    BY DEF Lower
  <2>1. CASE y <= 0
    BY <2>1
  <2>2. CASE y > 0
    <3>1. y \div base \in Nat /\ y \div base < y
      BY <2>2, Smaller
    <3>2. p[y] = y \div base /\ mu[y] = y
      BY <2>2
    <3>3. p[y] \in Int
      BY <3>1, <3>2
    <3>4. mu[p[y]] = IF p[y] <= 0 THEN 0 ELSE p[y]
      BY <3>3
    <3> HIDE DEF p, mu
    <3> QED BY <2>2, <3>1, <3>2, <3>4
  <2> QED BY <2>1, <2>2
<1>3. PICK h : Descends(h, Int, stop, Int, a, p)
  <2> HIDE DEF stop, a, p, mu
  <2> DEFINE D == Int
  <2>1. Lower(D, stop, p, mu)
    BY <1>2
  <2> HIDE DEF D
  <2>2. \E h : Descends(h, D, stop, D, a, p)
    BY <2>1, Descent
  <2> QED BY <2>2 DEF D
<1>4. h = [y \in Int |-> h[y]] /\ \A y \in Int : h[y] = Goes(h, y, stop, Int, a, p)
  BY <1>3 DEF Descends
<1>5. Rec(h)
  <2>1. ASSUME NEW y \in Int
        PROVE  h[y] = IF y <= 0 THEN << >> ELSE << Digit(y % base) >> \o h[y \div base]
    <3>1. CASE y <= 0
      BY <3>1, <1>4 DEF Goes
    <3>2. CASE y > 0
      <4>1. y \notin stop /\ p[y] = y \div base /\ a[y] = << Digit(y % base) >>
        BY <3>2
      <4> HIDE DEF stop, p, a
      <4>2. h[y] = a[y] \o h[p[y]]
        BY <4>1, <1>4 DEF Goes
      <4> QED BY <3>2, <4>1, <4>2
    <3> QED BY <3>1, <3>2
  <2> QED BY <2>1, <1>4
<1>6. Rec(f)
  <2> HIDE DEF Rec
  <2> QED BY <1>5
<1> HIDE DEF f
<1>7. f[x] = IF x <= 0 THEN << >> ELSE << Digit(x % base) >> \o f[x \div base]
  BY <1>6
<1> QED BY <1>1, <1>7

LEMMA NoDigits ==
  ASSUME NEW base \in 2 .. 16, NEW x \in Int, x <= 0
  PROVE  Digits(base)[x] = << >>
<1> DEFINE d == << Digit(x % base) >> \o Digits(base)[x \div base]
<1>1. Digits(base)[x] = IF x <= 0 THEN << >> ELSE d
  BY DigitsOf
<1> HIDE DEF d
<1> QED BY <1>1

LEMMA MoreDigits ==
  ASSUME NEW base \in 2 .. 16, NEW x \in Int, x > 0
  PROVE  Digits(base)[x] = << Digit(x % base) >> \o Digits(base)[x \div base]
<1> DEFINE d == << Digit(x % base) >> \o Digits(base)[x \div base]
<1>1. Digits(base)[x] = IF x <= 0 THEN << >> ELSE d
  BY DigitsOf
<1> HIDE DEF d
<1>2. Digits(base)[x] = d
  BY <1>1
<1> QED BY <1>2 DEF d

\* What is first comes last.
LEMMA ReverseOneMore ==
  ASSUME NEW S, NEW s \in Seq(S), NEW c \in S
  PROVE  Reverse(<< c >> \o s) = Append(Reverse(s), c)
<1> DEFINE b == << c >>
           t == b \o s
           r == Reverse(s)
           u == Append(r, c)
           v == Reverse(t)
<1>1. b \in Seq(S) /\ Len(b) = 1 /\ b[1] = c
  OBVIOUS
<1> HIDE DEF b
<1>2. t \in Seq(S) /\ Len(t) = 1 + Len(s) /\ Len(s) \in Nat
      /\ \A i \in 1 .. 1 + Len(s) : t[i] = IF i <= 1 THEN b[i] ELSE s[i - 1]
  <2>1. t \in Seq(S) /\ Len(t) = Len(b) + Len(s)
      /\ \A i \in 1 .. Len(b) + Len(s) : t[i] = IF i <= Len(b) THEN b[i] ELSE s[i - Len(b)]
    BY <1>1, ConcatProperties
  <2> HIDE DEF t
  <2> QED BY <1>1, <2>1, LenProperties
<1> HIDE DEF t
<1>3. r \in Seq(S) /\ Len(r) = Len(s) /\ \A i \in 1 .. Len(s) : r[i] = s[Len(s) - i + 1]
  BY ReverseOf
<1>4. v \in Seq(S) /\ Len(v) = Len(t) /\ \A i \in 1 .. Len(t) : v[i] = t[Len(t) - i + 1]
  BY <1>2, ReverseOf
<1> HIDE DEF r, v
<1>5. u \in Seq(S) /\ Len(u) = Len(s) + 1 /\ u[Len(s) + 1] = c /\ \A i \in 1 .. Len(s) : u[i] = r[i]
  BY <1>3, AppendProperties
<1> HIDE DEF u
<1>6. ASSUME NEW i \in 1 .. Len(u) PROVE v[i] = u[i]
  <2> DEFINE n == Len(s)
  <2>0. n \in Nat /\ i \in 1 .. n + 1 /\ Len(t) = n + 1 /\ i \in 1 .. Len(t)
    BY <1>2, <1>5
  <2>1. v[i] = t[n + 1 - i + 1]
    BY <2>0, <1>4
  <2>2. CASE i = n + 1
    <3>1. n + 1 - i + 1 = 1
      BY <2>0, <2>2
    <3>2. t[1] = b[1]
      BY <2>0, <1>2
    <3> QED BY <2>1, <2>2, <3>1, <3>2, <1>1, <1>5
  <2>3. CASE i # n + 1
    <3>0. i \in 1 .. n
      BY <2>0, <2>3
    <3>1. PICK j : j = n - i + 1
      OBVIOUS
    <3>2. n + 1 - i + 1 = j + 1 /\ j \in 1 .. n /\ j + 1 \in 1 .. 1 + n /\ ~ (j + 1 <= 1) /\ j + 1 - 1 = j
      BY <2>0, <3>0, <3>1
    <3>3. t[j + 1] = s[j]
      <4>1. t[j + 1] = s[j + 1 - 1]
        BY <1>2, <3>2
      <4> QED BY <3>2, <4>1
    <3>4. u[i] = r[i] /\ r[i] = s[j]
      BY <3>0, <3>1, <1>3, <1>5
    <3> QED BY <2>1, <3>2, <3>3, <3>4
  <2> QED BY <2>2, <2>3
<1>7. v = u
  BY <1>2, <1>4, <1>5, <1>6, SeqEqual
<1> QED BY <1>7 DEF v, u, r, t, b

\* The digits of x, the last one first, are a numeral of x.
Spells(d, base, x) ==
  /\ d \in Seq(Digs) /\ ValueOf(Reverse(d), base) = x
  /\ x > 0 => d # << >> /\ d[Len(d)] # Digit(0)

\* Digits of any number spell it.
LEMMA DigitsSpell ==
  ASSUME NEW base \in 2 .. 16, NEW n \in Nat
  PROVE  Spells(Digits(base)[n], base, n)
<1> DEFINE D == Digits(base)
           T == { k \in 0 .. n : \A x \in 0 .. k : Spells(D[x], base, x) }
<1>0. base \in Nat /\ base - 1 \in 1 .. 15
  OBVIOUS
<1>1. Spells(D[0], base, 0)
  <2>1. D[0] = << >>
    <3>1. 0 \in Int /\ 0 <= 0
      OBVIOUS
    <3> QED BY <3>1, NoDigits
  <2>2. << >> \in Seq(Digs) /\ Len(<< >>) = 0
    BY EmptySeq
  <2>3. Reverse(<< >>) = << >>
    <3>1. Reverse(<< >>) \in Seq(Digs) /\ Len(Reverse(<< >>)) = 0
      BY <2>2, ReverseOf
    <3> DEFINE r == Reverse(<< >>)
    <3> HIDE DEF r
    <3>2. r = << >>
      <4>1. r \in Seq(Digs) /\ Len(r) = 0
        BY <3>1 DEF r
      <4> QED BY <4>1, EmptySeq
    <3> QED BY <3>2 DEF r
  <2>4. ValueOf(<< >>, base) = 0
    <3>1. Digit(0) \in Digs
      BY ValIs
    <3> QED BY <1>0, <2>2, <3>1, ValueAppend
  <2> HIDE DEF D
  <2> QED BY <2>1, <2>2, <2>3, <2>4 DEF Spells
<1>2. ASSUME NEW x \in Nat \ {0}, \A y \in Nat : y < x => Spells(D[y], base, y)
      PROVE  Spells(D[x], base, x)
  <2> DEFINE q == x \div base
             r == x % base
             c == Digit(r)
             t == D[q]
  <2>1. q \in Nat /\ r \in 0 .. base - 1 /\ x = base * q + r /\ q < x
    BY Smaller
  <2>2. D[x] = << c >> \o t
    <3>1. x \in Int /\ x > 0
      OBVIOUS
    <3> QED BY <3>1, MoreDigits
  <2>3. Spells(t, base, q)
    BY <2>1, <1>2
  <2> HIDE DEF q, r, D
  <2>3b. r \in 0 .. 15
    BY <2>1
  <2>4. c \in Digs /\ Val(c) = r /\ t \in Seq(Digs) /\ ValueOf(Reverse(t), base) = q
        /\ (q > 0 => t # << >> /\ t[Len(t)] # Digit(0))
    BY <2>3b, <2>3, ValIs DEF Spells
  <2>5. r > 0 => c # Digit(0)
    BY <2>3b, DigitsDiffer
  <2> HIDE DEF c, t
  <2>6. Reverse(D[x]) = Append(Reverse(t), c) /\ Reverse(t) \in Seq(Digs)
    BY <2>2, <2>4, ReverseOneMore, ReverseOf
  <2>7. ValueOf(Reverse(D[x]), base) = x
    <3>1. ValueOf(Append(Reverse(t), c), base) = ValueOf(Reverse(t), base) * base + Val(c)
      BY <1>0, <2>4, <2>6, ValueAppend
    <3>2. q * base = base * q
      BY <1>0, <2>1
    <3> QED BY <2>1, <2>4, <2>6, <3>1, <3>2
  <2> DEFINE b == << c >>
  <2>8. b \in Seq(Digs) /\ Len(b) = 1 /\ b[1] = c
    BY <2>4
  <2>9. D[x] = b \o t
    BY <2>2
  <2> HIDE DEF b
  <2>10. D[x] \in Seq(Digs) /\ Len(D[x]) = 1 + Len(t) /\ Len(t) \in Nat
         /\ \A i \in 1 .. 1 + Len(t) : D[x][i] = IF i <= 1 THEN b[i] ELSE t[i - 1]
    <3>1. b \o t \in Seq(Digs) /\ Len(b \o t) = Len(b) + Len(t)
         /\ \A i \in 1 .. Len(b) + Len(t) : (b \o t)[i] = IF i <= Len(b) THEN b[i] ELSE t[i - Len(b)]
      BY <2>4, <2>8, ConcatProperties
    <3>2. Len(t) \in Nat
      BY <2>4, LenProperties
    <3> QED BY <2>8, <2>9, <3>1, <3>2
  <2>11. D[x] # << >> /\ D[x][Len(D[x])] # Digit(0)
    <3>1. D[x] # << >>
      <4>1. Len(D[x]) # 0
        BY <2>10
      <4> QED BY <4>1, EmptySeq
    <3>2. CASE q = 0
      <4>1. t = << >>
        <5>1. q \in Int /\ q <= 0
          BY <2>1, <3>2
        <5>2. D[q] = << >>
          BY <5>1, NoDigits DEF D
        <5> QED BY <5>2 DEF t
      <4>2. Len(t) = 0 /\ D[x][1] = b[1]
        BY <4>1, <2>10, EmptySeq
      <4>3. r > 0
        BY <2>1, <3>2, <1>0
      <4> QED BY <4>2, <4>3, <2>5, <2>8, <2>10
    <3>3. CASE q # 0
      <4>1. t # << >> /\ t[Len(t)] # Digit(0)
        BY <2>1, <2>4, <3>3
      <4>2. Len(t) # 0
        BY <4>1, <2>4, EmptySeq
      <4>3. D[x][1 + Len(t)] = t[Len(t)]
        <5>1. PICK j : j = 1 + Len(t)
          OBVIOUS
        <5>2. j \in 1 .. 1 + Len(t) /\ ~ (j <= 1) /\ j - 1 = Len(t)
          BY <5>1, <4>2, <2>10
        <5>3. D[x][j] = t[j - 1]
          BY <5>2, <2>10
        <5> QED BY <5>1, <5>2, <5>3
      <4> QED BY <4>1, <4>3, <2>10
    <3> QED BY <3>1, <3>2, <3>3
  <2> QED BY <2>7, <2>10, <2>11 DEF Spells
<1> HIDE DEF D
<1>3. ASSUME NEW k \in 1 .. n, k - 1 \in T PROVE k \in T
  <2>1. k \in Nat \ {0} /\ \A y \in 0 .. k - 1 : Spells(D[y], base, y)
    BY <1>3
  <2>2. \A y \in Nat : y < k => y \in 0 .. k - 1
    BY <2>1
  <2>3. Spells(D[k], base, k)
    BY <2>1, <2>2, <1>2
  <2>4. \A y \in 0 .. k : y = k \/ y \in 0 .. k - 1
    BY <2>1
  <2> QED BY <2>1, <2>3, <2>4
<1>4. 0 \in T
  BY <1>1
<1>5. n \in T
  <2> HIDE DEF T
  <2>1. \A k \in 1 .. n : k - 1 \in T => k \in T
    BY <1>3
  <2>2. 0 .. n \subseteq T
    BY <1>4, <2>1, UpToAll
  <2> QED BY <2>2
<1> QED BY <1>5 DEF D

-----------------------------------------------------------------------------
\* Printing formats.

Conversions == {"d", "i", "x", "c", "s"}

\* _std_fdprintf from the i-th letter of the format and the j-th argument on.
Printing(fmt, args, out) ==
  \A i, j \in Nat :
    out[<< i, j >>] =
      IF i > Len(fmt) THEN << >>
      ELSE IF fmt[i] # "%" THEN << fmt[i] >> \o out[<< i + 1, j >>]
      ELSE IF fmt[i + 1] \in Conversions
           THEN Convert(fmt[i + 1], args[j]) \o out[<< i + 2, j + 1 >>]
      ELSE out[<< i + 2, j >>]

\* The recursion of _std_fdprintf.
LEMMA PrintfIs ==
  ASSUME NEW fmt, NEW args, Len(fmt) \in Nat
  PROVE  \E out : Printing(fmt, args, out) /\ _std_fdprintf(fmt, args) = out[<< 1, 1 >>]
<1> DEFINE D == Nat \X Nat
           L == Len(fmt)
           Text_(w) == fmt[w[1]] # "%"
           Takes_(w) == fmt[w[1] + 1] \in Conversions
           Rec(f) == f = [w \in D |->
                          LET i == w[1] j == w[2]
                          IN  IF i > Len(fmt) THEN << >>
                              ELSE IF fmt[i] # "%" THEN << fmt[i] >> \o f[<< i + 1, j >>]
                              ELSE IF fmt[i + 1] \in {"d", "i", "x", "c", "s"}
                                   THEN Convert(fmt[i + 1], args[j]) \o f[<< i + 2, j + 1 >>]
                              ELSE f[<< i + 2, j >>]]
           f == CHOOSE out : Rec(out)
           stop == { w \in D : w[1] > L }
           add == { w \in D : Text_(w) \/ Takes_(w) }
           p == [w \in D |-> IF Text_(w) THEN << w[1] + 1, w[2] >>
                             ELSE IF Takes_(w) THEN << w[1] + 2, w[2] + 1 >>
                             ELSE << w[1] + 2, w[2] >>]
           a == [w \in D |-> IF w[1] > L THEN << >>
                             ELSE IF Text_(w) THEN << fmt[w[1]] >>
                             ELSE Convert(fmt[w[1] + 1], args[w[2]])]
           mu == [w \in D |-> IF w[1] > L THEN 0 ELSE L + 1 - w[1]]
<1>0. L \in Nat
  OBVIOUS
<1>1. _std_fdprintf(fmt, args) = f[<< 1, 1 >>]
  BY DEF _std_fdprintf
<1> HIDE DEF L
<1>2. Lower(D, stop, p, mu)
  <2> SUFFICES ASSUME NEW w \in D
               PROVE  mu[w] \in Nat /\ (w \notin stop => p[w] \in D /\ mu[p[w]] < mu[w])
    BY DEF Lower
  <2>1. PICK i \in Nat, j \in Nat : w = << i, j >>
    OBVIOUS
  <2>2. mu[w] \in Nat
    BY <1>0, <2>1
  <2>3. ASSUME NEW v \in D, v[1] > w[1], w[1] <= L PROVE mu[v] < mu[w]
    BY <1>0, <2>3
  <2>4. p[w] \in D /\ p[w][1] > w[1]
    <3>1. p[w] \in {<< i + 1, j >>, << i + 2, j + 1 >>, << i + 2, j >>}
      BY <2>1
    <3> HIDE DEF p
    <3> QED BY <2>1, <3>1
  <2>5. w \notin stop => w[1] <= L
    BY <1>0, <2>1
  <2> HIDE DEF D, stop, p, mu
  <2> QED BY <2>2, <2>3, <2>4, <2>5
<1>3. PICK h : Descends(h, D, stop, add, a, p)
  <2> HIDE DEF D, stop, add, a, p, mu
  <2> QED BY <1>2, Descent
<1>4. h = [w \in D |-> h[w]] /\ \A w \in D : h[w] = Goes(h, w, stop, add, a, p)
  BY <1>3 DEF Descends
<1> DEFINE Step(out, i, j) == IF i > L THEN << >>
                              ELSE IF fmt[i] # "%" THEN << fmt[i] >> \o out[<< i + 1, j >>]
                              ELSE IF fmt[i + 1] \in Conversions
                                   THEN Convert(fmt[i + 1], args[j]) \o out[<< i + 2, j + 1 >>]
                              ELSE out[<< i + 2, j >>]
<1>5. ASSUME NEW i \in Nat, NEW j \in Nat PROVE h[<< i, j >>] = Step(h, i, j)
  <2>1. PICK w \in D : w = << i, j >> /\ w[1] = i /\ w[2] = j
    <3>1. << i, j >> \in D /\ << i, j >>[1] = i /\ << i, j >>[2] = j
      OBVIOUS
    <3> HIDE DEF D
    <3> QED BY <3>1
  <2>2. h[w] = Goes(h, w, stop, add, a, p)
    BY <1>4
  <2>3. CASE i > L
    <3>1. w \in stop /\ a[w] = << >>
      BY <2>1, <2>3
    <3> HIDE DEF stop, a
    <3> QED BY <2>1, <2>2, <2>3, <3>1 DEF Goes
  <2>4. CASE ~ (i > L) /\ fmt[i] # "%"
    <3>1. w \notin stop /\ w \in add /\ a[w] = << fmt[i] >> /\ p[w] = << i + 1, j >>
      BY <2>1, <2>4
    <3> HIDE DEF stop, a, add, p
    <3> QED BY <2>1, <2>2, <2>4, <3>1 DEF Goes
  <2>5. CASE ~ (i > L) /\ fmt[i] = "%" /\ fmt[i + 1] \in Conversions
    <3>1. w \notin stop /\ w \in add /\ a[w] = Convert(fmt[i + 1], args[j]) /\ p[w] = << i + 2, j + 1 >>
      BY <2>1, <2>5
    <3> HIDE DEF stop, a, add, p
    <3> QED BY <2>1, <2>2, <2>5, <3>1 DEF Goes
  <2>6. CASE ~ (i > L) /\ fmt[i] = "%" /\ fmt[i + 1] \notin Conversions
    <3>1. w \notin stop /\ w \notin add /\ p[w] = << i + 2, j >>
      BY <2>1, <2>6
    <3> HIDE DEF stop, a, add, p
    <3> QED BY <2>1, <2>2, <2>6, <3>1 DEF Goes
  <2> QED BY <2>3, <2>4, <2>5, <2>6
<1>6. Rec(h)
  <2>1. ASSUME NEW w \in D PROVE h[w] = Step(h, w[1], w[2])
    <3>1. w = << w[1], w[2] >> /\ w[1] \in Nat /\ w[2] \in Nat
      OBVIOUS
    <3> HIDE DEF Step, D
    <3> QED BY <3>1, <1>5
  <2> HIDE DEF D
  <2> QED BY <2>1, <1>4 DEF Conversions, L
<1>7. Rec(f)
  <2> HIDE DEF Rec
  <2> QED BY <1>6
<1> HIDE DEF f
<1>8. ASSUME NEW i \in Nat, NEW j \in Nat PROVE f[<< i, j >>] = Step(f, i, j)
  <2>1. PICK w \in D : w = << i, j >> /\ w[1] = i /\ w[2] = j
    <3>1. << i, j >> \in D /\ << i, j >>[1] = i /\ << i, j >>[2] = j
      OBVIOUS
    <3> HIDE DEF D
    <3> QED BY <3>1
  <2>2. f[w] = Step(f, w[1], w[2])
    <3> HIDE DEF D
    <3> QED BY <1>7 DEF Conversions, L
  <2> HIDE DEF Rec
  <2> QED BY <2>1, <2>2
<1>9. Printing(fmt, args, f)
  <2> HIDE DEF Rec
  <2> QED BY <1>8 DEF Printing, L
<1> QED BY <1>1, <1>9

-----------------------------------------------------------------------------
\* Printing numbers.

LEMMA DigitZero == Digit(0) = "0" /\ "0" \in Digs /\ Val("0") = 0
<1>1. Digit(0) = "0"
  BY DEF Digit, Hex
<1>2. 0 \in 0 .. 15
  OBVIOUS
<1> QED BY <1>1, <1>2, ValIs

\* Reversed, the digits are a numeral.
LEMMA NumeralOf ==
  ASSUME NEW base \in 2 .. 16, NEW x \in Nat \ {0}
  PROVE  Reverse(Digits(base)[x]) \in Seq(Digs) /\ Numeral(Reverse(Digits(base)[x]), base, x)
<1> DEFINE d == Digits(base)[x]
           r == Reverse(d)
<1>1. d \in Seq(Digs) /\ ValueOf(r, base) = x /\ d # << >> /\ d[Len(d)] # Digit(0)
  <2>1. x \in Nat /\ x > 0
    OBVIOUS
  <2>2. Spells(d, base, x)
    BY <2>1, DigitsSpell
  <2> HIDE DEF d
  <2> QED BY <2>1, <2>2 DEF Spells
<1> HIDE DEF d
<1>2. r \in Seq(Digs) /\ Len(r) = Len(d) /\ \A i \in 1 .. Len(d) : r[i] = d[Len(d) - i + 1]
  BY <1>1, ReverseOf
<1>3. Len(d) \in Nat \ {0}
  BY <1>1, EmptySeq
<1> HIDE DEF r
<1>4. r # << >>
  <2>1. Len(r) # 0
    BY <1>2, <1>3
  <2> QED BY <2>1
<1>5. r[1] # "0"
  <2>1. 1 \in 1 .. Len(d) /\ Len(d) - 1 + 1 = Len(d)
    BY <1>3
  <2>2. r[1] = d[Len(d) - 1 + 1]
    BY <2>1, <1>2
  <2> QED BY <2>1, <2>2, <1>1, DigitZero
<1>6. Numeral(r, base, x)
  BY <1>1, <1>4, <1>5 DEF Numeral
<1> QED BY <1>2, <1>6 DEF r, d

\* A single letter.
LEMMA OneLetter ==
  ASSUME NEW base \in Nat, NEW c \in Digs
  PROVE  ValueOf(<< c >>, base) = Val(c)
<1>1. << >> \in Seq(Digs) /\ << c >> = Append(<< >>, c)
  BY EmptySeq
<1>2. ValueOf(Append(<< >>, c), base) = ValueOf(<< >>, base) * base + Val(c) /\ ValueOf(<< >>, base) = 0
  BY <1>1, ValueAppend
<1>3. 0 * base = 0 /\ Val(c) \in Nat
  BY ValNat
<1> DEFINE v == ValueOf(<< >>, base)
<1> HIDE DEF v
<1>4. v * base = 0
  BY <1>2, <1>3 DEF v
<1> QED BY <1>1, <1>2, <1>3, <1>4 DEF v

LEMMA ZeroNumeral ==
  ASSUME NEW base \in Nat
  PROVE  Numeral(<< "0" >>, base, 0)
<1>1. ValueOf(<< "0" >>, base) = 0
  BY OneLetter, DigitZero
<1>2. << "0" >> # << >> /\ Len(<< "0" >>) = 1
  OBVIOUS
<1> QED BY <1>1, <1>2 DEF Numeral

\* _print_hex prints numerals.
LEMMA HexNumeral ==
  ASSUME NEW x \in Nat
  PROVE  Numeral(_print_hex(x), 16, x)
<1>1. 16 \in 2 .. 16 /\ 16 \in Nat
  OBVIOUS
<1>2. CASE x = 0
  <2>1. _print_hex(x) = << "0" >>
    BY <1>2 DEF _print_hex
  <2> QED BY <2>1, <1>1, <1>2, ZeroNumeral
<1>3. CASE x # 0
  <2>1. _print_hex(x) = Reverse(Digits(16)[x])
    BY <1>3 DEF _print_hex
  <2> QED BY <2>1, <1>1, <1>3, NumeralOf
<1> QED BY <1>2, <1>3

\* So does _print_int, except of the least int.
LEMMA IntNumeral ==
  ASSUME NEW i \in Ints
  PROVE  IF i >= 0 THEN Numeral(_print_int(i), 10, i)
         ELSE /\ Head(_print_int(i)) = "-"
              /\ IF i - 1 \notin Ints THEN Len(_print_int(i)) = 1
                 ELSE Numeral(Tail(_print_int(i)), 10, -i)
<1> DEFINE H == IntMod \div 2
<1>0. 10 \in 2 .. 16 /\ 10 \in Nat
  OBVIOUS
<1>1. H \in Nat
  <2>1. IntMod \in Nat /\ 2 \in Nat \ {0}
    BY LibraryAssumption
  <2> QED BY <2>1, DivMod
<1>2. i \in - H .. H - 1 /\ Ints = - H .. H - 1
  BY DEF Ints
<1>2b. Negated(i) = IF i = - H THEN i ELSE - i
  BY DEF Negated
<1> HIDE DEF H
<1>3. i \in Int
  BY <1>1, <1>2
<1>4. CASE i = 0
  <2>1. _print_int(i) = << "0" >>
    BY <1>4 DEF _print_int
  <2> QED BY <2>1, <1>0, <1>4, ZeroNumeral
<1>5. CASE i > 0
  <2>1. _print_int(i) = Reverse(Digits(10)[i]) /\ i \in Nat \ {0}
    BY <1>3, <1>5 DEF _print_int
  <2> QED BY <2>1, <1>0, <1>5, NumeralOf
<1>6. CASE i < 0
  <2> DEFINE r == Reverse(Digits(10)[Negated(i)])
             b == << "-" >>
             t == b \o r
  <2>1. _print_int(i) = t
    BY <1>3, <1>6 DEF _print_int
  <2>2. CASE i = - H
    <3>1. i - 1 \notin Ints
      BY <1>1, <1>2, <2>2
    <3>2. Negated(i) = i
      BY <1>2b, <2>2
    <3>3. Digits(10)[i] = << >>
      BY <1>0, <1>3, <1>6, NoDigits
    <3>4. r = << >>
      <4>1. << >> \in Seq(Digs) /\ Len(<< >>) = 0
        BY EmptySeq
      <4>2. Reverse(<< >>) \in Seq(Digs) /\ Len(Reverse(<< >>)) = 0
        BY <4>1, ReverseOf
      <4>3. Reverse(<< >>) = << >>
        BY <4>2, EmptySeq
      <4> QED BY <3>2, <3>3, <4>3
    <3>5. t = << "-" >>
      <4>1. b \in Seq({"-"})
        OBVIOUS
      <4> HIDE DEF b
      <4>2. b \o << >> = b
        BY <4>1, ConcatEmptySeq
      <4> HIDE DEF r
      <4> QED BY <3>4, <4>2 DEF b
    <3>6. Head(t) = "-" /\ Len(t) = 1
      <4>1. Head(<< "-" >>) = "-" /\ Len(<< "-" >>) = 1
        OBVIOUS
      <4> HIDE DEF t
      <4> QED BY <3>5, <4>1
    <3> HIDE DEF t
    <3>7. Head(_print_int(i)) = "-" /\ Len(_print_int(i)) = 1
      BY <2>1, <3>6
    <3>8. ~ (i >= 0)
      BY <1>3, <1>6
    <3> QED BY <3>1, <3>7, <3>8, Zenon
  <2>3. CASE i # - H
    <3>1. i - 1 \in Ints /\ Negated(i) = - i /\ - i \in Nat \ {0}
      BY <1>1, <1>2, <1>2b, <1>3, <1>6, <2>3
    <3>2. PICK k \in Nat \ {0} : k = - i
      BY <3>1
    <3>3. r = Reverse(Digits(10)[k])
      BY <3>1, <3>2
    <3>4. r \in Seq(Digs) /\ Numeral(r, 10, k)
      BY <3>3, <1>0, NumeralOf
    <3> HIDE DEF r
    <3>5. Head(t) = "-" /\ Tail(t) = r
      <4> DEFINE S == Digs \cup {"-"}
      <4>1. r \in Seq(S)
        BY <3>4, SeqMonotonic
      <4>2. "-" \in S
        OBVIOUS
      <4> HIDE DEF S
      <4>3. b \in Seq(S) /\ Len(b) = 1 /\ b[1] = "-" /\ b # << >>
        BY <4>2
      <4> HIDE DEF b
      <4>4. t \in Seq(S) /\ Len(t) = 1 + Len(r) /\ Len(r) \in Nat
            /\ \A j \in 1 .. 1 + Len(r) : t[j] = IF j <= 1 THEN b[j] ELSE r[j - 1]
        <5>1. t \in Seq(S) /\ Len(t) = Len(b) + Len(r)
            /\ \A j \in 1 .. Len(b) + Len(r) : t[j] = IF j <= Len(b) THEN b[j] ELSE r[j - Len(b)]
          BY <4>1, <4>3, ConcatProperties
        <5> HIDE DEF t
        <5> QED BY <4>1, <4>3, <5>1, LenProperties
      <4> HIDE DEF t
      <4>5. t # << >>
        <5>1. Len(t) # 0
          BY <4>4
        <5> QED BY <5>1, <4>4, EmptySeq
      <4>6. /\ Head(t) = t[1] /\ Tail(t) \in Seq(S) /\ Len(Tail(t)) = Len(t) - 1
            /\ \A j \in 1 .. Len(Tail(t)) : Tail(t)[j] = t[j + 1]
        BY <4>4, <4>5, HeadTailProperties
      <4>7. Head(t) = "-"
        <5>1. t[1] = b[1]
          BY <4>4
        <5> QED BY <5>1, <4>3, <4>6
      <4> DEFINE w == Tail(t)
      <4>8. w \in Seq(S) /\ Len(w) = Len(r) /\ \A j \in 1 .. Len(w) : w[j] = r[j]
        <5>1. Len(w) = Len(r)
          BY <4>4, <4>6
        <5>2. ASSUME NEW j \in 1 .. Len(w) PROVE w[j] = r[j]
          <6>1. w[j] = t[j + 1] /\ j + 1 \in 1 .. 1 + Len(r) /\ ~ (j + 1 <= 1) /\ j + 1 - 1 = j
            BY <4>4, <4>6, <5>1
          <6>2. t[j + 1] = r[j + 1 - 1]
            BY <4>4, <6>1
          <6> QED BY <6>1, <6>2
        <5> QED BY <4>6, <5>1, <5>2
      <4> HIDE DEF w
      <4>9. w = r
        BY <4>1, <4>8, SeqEqual
      <4> QED BY <4>7, <4>9 DEF w
    <3> HIDE DEF t
    <3>6. Head(_print_int(i)) = "-" /\ Numeral(Tail(_print_int(i)), 10, -i)
      BY <2>1, <3>2, <3>4, <3>5
    <3>7. ~ (i >= 0)
      BY <1>3, <1>6
    <3> QED BY <3>1, <3>6, <3>7, Zenon
  <2> QED BY <2>2, <2>3
<1> QED BY <1>3, <1>4, <1>5, <1>6

\* A digit is printed as itself.
LEMMA HexDigit ==
  ASSUME NEW d \in 0 .. 15
  PROVE  _print_hex(d) = << Digit(d) >>
<1>0. 16 \in 2 .. 16 /\ 16 \in Nat \ {0} /\ 0 \in Nat /\ d \in 0 .. 16 - 1 /\ 16 * 0 + d = d
  OBVIOUS
<1>1. CASE d = 0
  BY <1>1, DigitZero DEF _print_hex
<1>2. CASE d # 0
  <2>1. _print_hex(d) = Reverse(Digits(16)[d])
    BY <1>2 DEF _print_hex
  <2>2. d \div 16 = 0 /\ d % 16 = d
    <3>1. (16 * 0 + d) \div 16 = 0 /\ (16 * 0 + d) % 16 = d
      BY <1>0, DivModIs
    <3> QED BY <1>0, <3>1
  <2>3. Digits(16)[d] = << Digit(d) >> \o Digits(16)[0]
    <3>1. Digits(16)[d] = << Digit(d % 16) >> \o Digits(16)[d \div 16]
      <4>1. d \in Int /\ d > 0
        BY <1>2
      <4> QED BY <4>1, <1>0, MoreDigits
    <3> QED BY <2>2, <3>1
  <2>4. Digits(16)[0] = << >>
    <3>1. 0 \in Int /\ 0 <= 0
      OBVIOUS
    <3> QED BY <1>0, <3>1, NoDigits
  <2>5. << >> \in Seq(Digs) /\ Digit(d) \in Digs /\ Len(<< >>) = 0
    BY EmptySeq, ValIs
  <2>6. Reverse(<< Digit(d) >> \o << >>) = Append(Reverse(<< >>), Digit(d))
    BY <2>5, ReverseOneMore
  <2>7. Reverse(<< >>) = << >>
    <3>1. Reverse(<< >>) \in Seq(Digs) /\ Len(Reverse(<< >>)) = 0
      BY <2>5, ReverseOf
    <3> QED BY <3>1, EmptySeq
  <2>8. Append(<< >>, Digit(d)) = << Digit(d) >>
    OBVIOUS
  <2> QED BY <2>1, <2>3, <2>4, <2>6, <2>7, <2>8
<1> QED BY <1>1, <1>2

\* n digits, each by an %x of its own.
AllHex(fmt, args, n) ==
  Len(fmt) = 2 * n /\ \A k \in 1 .. n : fmt[2 * k - 1] = "%" /\ fmt[2 * k] = "x" /\ args[k] \in 0 .. 15
HexRun(f, text, args, n) ==
  text = f[1] /\ f[n + 1] = << >> /\ \A k \in 1 .. n : f[k] = << Digit(args[k]) >> \o f[k + 1]

LEMMA HexAll ==
  ASSUME NEW n \in Nat, NEW fmt, NEW args, AllHex(fmt, args, n)
  PROVE  \E f : HexRun(f, _std_fdprintf(fmt, args), args, n)
<1>0. Len(fmt) = 2 * n /\ \A k \in 1 .. n : fmt[2 * k - 1] = "%" /\ fmt[2 * k] = "x" /\ args[k] \in 0 .. 15
  BY DEF AllHex
<1>1. PICK out : Printing(fmt, args, out) /\ _std_fdprintf(fmt, args) = out[<< 1, 1 >>]
  <2>1. Len(fmt) \in Nat
    BY <1>0
  <2> QED BY <2>1, PrintfIs
<1> DEFINE f == [k \in 1 .. n + 1 |-> out[<< 2 * k - 1, k >>]]
<1>2. ASSUME NEW k \in 1 .. n PROVE f[k] = << Digit(args[k]) >> \o f[k + 1]
  <2>1. PICK i \in Nat, m \in Nat, l \in Nat : i = 2 * k - 1 /\ m = 2 * (k + 1) - 1 /\ l = k + 1
    OBVIOUS
  <2>2. m = i + 2 /\ ~ (i > Len(fmt)) /\ i + 1 = 2 * k /\ k \in Nat
    BY <1>0, <2>1
  <2>3. fmt[i] = "%" /\ fmt[i + 1] = "x" /\ args[k] \in 0 .. 15
    <3>1. fmt[2 * k - 1] = "%" /\ fmt[2 * k] = "x" /\ args[k] \in 0 .. 15
      BY <1>0
    <3>2. 2 * k - 1 = i /\ 2 * k = i + 1
      BY <2>1, <2>2
    <3> QED BY <3>1, <3>2
  <2>4. out[<< i, k >>] = << Digit(args[k]) >> \o out[<< m, l >>]
    <3>1. m = i + 2 /\ l = k + 1 /\ ~ (i > Len(fmt)) /\ k \in Nat
      BY <2>1, <2>2
    <3>2. fmt[i + 1] \in Conversions
      BY <2>3 DEF Conversions
    <3>3. out[<< i, k >>] = Convert(fmt[i + 1], args[k]) \o out[<< i + 2, k + 1 >>]
      BY <1>1, <2>3, <3>1, <3>2 DEF Printing
    <3>4. Convert(fmt[i + 1], args[k]) = _print_hex(args[k])
      BY <2>3 DEF Convert
    <3>5. _print_hex(args[k]) = << Digit(args[k]) >>
      BY <2>3, HexDigit
    <3> QED BY <3>1, <3>3, <3>4, <3>5
  <2>5. k \in 1 .. n + 1 /\ l \in 1 .. n + 1
    BY <2>1
  <2>6. f[k] = out[<< i, k >>]
    BY <2>1, <2>5
  <2>7. f[l] = out[<< m, l >>]
    <3>1. f[l] = out[<< 2 * l - 1, l >>]
      BY <2>5
    <3>2. 2 * l - 1 = m
      BY <2>1
    <3> HIDE DEF f
    <3> QED BY <3>1, <3>2
  <2> HIDE DEF f
  <2>8. f[k] = << Digit(args[k]) >> \o f[l]
    BY <2>4, <2>6, <2>7
  <2> QED BY <2>1, <2>8
<1>3. f[n + 1] = << >>
  <2>1. PICK i \in Nat, l \in Nat : i = 2 * (n + 1) - 1 /\ l = n + 1
    OBVIOUS
  <2>2. i > Len(fmt)
    BY <1>0, <2>1
  <2>3. out[<< i, l >>] = << >>
    BY <1>1, <2>2 DEF Printing
  <2> QED BY <2>1, <2>3
<1>4. f[1] = out[<< 1, 1 >>]
  <2>1. PICK o \in 1 .. n + 1 : o = 1 /\ 2 * o - 1 = 1
    OBVIOUS
  <2>2. f[o] = out[<< 2 * o - 1, o >>]
    OBVIOUS
  <2> HIDE DEF f
  <2> QED BY <2>1, <2>2
<1> HIDE DEF f
<1>5. HexRun(f, _std_fdprintf(fmt, args), args, n)
  BY <1>1, <1>2, <1>3, <1>4 DEF HexRun
<1> QED BY <1>5

\* The value of digits that others precede.
LEMMA OneMore ==
  ASSUME NEW s \in Seq(Digs), NEW d \in 0 .. 15, NEW t \in Seq(Digs)
  PROVE  /\ << Digit(d) >> \in Seq(Digs) /\ s \o << Digit(d) >> \in Seq(Digs)
         /\ << Digit(d) >> \o t \in Seq(Digs)
         /\ s \o (<< Digit(d) >> \o t) = (s \o << Digit(d) >>) \o t
         /\ Len(s \o << Digit(d) >>) = Len(s) + 1
         /\ ValueOf(s \o << Digit(d) >>, 16) = ValueOf(s, 16) * 16 + d
<1> DEFINE c == Digit(d)
           b == << c >>
<1>1. c \in Digs /\ Val(c) = d /\ 16 \in Nat
  BY ValIs
<1> HIDE DEF c
<1>2. b \in Seq(Digs) /\ Len(b) = 1
  BY <1>1
<1>3. s \o b = Append(s, c)
  BY <1>1, AppendIsConcat
<1>4. ValueOf(Append(s, c), 16) = ValueOf(s, 16) * 16 + Val(c)
  BY <1>1, ValueAppend
<1> HIDE DEF b
<1>5. /\ s \o b \in Seq(Digs) /\ b \o t \in Seq(Digs) /\ s \o (b \o t) = (s \o b) \o t
      /\ Len(s \o b) = Len(s) + 1
  <2>1. s \o b \in Seq(Digs) /\ Len(s \o b) = Len(s) + Len(b)
    BY <1>2, ConcatProperties
  <2>2. b \o t \in Seq(Digs)
    BY <1>2, ConcatProperties
  <2>3. s \o (b \o t) = (s \o b) \o t
    BY <1>2, ConcatAssociative
  <2> QED BY <1>2, <2>1, <2>2, <2>3
<1>6. ValueOf(s \o b, 16) = ValueOf(s, 16) * 16 + d
  BY <1>1, <1>3, <1>4
<1> QED BY <1>2, <1>5, <1>6 DEF b, c

\* A digit in front of none, and what it stands for.
LEMMA FirstDigit ==
  ASSUME NEW d \in 0 .. 15
  PROVE  << Digit(d) >> \in Seq(Digs) /\ Len(<< Digit(d) >>) = 1 /\ ValueOf(<< Digit(d) >>, 16) = d
<1> DEFINE c == Digit(d)
<1>1. c \in Digs /\ Val(c) = d /\ 16 \in Nat
  BY ValIs
<1> HIDE DEF c
<1>2. ValueOf(<< c >>, 16) = Val(c)
  BY <1>1, OneLetter
<1>3. << c >> \in Seq(Digs) /\ Len(<< c >>) = 1
  BY <1>1
<1> QED BY <1>1, <1>2, <1>3 DEF c

LEMMA DigitFirst ==
  ASSUME NEW d \in 0 .. 15, NEW t \in Seq(Digs)
  PROVE  << Digit(d) >> \o t \in Seq(Digs)
<1> DEFINE s == << Digit(d) >>
<1>1. s \in Seq(Digs)
  BY FirstDigit
<1> HIDE DEF s
<1>2. s \o t \in Seq(Digs)
  BY <1>1, ConcatProperties
<1> QED BY <1>2 DEF s

\* The digits of a number of two, and of four.
LEMMA LastDigit ==
  ASSUME NEW h \in Nat
  PROVE  \E q \in Nat, d \in 0 .. 15 : q = h \div 16 /\ d = h % 16 /\ h = 16 * q + d
<1>1. 16 \in Nat \ {0}
  OBVIOUS
<1> QED BY <1>1, DivMod

LEMMA TwoParts ==
  ASSUME NEW h \in Nat, h < 256
  PROVE  \E a, b \in 0 .. 15 : a = h \div 16 /\ b = h % 16 /\ a * 16 + b = h
<1>1. PICK q1 \in Nat, d0 \in 0 .. 15 : q1 = h \div 16 /\ d0 = h % 16 /\ h = 16 * q1 + d0
  BY LastDigit
<1>2. q1 \in 0 .. 15 /\ q1 * 16 + d0 = h
  BY <1>1
<1> QED BY <1>1, <1>2

Words == 65536
Hex2 == 256
Hex3 == 4096

LEMMA FourParts ==
  ASSUME NEW h \in Nat, h < Words
  PROVE  \E a, b, c, d \in 0 .. 15 :
              /\ a = (h \div Hex3) % 16 /\ b = (h \div Hex2) % 16 /\ c = (h \div 16) % 16 /\ d = h % 16
              /\ ((a * 16 + b) * 16 + c) * 16 + d = h
<1>0. 16 \in Nat \ {0} /\ 0 \in Nat
  OBVIOUS
<1>1. PICK q1 \in Nat, d0 \in 0 .. 15 : q1 = h \div 16 /\ d0 = h % 16 /\ h = 16 * q1 + d0
  BY LastDigit, Zenon
<1>2. PICK q2 \in Nat, d1 \in 0 .. 15 : q2 = q1 \div 16 /\ d1 = q1 % 16 /\ q1 = 16 * q2 + d1
  BY LastDigit, Zenon
<1>3. PICK q3 \in Nat, d2 \in 0 .. 15 : q3 = q2 \div 16 /\ d2 = q2 % 16 /\ q2 = 16 * q3 + d2
  BY LastDigit, Zenon
<1> DEFINE m == Hex2
           n == Hex3
<1>4. m \in Nat \ {0}
  BY SMT DEF Hex2
<1>5. n \in Nat \ {0}
  BY SMT DEF Hex3
<1> HIDE DEF m, n
<1>6. h \div m = q2
  <2>1. PICK r \in 0 .. m - 1 : r = 16 * d1 + d0
    BY SMT DEF m, Hex2
  <2>2. h = m * q2 + r
    BY <1>1, <1>2, <2>1, SMT DEF m, Hex2
  <2>3. (m * q2 + r) \div m = q2
    BY <1>4, DivModIs, SMT
  <2> QED BY <2>2, <2>3, Zenon
<1>7. h \div n = q3
  <2>1. PICK r \in 0 .. n - 1 : r = 256 * d2 + 16 * d1 + d0
    BY SMT DEF n, Hex3
  <2>2. h = n * q3 + r
    BY <1>1, <1>2, <1>3, <2>1, SMT DEF n, Hex3
  <2>3. (n * q3 + r) \div n = q3
    BY <1>5, DivModIs, SMT
  <2> QED BY <2>2, <2>3, Zenon
<1>8. q3 \in 0 .. 15
  BY <1>1, <1>2, <1>3, SMT DEF Words
<1>9. q3 % 16 = q3
  BY <1>8, SMT
<1>10. ((q3 * 16 + d2) * 16 + d1) * 16 + d0 = h
  BY <1>1, <1>2, <1>3, SMT
<1>11. /\ q3 = (h \div n) % 16 /\ d2 = (h \div m) % 16 /\ d1 = (h \div 16) % 16 /\ d0 = h % 16
  <2>1. q3 = (h \div n) % 16
    BY <1>7, <1>9, Zenon
  <2>2. d2 = (h \div m) % 16
    BY <1>3, <1>6, Zenon
  <2>3. d1 = (h \div 16) % 16
    BY <1>1, <1>2, Zenon
  <2> QED BY <1>1, <2>1, <2>2, <2>3, Zenon
<1>12. \E a, b, c, d \in 0 .. 15 :
              /\ a = (h \div n) % 16 /\ b = (h \div m) % 16 /\ c = (h \div 16) % 16 /\ d = h % 16
              /\ ((a * 16 + b) * 16 + c) * 16 + d = h
  BY <1>8, <1>10, <1>11, Zenon
<1> QED BY <1>12, Zenon DEF m, n

\* A byte's two digits, and a word's four, each printed by an %x.
Bytes_ == << "%", "x", "%", "x" >>
Words_ == << "%", "x", "%", "x", "%", "x", "%", "x" >>

LEMMA TwoFormat == Len(Bytes_) = 2 * 2 /\ \A k \in 1 .. 2 : Bytes_[2 * k - 1] = "%" /\ Bytes_[2 * k] = "x"
<1>1. Len(Bytes_) = 4 /\ 2 * 2 = 4
  BY DEF Bytes_
<1>2. \A k \in 1 .. 2 : Bytes_[2 * k - 1] = "%" /\ Bytes_[2 * k] = "x"
  <2> TAKE k \in 1 .. 2
  <2>1. k = 1 \/ k = 2
    OBVIOUS
  <2> QED BY <2>1 DEF Bytes_
<1> QED BY <1>1, <1>2

LEMMA FourFormat == Len(Words_) = 2 * 4 /\ \A k \in 1 .. 4 : Words_[2 * k - 1] = "%" /\ Words_[2 * k] = "x"
<1>1. Len(Words_) = 8 /\ 2 * 4 = 8
  BY DEF Words_
<1>2. \A k \in 1 .. 4 : Words_[2 * k - 1] = "%" /\ Words_[2 * k] = "x"
  <2> TAKE k \in 1 .. 4
  <2>1. k = 1 \/ k = 2 \/ k = 3 \/ k = 4
    OBVIOUS
  <2> QED BY <2>1 DEF Words_
<1> QED BY <1>1, <1>2

\* n digits, when what remains to be printed is named.
LEMMA TwoPrinted ==
  ASSUME NEW a \in 0 .. 15, NEW b \in 0 .. 15
  PROVE  _std_fdprintf(Bytes_, << a, b >>) = << Digit(a) >> \o (<< Digit(b) >> \o << >>)
<1> DEFINE args == << a, b >>
<1>0. args[1] = a /\ args[2] = b
  OBVIOUS
<1> HIDE DEF args
<1>1. \A k \in 1 .. 2 : Bytes_[2 * k - 1] = "%" /\ Bytes_[2 * k] = "x" /\ args[k] \in 0 .. 15
  <2> TAKE k \in 1 .. 2
  <2>1. args[k] \in 0 .. 15
    <3>1. k = 1 \/ k = 2
      OBVIOUS
    <3> QED BY <1>0, <3>1
  <2> QED BY <2>1, TwoFormat
<1>2. PICK f : HexRun(f, _std_fdprintf(Bytes_, args), args, 2)
  <2>1. AllHex(Bytes_, args, 2) /\ 2 \in Nat
    BY <1>1, TwoFormat DEF AllHex
  <2> QED BY <2>1, HexAll
<1>3. f[1] = << Digit(a) >> \o f[2] /\ f[2] = << Digit(b) >> \o f[3] /\ f[3] = << >>
  <2>1. 1 \in 1 .. 2 /\ 2 \in 1 .. 2 /\ 1 + 1 = 2 /\ 2 + 1 = 3
    OBVIOUS
  <2> QED BY <1>0, <1>2, <2>1 DEF HexRun
<1> QED BY <1>2, <1>3, Zenon DEF args, HexRun

Four(a, b, c, d) ==
  << Digit(a) >> \o (<< Digit(b) >> \o (<< Digit(c) >> \o (<< Digit(d) >> \o << >>)))

LEMMA FourPrinted ==
  ASSUME NEW a \in 0 .. 15, NEW b \in 0 .. 15, NEW c \in 0 .. 15, NEW d \in 0 .. 15
  PROVE  _std_fdprintf(Words_, << a, b, c, d >>) = Four(a, b, c, d)
<1> DEFINE args == << a, b, c, d >>
<1>0. args[1] = a /\ args[2] = b /\ args[3] = c /\ args[4] = d
  OBVIOUS
<1> HIDE DEF args
<1>1. \A k \in 1 .. 4 : Words_[2 * k - 1] = "%" /\ Words_[2 * k] = "x" /\ args[k] \in 0 .. 15
  <2> TAKE k \in 1 .. 4
  <2>1. args[k] \in 0 .. 15
    <3>1. k = 1 \/ k = 2 \/ k = 3 \/ k = 4
      OBVIOUS
    <3> QED BY <1>0, <3>1
  <2> QED BY <2>1, FourFormat
<1>2. PICK f : HexRun(f, _std_fdprintf(Words_, args), args, 4)
  <2>1. AllHex(Words_, args, 4) /\ 4 \in Nat
    BY <1>1, FourFormat DEF AllHex
  <2> QED BY <2>1, HexAll
<1>3. /\ f[1] = << Digit(a) >> \o f[2] /\ f[2] = << Digit(b) >> \o f[3]
      /\ f[3] = << Digit(c) >> \o f[4] /\ f[4] = << Digit(d) >> \o f[5] /\ f[5] = << >>
  <2>1. /\ 1 \in 1 .. 4 /\ 2 \in 1 .. 4 /\ 3 \in 1 .. 4 /\ 4 \in 1 .. 4
        /\ 1 + 1 = 2 /\ 2 + 1 = 3 /\ 3 + 1 = 4 /\ 4 + 1 = 5
    OBVIOUS
  <2> QED BY <1>0, <1>2, <2>1 DEF HexRun
<1> QED BY <1>2, <1>3, Zenon DEF args, HexRun, Four

\* What they add up to.
LEMMA TwoDigits ==
  ASSUME NEW a \in 0 .. 15, NEW b \in 0 .. 15, NEW z, z = << Digit(a) >> \o (<< Digit(b) >> \o << >>)
  PROVE  Len(z) = 2 /\ ValueOf(z, 16) = a * 16 + b
<1> DEFINE s == << Digit(a) >>
           t == s \o << Digit(b) >>
<1>1. s \in Seq(Digs) /\ Len(s) = 1 /\ ValueOf(s, 16) = a /\ << >> \in Seq(Digs)
  BY FirstDigit, EmptySeq
<1> HIDE DEF s
<1>2. /\ s \o (<< Digit(b) >> \o << >>) = t \o << >> /\ t \in Seq(Digs) /\ Len(t) = Len(s) + 1
      /\ ValueOf(t, 16) = ValueOf(s, 16) * 16 + b
  BY <1>1, OneMore
<1> HIDE DEF t
<1>3. t \o << >> = t
  BY <1>2, ConcatEmptySeq
<1>4. z = t
  BY <1>2, <1>3 DEF s
<1>5. Len(t) = 2 /\ ValueOf(t, 16) = a * 16 + b
  BY <1>1, <1>2
<1> QED BY <1>4, <1>5

FourValue(a, b, c, d) == ((a * 16 + b) * 16 + c) * 16 + d

LEMMA FourDigits ==
  ASSUME NEW a \in 0 .. 15, NEW b \in 0 .. 15,
         NEW c \in 0 .. 15, NEW d \in 0 .. 15
  PROVE  Len(Four(a, b, c, d)) = 4 /\ ValueOf(Four(a, b, c, d), 16) = FourValue(a, b, c, d)
<1> DEFINE f == Four(a, b, c, d)
           i == << Digit(d) >> \o << >>
           h == << Digit(c) >> \o i
           g == << Digit(b) >> \o h
           s == << Digit(a) >>
           t == s \o << Digit(b) >>
           u == t \o << Digit(c) >>
           v == u \o << Digit(d) >>
<1>1. s \in Seq(Digs) /\ Len(s) = 1 /\ ValueOf(s, 16) = a /\ << >> \in Seq(Digs)
  BY FirstDigit, EmptySeq
<1>2. i \in Seq(Digs)
  BY <1>1, DigitFirst
<1>3. h \in Seq(Digs)
  <2> HIDE DEF i
  <2> QED BY <1>2, DigitFirst
<1>4. f = s \o g /\ g = << Digit(b) >> \o h /\ h = << Digit(c) >> \o i /\ i = << Digit(d) >> \o << >>
  BY Zenon DEF Four
<1> HIDE DEF s, i, h, g, f
<1>5. /\ s \o (<< Digit(b) >> \o h) = t \o h /\ t \in Seq(Digs) /\ Len(t) = Len(s) + 1
      /\ ValueOf(t, 16) = ValueOf(s, 16) * 16 + b
  <2>1. s \in Seq(Digs) /\ h \in Seq(Digs) /\ b \in 0 .. 15
    BY <1>1, <1>3
  <2>2. s \o (<< Digit(b) >> \o h) = (s \o << Digit(b) >>) \o h
    BY <2>1, OneMore
  <2>3. /\ s \o << Digit(b) >> \in Seq(Digs) /\ Len(s \o << Digit(b) >>) = Len(s) + 1
        /\ ValueOf(s \o << Digit(b) >>, 16) = ValueOf(s, 16) * 16 + b
    BY <2>1, OneMore
  <2> QED BY <2>2, <2>3
<1> HIDE DEF t
<1>6. /\ t \o (<< Digit(c) >> \o i) = u \o i /\ u \in Seq(Digs) /\ Len(u) = Len(t) + 1
      /\ ValueOf(u, 16) = ValueOf(t, 16) * 16 + c
  BY <1>2, <1>5, OneMore
<1> HIDE DEF u
<1>7. /\ u \o (<< Digit(d) >> \o << >>) = v \o << >> /\ v \in Seq(Digs) /\ Len(v) = Len(u) + 1
      /\ ValueOf(v, 16) = ValueOf(u, 16) * 16 + d
  BY <1>1, <1>6, OneMore
<1> HIDE DEF v
<1>8. v \o << >> = v
  BY <1>7, ConcatEmptySeq
<1>9. f = v
  BY <1>4, <1>5, <1>6, <1>7, <1>8
<1>10. Len(v) = 4
  BY <1>1, <1>5, <1>6, <1>7
<1>11. ValueOf(v, 16) = FourValue(a, b, c, d)
  BY <1>1, <1>5, <1>6, <1>7 DEF FourValue
<1> QED BY <1>9, <1>10, <1>11 DEF f

\* hexd's bytes and addresses, with all their digits.
LEMMA BytePrinted ==
  ASSUME NEW h \in Nat, h < 256
  PROVE  Len(_print_byte(h)) = 2 /\ ValueOf(_print_byte(h), 16) = h
<1>1. PICK a \in 0 .. 15, b \in 0 .. 15 : a = h \div 16 /\ b = h % 16 /\ a * 16 + b = h
  BY TwoParts
<1>2. _print_byte(h) = _std_fdprintf(Bytes_, << a, b >>)
  BY <1>1 DEF _print_byte, Bytes_
<1>3. _print_byte(h) = << Digit(a) >> \o (<< Digit(b) >> \o << >>)
  BY <1>2, TwoPrinted, Zenon
<1> QED BY <1>1, <1>3, TwoDigits

LEMMA WordPrinted ==
  ASSUME NEW h \in Nat, h < Words
  PROVE  Len(_print_word(h)) = 4 /\ ValueOf(_print_word(h), 16) = h
<1>1. PICK a \in 0 .. 15, b \in 0 .. 15, c \in 0 .. 15, d \in 0 .. 15 :
        /\ a = (h \div Hex3) % 16 /\ b = (h \div Hex2) % 16 /\ c = (h \div 16) % 16 /\ d = h % 16
        /\ FourValue(a, b, c, d) = h
  BY FourParts, Zenon DEF FourValue
<1>2. _print_word(h) = _std_fdprintf(Words_, << a, b, c, d >>)
  BY <1>1, SMT DEF _print_word, Words_, Hex2, Hex3
<1>3. _print_word(h) = Four(a, b, c, d)
  BY <1>2, FourPrinted
<1>5. Len(_print_word(h)) = 4 /\ ValueOf(_print_word(h), 16) = FourValue(a, b, c, d)
  <2> DEFINE z == Four(a, b, c, d)
             y == FourValue(a, b, c, d)
  <2>1. Len(z) = 4 /\ ValueOf(z, 16) = y
    <3> QED BY FourDigits
  <2> HIDE DEF z, y
  <2>2. _print_word(h) = z
    BY <1>3 DEF z
  <2> QED BY <2>1, <2>2 DEF y
<1>4. FourValue(a, b, c, d) = h
  BY <1>1, SMT
<1> QED BY <1>4, <1>5, Zenon

\* _print_int and _print_hex print each number as its numeral, without zeros in front,
\* the least int as a sign alone (stdlib/stdio.c); hexd's bytes and addresses have two
\* and four digits, of that value (user/hexd.c).
THEOREM NumbersPrinted == PrintsNumbers
<1>1. \A i \in Ints : IF i >= 0 THEN Numeral(_print_int(i), 10, i)
                      ELSE /\ Head(_print_int(i)) = "-"
                           /\ IF i - 1 \notin Ints THEN Len(_print_int(i)) = 1
                              ELSE Numeral(Tail(_print_int(i)), 10, -i)
  BY IntNumeral
<1>2. \A x \in OneWord : Numeral(_print_hex(x), 16, x)
  BY LibraryAssumption, HexNumeral, SMT
<1>3. \A h \in OneByte : Len(_print_byte(h)) = 2 /\ ValueOf(_print_byte(h), 16) = h
  BY LibraryAssumption, BytePrinted, SMT
<1>4. \A h \in OneWord : Len(_print_word(h)) = 4 /\ ValueOf(_print_word(h), 16) = h
  <2>1. \A h \in OneWord : h \in Nat /\ h < Words
    BY LibraryAssumption, SMT DEF Words
  <2> QED BY <2>1, WordPrinted
<1> QED BY <1>1, <1>2, <1>3, <1>4, Zenon DEF PrintsNumbers

-----------------------------------------------------------------------------
\* Formats, part by part.

\* The concatenation of the s[k] has s[k] from a[k - 1] on, up to a[k].
Divides(a, s, r) ==
  /\ a[0] = 1 /\ a[Len(s)] = Len(r) + 1
  /\ \A k \in 1 .. Len(s) : /\ a[k] = a[k - 1] + Len(s[k]) /\ a[k] <= a[Len(s)]
                            /\ \A j \in 1 .. Len(s[k]) : r[a[k - 1] + j - 1] = s[k][j]

\* Every concatenation is divided like that.
LEMMA SplitAt ==
  ASSUME NEW S, NEW s \in Seq(Seq(S))
  PROVE  \E b \in [0 .. Len(s) -> Nat] : Divides(b, s, FlattenSeq(s))
<1> DEFINE n == Len(s)
<1>0. n \in Nat /\ \A k \in 1 .. n : s[k] \in Seq(S)
  OBVIOUS
<1> HIDE DEF n
<1>1. PICK f \in [0 .. n -> Seq(S)] : Sums(f, s)
  BY SumExists DEF n
<1>2. FlattenSeq(s) = f[n]
  BY <1>1, FlattenSum DEF n
<1> DEFINE l == [k \in 0 .. n |-> Len(f[k])]
<1>3. l \in [0 .. n -> Nat] /\ \A k \in 0 .. n : l[k] = Len(f[k])
  <2>1. \A k \in 0 .. n : Len(f[k]) \in Nat
    <3> TAKE k \in 0 .. n
    <3>1. f[k] \in Seq(S)
      OBVIOUS
    <3> QED BY <3>1, LenProperties
  <2> QED BY <2>1
<1> HIDE DEF l
<1>4. f[0] = << >> /\ \A k \in 1 .. n : f[k] = f[k - 1] \o s[k]
  BY <1>1 DEF Sums, n
<1>5. ASSUME NEW k \in 1 .. n
      PROVE  /\ k - 1 \in 0 .. n /\ k \in 0 .. n /\ Len(s[k]) \in Nat /\ l[k] = l[k - 1] + Len(s[k])
             /\ \A i \in 1 .. l[k - 1] : f[k][i] = f[k - 1][i]
             /\ \A j \in 1 .. Len(s[k]) : f[k][l[k - 1] + j] = s[k][j]
  <2>1. PICK m \in 0 .. n : m = k - 1
    BY <1>0
  <2>2. k \in 0 .. n
    BY <1>0
  <2> DEFINE x == f[m]
             y == s[k]
             z == f[k]
  <2>3. x \in Seq(S) /\ y \in Seq(S) /\ z = x \o y /\ l[m] = Len(x) /\ l[k] = Len(z)
    BY <1>0, <1>3, <1>4, <2>1, <2>2
  <2> HIDE DEF x, y, z
  <2>4. /\ Len(z) = Len(x) + Len(y) /\ Len(x) \in Nat /\ Len(y) \in Nat
        /\ \A i \in 1 .. Len(x) + Len(y) : z[i] = IF i <= Len(x) THEN x[i] ELSE y[i - Len(x)]
    BY <2>3, ConcatProperties, LenProperties
  <2>5. \A i \in 1 .. Len(x) : z[i] = x[i]
    BY <2>4
  <2>6. ASSUME NEW j \in 1 .. Len(y) PROVE z[Len(x) + j] = y[j]
    <3>1. PICK c \in Nat, d \in Nat : c = Len(x) /\ d = Len(y)
      BY <2>4
    <3>2. PICK i \in 1 .. c + d : i = c + j /\ ~ (i <= c) /\ i - c = j
      BY <3>1
    <3>3. z[i] = IF i <= c THEN x[i] ELSE y[i - c]
      BY <2>4, <3>1
    <3> QED BY <3>1, <3>2, <3>3
  <2> QED BY <2>1, <2>2, <2>3, <2>4, <2>5, <2>6 DEF x, y, z
<1>6. ASSUME NEW k \in 0 .. n
      PROVE  l[k] <= l[n] /\ \A i \in 1 .. l[k] : f[n][i] = f[k][i]
  <2> DEFINE T == { m \in 0 .. n : m < k \/ (l[k] <= l[m] /\ \A i \in 1 .. l[k] : f[m][i] = f[k][i]) }
  <2>1. 0 \in T
    BY <1>0, <1>3
  <2>2. ASSUME NEW m \in 1 .. n, m - 1 \in T PROVE m \in T
    <3>1. PICK o \in 0 .. n : o = m - 1
      BY <1>0
    <3>2. l[o] \in Nat /\ l[m] \in Nat /\ l[k] \in Nat /\ Len(s[m]) \in Nat /\ l[m] = l[o] + Len(s[m])
          /\ \A i \in 1 .. l[o] : f[m][i] = f[o][i]
      BY <1>3, <1>5, <3>1
    <3>3. CASE m <= k
      BY <1>0, <1>3, <3>3
    <3>4. CASE m > k
      <4>1. l[k] <= l[o] /\ \A i \in 1 .. l[k] : f[o][i] = f[k][i]
        BY <2>2, <3>1, <3>4
      <4>2. l[k] <= l[m]
        BY <3>2, <4>1
      <4>3. \A i \in 1 .. l[k] : f[m][i] = f[k][i]
        BY <3>2, <4>1
      <4> QED BY <1>0, <4>2, <4>3
    <3> QED BY <3>3, <3>4, <1>0
  <2>3. 0 .. n \subseteq T
    <3> HIDE DEF T
    <3>1. \A m \in 1 .. n : m - 1 \in T => m \in T
      BY <2>2
    <3> QED BY <1>0, <2>1, <3>1, UpToAll
  <2>4. n \in T
    <3> HIDE DEF T
    <3> QED BY <1>0, <2>3
  <2> QED BY <1>0, <2>4
<1> DEFINE a == [k \in 0 .. n |-> l[k] + 1]
<1>7. a \in [0 .. n -> Nat] /\ \A k \in 0 .. n : a[k] = l[k] + 1
  BY <1>3
<1> HIDE DEF a
<1>8. l[0] = 0 /\ 0 \in 0 .. n /\ n \in 0 .. n
  <2>1. Len(<< >>) = 0
    OBVIOUS
  <2> QED BY <1>0, <1>3, <1>4, <2>1
<1> DEFINE r == f[n]
<1>9. a[0] = 1 /\ a[n] = Len(r) + 1
  BY <1>3, <1>7, <1>8
<1>10. ASSUME NEW k \in 1 .. n
       PROVE  /\ a[k] = a[k - 1] + Len(s[k]) /\ a[k] <= a[n]
              /\ \A j \in 1 .. Len(s[k]) : r[a[k - 1] + j - 1] = s[k][j]
  <2>1. PICK m \in 0 .. n : m = k - 1
    BY <1>0
  <2>2. /\ Len(s[k]) \in Nat /\ l[k] = l[m] + Len(s[k])
        /\ l[m] \in Nat /\ l[k] \in Nat /\ l[n] \in Nat /\ l[k] <= l[n]
    BY <1>3, <1>5, <1>6, <1>8, <2>1
  <2>3. a[k] = l[k] + 1 /\ a[m] = l[m] + 1 /\ a[n] = l[n] + 1
    <3>1. k \in 0 .. n
      BY <1>0
    <3> QED BY <1>7, <1>8, <3>1
  <2>4. \A j \in 1 .. Len(s[k]) : f[k][l[m] + j] = s[k][j]
    BY <1>5, <2>1
  <2>5. \A i \in 1 .. l[k] : r[i] = f[k][i]
    BY <1>6, <1>0
  <2> HIDE DEF r
  <2>6. ASSUME NEW j \in 1 .. Len(s[k]) PROVE r[a[m] + j - 1] = s[k][j]
    <3>1. PICK i \in 1 .. l[k] : i = l[m] + j
      BY <2>2
    <3>2. a[m] + j - 1 = i
      BY <2>2, <2>3, <3>1
    <3>3. f[k][i] = s[k][j]
      BY <2>4, <3>1
    <3> QED BY <2>5, <3>2, <3>3
  <2>7. a[k] = a[m] + Len(s[k]) /\ a[k] <= a[n]
    <3>1. PICK c \in Nat, d \in Nat, e \in Nat : c = l[m] /\ d = Len(s[k]) /\ e = l[n]
      BY <2>2
    <3>2. a[k] = c + d + 1 /\ a[m] = c + 1 /\ a[n] = e + 1 /\ c + d <= e
      BY <2>2, <2>3, <3>1
    <3>3. c + d + 1 = (c + 1) + d /\ c + d + 1 <= e + 1
      BY <3>2
    <3> QED BY <3>1, <3>2, <3>3
  <2> QED BY <2>1, <2>6, <2>7
<1> HIDE DEF r
<1>11. Divides(a, s, r)
  BY <1>9, <1>10 DEF Divides, n
<1>12. Divides(a, s, FlattenSeq(s))
  <2>1. r = FlattenSeq(s)
    BY <1>2 DEF r
  <2> QED BY <1>11, <2>1
<1>13. a \in [0 .. Len(s) -> Nat]
  BY <1>7 DEF n
<1>14. \E b \in [0 .. Len(s) -> Nat] : Divides(b, s, FlattenSeq(s))
  <2> WITNESS a \in [0 .. Len(s) -> Nat]
  <2> QED BY <1>12
<1> QED BY <1>14

Associative(r, s, t) == (r \o s) \o t = r \o (s \o t)

LEMMA Associates ==
  ASSUME NEW r, NEW s, NEW t, Sequence(r), Sequence(s), Sequence(t)
  PROVE  Associative(r, s, t)
<1>1. /\ Sequence(r \o s) /\ (r \o s) \o t = r \o (s \o t)
      /\ r \o << >> = r /\ << >> \o r = r
      /\ \A x : Sequence(<< x >>) /\ Append(r, x) = r \o << x >>
  BY Concats
<1> QED BY <1>1 DEF Associative

Shown == Letters \cup Digs \cup {"-"}

\* What numbers and parts of formats print are sequences.
LEMMA ReverseShown == \A base \in 2 .. 16, x \in Int : Reverse(Digits(base)[x]) \in Seq(Digs)
<1> TAKE base \in 2 .. 16, x \in Int
<1>1. CASE x <= 0
  <2>1. Digits(base)[x] = << >>
    BY <1>1, NoDigits
  <2>2. << >> \in Seq(Digs) /\ Reverse(<< >>) \in Seq(Digs)
    BY EmptySeq, ReverseOf
  <2> QED BY <2>1, <2>2
<1>2. CASE x > 0
  <2>1. x \in Nat \ {0}
    BY <1>2
  <2> QED BY <2>1, NumeralOf
<1> QED BY <1>1, <1>2

LEMMA IntShown == \A i \in Int : _print_int(i) \in Seq(Digs \cup {"-"})
<1> TAKE i \in Int
<1> DEFINE D == Digs \cup {"-"}
<1>0. 10 \in 2 .. 16
  OBVIOUS
<1>1. Negated(i) \in Int
  <2>1. IntMod \div 2 \in Nat
    <3>1. IntMod \in Nat /\ 2 \in Nat \ {0}
      BY LibraryAssumption
    <3> QED BY <3>1, DivMod
  <2> QED BY <2>1 DEF Negated
<1>2. \A x \in Int : Reverse(Digits(10)[x]) \in Seq(D)
  <2> TAKE x \in Int
  <2>1. Reverse(Digits(10)[x]) \in Seq(Digs)
    BY <1>0, ReverseShown
  <2> QED BY <2>1, SeqMonotonic
<1>3. << "0" >> \in Seq(D) /\ << "-" >> \in Seq(D)
  <2>1. "0" \in D /\ "-" \in D
    BY DigitZero
  <2> HIDE DEF D
  <2> QED BY <2>1
<1> HIDE DEF D
<1> DEFINE r == Reverse(Digits(10)[Negated(i)])
<1>4. r \in Seq(D)
  BY <1>1, <1>2
<1> HIDE DEF r
<1>5. << "-" >> \o r \in Seq(D)
  <2> DEFINE b == << "-" >>
  <2>1. b \in Seq(D)
    BY <1>3
  <2> HIDE DEF b
  <2>2. b \o r \in Seq(D)
    BY <1>4, <2>1, ConcatProperties
  <2> QED BY <2>2 DEF b
<1>6. Reverse(Digits(10)[i]) \in Seq(D)
  BY <1>2
<1>7. _print_int(i) \in { << "0" >>, << "-" >> \o r, Reverse(Digits(10)[i]) }
  BY DEF _print_int, r
<1> QED BY <1>3, <1>5, <1>6, <1>7 DEF D

\* What a part of a format stands for, by what it is.
LEMMA PieceIs ==
  ASSUME NEW p \in Pieces
  PROVE  \/ /\ p[1] = "text" /\ p[2] \in Letters
            /\ Written(p) = << p[2] >> /\ Argument(p) = << >> /\ Printed(p) = << p[2] >>
         \/ p[1] = "%" /\ Written(p) = << "%", p[1] >> /\ Argument(p) = << >> /\ Printed(p) = << >>
         \/ /\ p[1] \in {"d", "x", "c", "s"}
            /\ Written(p) = << "%", p[1] >> /\ Argument(p) = << p[2] >>
            /\ Printed(p) = Convert(p[1], p[2])
<1>1. \/ p[1] = "text" /\ p[2] \in Letters
      \/ p[1] = "%"
      \/ p[1] \in {"d", "x", "c", "s"}
  BY DEF Pieces
<1>2. CASE p[1] = "text" /\ p[2] \in Letters
  BY <1>2 DEF Written, Argument, Printed, Takes
<1>3. CASE p[1] = "%"
  BY <1>3 DEF Written, Argument, Printed, Takes
<1>4. CASE p[1] \in {"d", "x", "c", "s"}
  BY <1>4 DEF Written, Argument, Printed, Takes
<1> QED BY <1>1, <1>2, <1>3, <1>4

LEMMA PieceShown == \A p \in Pieces : Printed(p) \in Seq(Shown)
<1> TAKE p \in Pieces
<1>0. \A s \in Seq(Letters) : s \in Seq(Shown)
  <2> TAKE s \in Seq(Letters)
  <2>1. Letters \subseteq Shown
    BY DEF Shown
  <2> QED BY <2>1, SeqMonotonic
<1>1. CASE p[1] = "text" /\ p[2] \in Letters
  <2>1. Printed(p) = << p[2] >> /\ p[2] \in Shown
    BY <1>1 DEF Printed, Takes, Shown
  <2> QED BY <2>1
<1>2. CASE p[1] = "%"
  <2>1. Printed(p) = << >>
    BY <1>2 DEF Printed
  <2> QED BY <2>1, EmptySeq
<1>3. CASE p[1] = "d" /\ p[2] \in Int
  <2>1. Printed(p) = _print_int(p[2])
    BY <1>3 DEF Printed, Takes, Convert
  <2>2. _print_int(p[2]) \in Seq(Digs \cup {"-"}) /\ Digs \cup {"-"} \subseteq Shown
    BY <1>3, IntShown DEF Shown
  <2> QED BY <2>1, <2>2, SeqMonotonic
<1>4. CASE p[1] = "x" /\ p[2] \in Nat
  <2>1. Printed(p) = _print_hex(p[2])
    BY <1>4 DEF Printed, Takes, Convert
  <2>2. _print_hex(p[2]) \in Seq(Digs)
    <3>1. 16 \in 2 .. 16 /\ p[2] \in Int
      BY <1>4
    <3>2. Reverse(Digits(16)[p[2]]) \in Seq(Digs)
      BY <3>1, ReverseShown
    <3>3. << "0" >> \in Seq(Digs)
      BY DigitZero
    <3> QED BY <3>2, <3>3 DEF _print_hex
  <2>3. Digs \subseteq Shown
    BY DEF Shown
  <2> QED BY <2>1, <2>2, <2>3, SeqMonotonic
<1>5. CASE p[1] = "c" /\ p[2] \in Letters
  <2>1. Printed(p) = << p[2] >> /\ p[2] \in Shown
    BY <1>5 DEF Printed, Takes, Convert, Shown
  <2> QED BY <2>1
<1>6. CASE p[1] = "s" /\ p[2] \in SeqOf(Letters, 2)
  <2>1. Printed(p) = p[2]
    BY <1>6 DEF Printed, Takes, Convert
  <2>2. p[2] \in Seq(Letters)
    <3> DEFINE t == p[2]
    <3>1. PICK m \in 0 .. 2 : t \in [1 .. m -> Letters]
      BY <1>6 DEF SeqOf
    <3> HIDE DEF t
    <3>2. t \in Seq(Letters)
      BY <3>1
    <3> QED BY <3>2 DEF t
  <2> QED BY <1>0, <2>1, <2>2
<1>7. -12 \in Int /\ 0 \in Int /\ 31 \in Nat /\ 0 \in Nat
  OBVIOUS
<1> QED BY <1>1, <1>2, <1>3, <1>4, <1>5, <1>6, <1>7 DEF Pieces

\* A part of the format from i up to k, and its argument from j up to l.
PieceAt(fmt, args, p, i, j, k, l) ==
  /\ k = i + Len(Written(p)) /\ l = j + Len(Argument(p)) /\ k <= Len(fmt) + 1
  /\ \A m \in 1 .. Len(Written(p)) : fmt[i + m - 1] = Written(p)[m]
  /\ \A m \in 1 .. Len(Argument(p)) : args[j + m - 1] = Argument(p)[m]

Prints(out, p, i, j, k, l) == out[<< i, j >>] = Printed(p) \o out[<< k, l >>]

\* It prints what it stands for, in front of what follows.
LEMMA PieceNext ==
  ASSUME NEW fmt, NEW args, NEW out, Printing(fmt, args, out), Len(fmt) \in Nat,
         NEW p \in Pieces, NEW i \in Nat, NEW j \in Nat, NEW k \in Nat, NEW l \in Nat,
         PieceAt(fmt, args, p, i, j, k, l), Sequence(out[<< k, l >>])
  PROVE  Prints(out, p, i, j, k, l)
<1> SUFFICES out[<< i, j >>] = Printed(p) \o out[<< k, l >>]
  BY DEF Prints
<1>a. /\ k = i + Len(Written(p)) /\ l = j + Len(Argument(p)) /\ k <= Len(fmt) + 1
      /\ \A m \in 1 .. Len(Written(p)) : fmt[i + m - 1] = Written(p)[m]
      /\ \A m \in 1 .. Len(Argument(p)) : args[j + m - 1] = Argument(p)[m]
  BY DEF PieceAt
<1>0. "%" \notin Letters
  BY LibraryAssumption
<1>1. CASE /\ p[1] = "text" /\ p[2] \in Letters
           /\ Written(p) = << p[2] >> /\ Argument(p) = << >> /\ Printed(p) = << p[2] >>
  <2>1. k = i + 1 /\ l = j /\ ~ (i > Len(fmt))
    BY <1>a, <1>1
  <2>2. fmt[i] = p[2]
    <3>1. 1 \in 1 .. Len(Written(p)) /\ Written(p)[1] = p[2] /\ i + 1 - 1 = i
      BY <1>1
    <3>2. fmt[i + 1 - 1] = Written(p)[1]
      BY <1>a, <3>1
    <3> QED BY <3>1, <3>2
  <2>3. out[<< i, j >>] = << fmt[i] >> \o out[<< i + 1, j >>]
    BY <1>0, <1>1, <2>1, <2>2 DEF Printing
  <2> QED BY <1>1, <2>1, <2>2, <2>3
<1>2. ASSUME NEW c, Written(p) = << "%", c >>
      PROVE  k = i + 2 /\ ~ (i > Len(fmt)) /\ fmt[i] = "%" /\ fmt[i + 1] = c
  <2>1. Len(Written(p)) = 2 /\ Written(p)[1] = "%" /\ Written(p)[2] = c
    BY <1>2
  <2>2. fmt[i + 1 - 1] = "%" /\ fmt[i + 2 - 1] = c
    <3>1. 1 \in 1 .. Len(Written(p)) /\ 2 \in 1 .. Len(Written(p))
      BY <2>1
    <3> QED BY <1>a, <2>1, <3>1
  <2>3. i + 1 - 1 = i /\ i + 2 - 1 = i + 1
    OBVIOUS
  <2>4. fmt[i] = "%" /\ fmt[i + 1] = c
    BY <2>2, <2>3
  <2>5. k = i + 2 /\ ~ (i > Len(fmt))
    BY <1>a, <2>1
  <2> QED BY <2>4, <2>5
<1>3. CASE p[1] = "%" /\ Written(p) = << "%", p[1] >> /\ Argument(p) = << >> /\ Printed(p) = << >>
  <2>1. k = i + 2 /\ ~ (i > Len(fmt)) /\ fmt[i] = "%" /\ fmt[i + 1] = "%"
    BY <1>2, <1>3
  <2>2. l = j
    BY <1>a, <1>3
  <2>3. fmt[i + 1] \notin Conversions
    BY <2>1 DEF Conversions
  <2>4. out[<< i, j >>] = out[<< i + 2, j >>]
    BY <2>1, <2>3 DEF Printing
  <2>5. << >> \o out[<< k, l >>] = out[<< k, l >>]
    BY Concats
  <2> QED BY <1>3, <2>1, <2>2, <2>4, <2>5
<1>4. CASE /\ p[1] \in {"d", "x", "c", "s"}
           /\ Written(p) = << "%", p[1] >> /\ Argument(p) = << p[2] >>
           /\ Printed(p) = Convert(p[1], p[2])
  <2>1. k = i + 2 /\ ~ (i > Len(fmt)) /\ fmt[i] = "%" /\ fmt[i + 1] = p[1]
    BY <1>2, <1>4
  <2>2. l = j + 1 /\ args[j] = p[2]
    <3>1. Len(Argument(p)) = 1 /\ Argument(p)[1] = p[2]
      BY <1>4
    <3>2. 1 \in 1 .. Len(Argument(p)) /\ j + 1 - 1 = j
      BY <3>1
    <3>3. args[j + 1 - 1] = Argument(p)[1]
      BY <1>a, <3>2
    <3> QED BY <1>a, <3>1, <3>2, <3>3
  <2>3. fmt[i + 1] \in Conversions
    BY <1>4, <2>1 DEF Conversions
  <2>4. out[<< i, j >>] = Convert(fmt[i + 1], args[j]) \o out[<< i + 2, j + 1 >>]
    BY <2>1, <2>3 DEF Printing
  <2> QED BY <1>4, <2>1, <2>2, <2>4
<1> QED BY <1>1, <1>3, <1>4, PieceIs

\* Each of a function's values, one after the other, and where they are.
LEMMA EachDivides ==
  ASSUME NEW n \in Nat, NEW S, NEW s \in [1 .. n -> Seq(S)]
  PROVE  \E b \in [0 .. n -> Nat] : Divides(b, s, FlattenSeq(s)) /\ Len(s) = n /\ FlattenSeq(s) \in Seq(S)
<1>1. s \in Seq(Seq(S)) /\ Len(s) = n
  OBVIOUS
<1>2. \E b \in [0 .. Len(s) -> Nat] : Divides(b, s, FlattenSeq(s))
  BY <1>1, SplitAt
<1>3. FlattenSeq(s) \in Seq(S)
  BY <1>1, FlattenOK
<1> QED BY <1>1, <1>2, <1>3

\* What has been printed, and what is still to be, is always the same.
Joins(n, f, q, o) ==
  f[0] = << >> /\ \A k \in 1 .. n : f[k] = f[k - 1] \o q[k] /\ o[k - 1] = q[k] \o o[k]

LEMMA Telescopes ==
  ASSUME NEW n \in Nat, NEW f, NEW q, NEW o,
         \A k \in 0 .. n : Sequence(f[k]) /\ Sequence(o[k]), \A k \in 1 .. n : Sequence(q[k]),
         Joins(n, f, q, o)
  PROVE  f[n] \o o[n] = o[0]
<1> DEFINE T == { k \in 0 .. n : f[k] \o o[k] = o[0] }
<1>1. 0 \in T
  <2>1. Sequence(o[0]) /\ 0 \in 0 .. n
    OBVIOUS
  <2>2. << >> \o o[0] = o[0]
    BY <2>1, Concats
  <2>3. f[0] = << >>
    BY DEF Joins
  <2> QED BY <2>1, <2>2, <2>3
<1>2. ASSUME NEW k \in 1 .. n, k - 1 \in T PROVE k \in T
  <2>1. PICK m \in 0 .. n : m = k - 1
    OBVIOUS
  <2>a. m \in T
    <3> HIDE DEF T
    <3> QED BY <1>2, <2>1
  <2>b. k \in 0 .. n
    OBVIOUS
  <2>c. f[m] \o o[m] = o[0]
    BY <2>a, Zenon
  <2>2. k \in 0 .. n /\ f[m] \o o[m] = o[0]
    BY <2>b, <2>c
  <2> HIDE DEF T
  <2>3. f[k] = f[m] \o q[k] /\ o[m] = q[k] \o o[k] /\ Sequence(f[m]) /\ Sequence(q[k]) /\ Sequence(o[k])
    BY <2>1, <2>2 DEF Joins
  <2>4. Associative(f[m], q[k], o[k])
    BY <2>3, Associates
  <2>5. f[k] \o o[k] = o[0]
    BY <2>2, <2>3, <2>4 DEF Associative
  <2> QED BY <2>2, <2>5 DEF T
<1>3. 0 .. n \subseteq T
  <2> HIDE DEF T
  <2>1. \A k \in 1 .. n : k - 1 \in T => k \in T
    BY <1>2
  <2> QED BY <1>1, <2>1, UpToAll
<1>4. n \in T
  <2> HIDE DEF T
  <2> QED BY <1>3
<1> QED BY <1>4

\* printf prints the parts, one after the other.
LEMMA FormatPrinted ==
  ASSUME NEW n \in Nat, NEW ps \in [1 .. n -> Pieces]
  PROVE  _std_fdprintf(Each(Written, ps), Each(Argument, ps)) = Each(Printed, ps)
<1> DEFINE Signs == { p[1] : p \in Pieces } \cup { p[2] : p \in Pieces } \cup {"%"}
           w == [k \in 1 .. n |-> Written(ps[k])]
           v == [k \in 1 .. n |-> Argument(ps[k])]
           q == [k \in 1 .. n |-> Printed(ps[k])]
           fmt == FlattenSeq(w)
           args == FlattenSeq(v)
<1>1. Each(Written, ps) = fmt /\ Each(Argument, ps) = args /\ Each(Printed, ps) = FlattenSeq(q)
  <2>1. DOMAIN ps = 1 .. n
    OBVIOUS
  <2>2. Each(Written, ps) = FlattenSeq([k \in DOMAIN ps |-> Written(ps[k])])
    BY DEF Each
  <2>3. Each(Argument, ps) = FlattenSeq([k \in DOMAIN ps |-> Argument(ps[k])])
    BY DEF Each
  <2>4. Each(Printed, ps) = FlattenSeq([k \in DOMAIN ps |-> Printed(ps[k])])
    BY DEF Each
  <2> QED BY <2>1, <2>2, <2>3, <2>4
<1>2. w \in [1 .. n -> Seq(Signs)] /\ v \in [1 .. n -> Seq(Signs)]
  <2> SUFFICES ASSUME NEW k \in 1 .. n
               PROVE  Written(ps[k]) \in Seq(Signs) /\ Argument(ps[k]) \in Seq(Signs)
    OBVIOUS
  <2>1. PICK p \in Pieces : p = ps[k]
    OBVIOUS
  <2>2. p[1] \in Signs /\ p[2] \in Signs /\ "%" \in Signs
    OBVIOUS
  <2> HIDE DEF Signs
  <2>3. /\ << p[2] >> \in Seq(Signs) /\ << "%", p[1] >> \in Seq(Signs) /\ << >> \in Seq(Signs)
    BY <2>2
  <2> QED BY <2>1, <2>3, PieceIs
<1>3. q \in [1 .. n -> Seq(Shown)]
  BY PieceShown
<1> HIDE DEF Signs
<1>4. PICK a \in [0 .. n -> Nat] : Divides(a, w, fmt) /\ Len(w) = n /\ fmt \in Seq(Signs)
  <2> HIDE DEF w
  <2> QED BY <1>2, EachDivides
<1>5. PICK b \in [0 .. n -> Nat] : Divides(b, v, args) /\ Len(v) = n /\ args \in Seq(Signs)
  <2> HIDE DEF v
  <2> QED BY <1>2, EachDivides
<1>6. Len(fmt) \in Nat /\ Len(args) \in Nat
  <2> HIDE DEF fmt, args
  <2> QED BY <1>4, <1>5, LenProperties
<1>7. \A k \in 1 .. n : w[k] = Written(ps[k]) /\ v[k] = Argument(ps[k]) /\ q[k] = Printed(ps[k]) /\ ps[k] \in Pieces
  OBVIOUS
<1>8. PICK f \in [0 .. n -> Seq(Shown)] : Sums(f, q) /\ FlattenSeq(q) = f[n] /\ Len(q) = n
  <2>1. q \in Seq(Seq(Shown)) /\ Len(q) = n
    <3> HIDE DEF q
    <3> QED BY <1>3
  <2> HIDE DEF q
  <2>2. PICK f \in [0 .. Len(q) -> Seq(Shown)] : Sums(f, q)
    BY <2>1, SumExists
  <2>3. FlattenSeq(q) = f[Len(q)]
    BY <2>1, <2>2, FlattenSum
  <2> QED BY <2>1, <2>2, <2>3
<1> HIDE DEF w, v, q, fmt, args
<1>9. PICK out : Printing(fmt, args, out) /\ _std_fdprintf(fmt, args) = out[<< 1, 1 >>]
  BY <1>6, PrintfIs
<1>10. /\ a[0] = 1 /\ a[n] = Len(fmt) + 1 /\ b[0] = 1
       /\ \A k \in 1 .. n :
            /\ a[k] = a[k - 1] + Len(w[k]) /\ a[k] <= a[n] /\ b[k] = b[k - 1] + Len(v[k])
            /\ \A j \in 1 .. Len(w[k]) : fmt[a[k - 1] + j - 1] = w[k][j]
            /\ \A j \in 1 .. Len(v[k]) : args[b[k - 1] + j - 1] = v[k][j]
  BY <1>4, <1>5 DEF Divides
<1> DEFINE o == [k \in 0 .. n |-> out[<< a[k], b[k] >>]]
<1>11. \A k \in 0 .. n : o[k] = out[<< a[k], b[k] >>] /\ a[k] \in Nat /\ b[k] \in Nat
  OBVIOUS
<1> HIDE DEF o
<1>12. o[n] = << >>
  <2>1. n \in 0 .. n /\ a[n] > Len(fmt)
    BY <1>6, <1>10
  <2> QED BY <1>9, <1>11, <2>1 DEF Printing
<1>13. ASSUME NEW k \in 1 .. n, Sequence(o[k])
       PROVE  o[k - 1] = q[k] \o o[k]
  <2>1. PICK m \in 0 .. n : m = k - 1
    OBVIOUS
  <2>2. PICK p \in Pieces : p = ps[k] /\ w[k] = Written(p) /\ v[k] = Argument(p) /\ q[k] = Printed(p)
    BY <1>7
  <2>3. k \in 0 .. n
    OBVIOUS
  <2> DEFINE i == a[m]
             j == b[m]
             c == a[k]
             d == b[k]
  <2>4. i \in Nat /\ j \in Nat /\ c \in Nat /\ d \in Nat /\ o[m] = out[<< i, j >>] /\ o[k] = out[<< c, d >>]
    BY <1>11, <2>3
  <2>5. PieceAt(fmt, args, p, i, j, c, d)
    BY <1>10, <2>1, <2>2 DEF PieceAt
  <2> HIDE DEF i, j, c, d
  <2>6. Sequence(out[<< c, d >>])
    BY <1>13, <2>4
  <2>7. /\ Printing(fmt, args, out) /\ Len(fmt) \in Nat /\ p \in Pieces
        /\ i \in Nat /\ j \in Nat /\ c \in Nat /\ d \in Nat
    BY <1>6, <1>9, <2>4
  <2>8. Prints(out, p, i, j, c, d)
    BY <2>5, <2>6, <2>7, PieceNext
  <2> QED BY <2>1, <2>2, <2>4, <2>8 DEF Prints
<1>14. \A k \in 1 .. n : Sequence(q[k])
  BY <1>3 DEF Sequence
<1>15. \A k \in 0 .. n : Sequence(o[k])
  <2> DEFINE T == { k \in 0 .. n : Sequence(o[n - k]) }
  <2>1. 0 \in T
    <3>1. n - 0 = n /\ 0 \in 0 .. n
      OBVIOUS
    <3>2. Sequence(o[n])
      BY <1>12, Nothing
    <3> QED BY <3>1, <3>2
  <2>2. ASSUME NEW k \in 1 .. n, k - 1 \in T PROVE k \in T
    <3>1. PICK l \in 1 .. n : l = n - (k - 1) /\ n - k = l - 1
      OBVIOUS
    <3>2. Sequence(o[l])
      BY <2>2, <3>1
    <3>3. o[l - 1] = q[l] \o o[l] /\ Sequence(q[l])
      BY <1>13, <1>14, <3>2
    <3>4. Sequence(o[l - 1])
      BY <3>2, <3>3, Concats
    <3> QED BY <3>1, <3>4
  <2>3. 0 .. n \subseteq T
    <3> HIDE DEF T
    <3>1. \A k \in 1 .. n : k - 1 \in T => k \in T
      BY <2>2
    <3> QED BY <2>1, <3>1, UpToAll
  <2> TAKE k \in 0 .. n
  <2>4. PICK l \in 0 .. n : l = n - k /\ n - l = k
    OBVIOUS
  <2>5. l \in T
    <3> HIDE DEF T
    <3> QED BY <2>3
  <2>6. Sequence(o[n - l])
    BY <2>5
  <2> QED BY <2>4, <2>6
<1>16. \A k \in 0 .. n : Sequence(f[k])
  BY DEF Sequence
<1>17. f[0] = << >> /\ \A k \in 1 .. n : f[k] = f[k - 1] \o q[k]
  BY <1>8 DEF Sums
<1>18. f[n] \o o[n] = o[0]
  <2>1. Joins(n, f, q, o)
    <3>1. ASSUME NEW k \in 1 .. n PROVE o[k - 1] = q[k] \o o[k]
      <4>1. k \in 0 .. n
        OBVIOUS
      <4> QED BY <1>13, <1>15, <4>1
    <3>2. f[0] = << >> /\ \A k \in 1 .. n : f[k] = f[k - 1] \o q[k] /\ o[k - 1] = q[k] \o o[k]
      BY <1>17, <3>1, Zenon
    <3> QED BY <3>2, Zenon DEF Joins
  <2>2. \A k \in 0 .. n : Sequence(f[k]) /\ Sequence(o[k])
    BY <1>15, <1>16
  <2> QED BY <1>14, <2>1, <2>2, Telescopes
<1>19. f[n] \o o[n] = f[n]
  <2>1. f[n] \o << >> = f[n]
    <3>1. Sequence(f[n])
      BY <1>16
    <3> QED BY <3>1, Concats
  <2> QED BY <2>1, <1>12
<1>20. o[0] = out[<< 1, 1 >>]
  <2>1. 0 \in 0 .. n
    OBVIOUS
  <2> QED BY <1>10, <1>11, <2>1
<1> QED BY <1>1, <1>8, <1>9, <1>18, <1>19, <1>20

\* _std_fdprintf prints the parts of a format in order, each with its own argument,
\* and nothing for what is no conversion, which takes none (stdlib/stdio.c).
THEOREM FormatsPrinted == PrintsFormats
<1> SUFFICES ASSUME NEW ps \in SeqOf(Pieces, MaxParts)
             PROVE  _std_fdprintf(Each(Written, ps), Each(Argument, ps)) = Each(Printed, ps)
  BY DEF PrintsFormats
<1>1. PICK n \in 0 .. MaxParts : ps \in [1 .. n -> Pieces]
  BY DEF SeqOf
<1>2. n \in Nat
  BY LibraryAssumption
<1> QED BY <1>1, <1>2, FormatPrinted

\* For every memory, int width, line and format: the library that the running programs
\* are written with does what they take it to do.
THEOREM LibraryIsRight == SysSpec => []LibraryRight
<1>1. LibraryRight
  BY StringsCompared, CopiesAreExact, NumbersPrinted, FormatsPrinted, LinesDivided DEF LibraryRight
<1> QED BY <1>1, PTL
===============================================================================

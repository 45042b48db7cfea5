--------------------------------- MODULE Boot ---------------------------------
(***************************************************************************)
(* The boot of the kernel: kmain of src/kernel/kernel.c and the calls it   *)
(* makes once, on any machine: a drive that is there or not, a boot        *)
(* sector, partitions and what is on them.                                 *)
(*                                                                         *)
(* loader.asm turns interrupts off and calls kmain; isr_install turns them *)
(* on.  Every call needs something that another one has set up; what it    *)
(* finds missing is recorded.  What a volume holds is seen through what    *)
(* loading /bin/init from it gives, and what /etc/init on it names.        *)
(***************************************************************************)
EXTENDS Integers, Sequences, FiniteSets

CONSTANTS
  NParts,       \* entries of a partition table, four
  Shells        \* what /etc/init can name, or NULL without it
ASSUME BootAssumption == NParts \in Nat \ {0} /\ Shells # {}

VARIABLES
  machine,      \* what the kernel is started on, which does not change
  at,           \* the call that kmain makes
  up,           \* what has been set up
  missing,      \* what was used before it was, and by which call
  hds,          \* hd0 and hd1: the drives that were found
  root, geo,    \* the partitions fs_root->ptr and fat_info are of, 0 for none
  drivers,      \* the names that are registered
  init          \* what abin_load_file found at /bin/init

bootVars == << machine, at, up, missing, hds, root, geo, drivers, init >>

Parts == 1 .. NParts
Fat == {"fat16", "fat32"}
Part == [type : Fat \cup {"linux", "none"}, bootable : BOOLEAN]

\* A drive that is absent reads as ones, its error bit among them.
Machines == [master : {"ready", "error", "absent"}, slave : BOOLEAN, signed : BOOLEAN,
             parts : [Parts -> Part], init : {"program", "text", "none"}, shell : Shells]

BootInit ==
  /\ machine \in Machines
  /\ at = "isr_install"
  /\ up = {} /\ missing = {}
  /\ hds = {} /\ root = 0 /\ geo = 0
  /\ drivers = << >> /\ init = "none"

-----------------------------------------------------------------------------
\* A call: it uses what has to be there, and sets up what was not.
Call(name, next, uses, sets) ==
  /\ at = name /\ at' = next
  /\ missing' = missing \cup { << name, u >> : u \in uses \ up }
  /\ up' = up \cup sets
  /\ UNCHANGED machine

Keeps == UNCHANGED << hds, root, geo, drivers, init >>

\* What is printed goes to the text and is drawn.
Shows == {"text", "vga"}

\* Mutation: the handlers set, interrupts not turned on.
HandlersOnly == {"handlers"}
isr_set == {"handlers", "interrupts"}

\* A read waits for an interrupt and for its handler.
CanRead == {"handlers", "interrupts"} \subseteq up

isr_install == Call("isr_install", "heap_init", {}, isr_set) /\ Keeps
heap_init == Call("heap_init", "vga_init", {}, {"heap"}) /\ Keeps
vga_init == Call("vga_init", "ktextinit", {"heap"}, {"vga"}) /\ Keeps

ktextinit == Call("ktextinit", "paging_enable", {"heap", "vga"}, {"text"}) /\ Keeps
paging_enable == Call("paging_enable", "ata_init", Shows, {"paging"}) /\ Keeps

\* ata_init: the first drive is there unless its status is all ones; ata_wait then
\* goes on while the status shows an error.  The second one is polled.
ata_init ==
  /\ Call("ata_init", "fs_init", Shows, {"ata"})
  /\ machine.master = "ready"
  /\ hds' = {0} \cup (IF machine.slave THEN {1} ELSE {})
  /\ UNCHANGED << root, geo, drivers, init >>

fs_init == Call("fs_init", "kfdinit", Shows \cup {"heap"}, {"root"}) /\ Keeps
kfdinit == Call("kfdinit", "dev_init_root", Shows \cup {"heap"}, {"fds"}) /\ Keeps

\* Mutation: any bootable partition will do.
AnyBootable(p) == p.bootable
Suits(p) == p.bootable /\ p.type \in Fat \cup {"linux"}

\* dev_init_root reads the boot sector of the first drive found.  kpanic prints
\* and halts.
dev_init_root ==
  /\ CanRead
  /\ Call("dev_init_root",
          CASE hds = {}                               -> "no storage devices"
            [] hds # {} /\ ~ machine.signed           -> "no bootable device"
            [] OTHER -> IF \E i \in Parts : Suits(machine.parts[i]) THEN "fat_check_sig"
                        ELSE "no bootable partition",
          Shows \cup {"ata"}, {"device"})
  /\ Keeps

FatParts == { i \in Parts : machine.parts[i].type \in Fat }

\* Mutation: the last FAT partition is mounted.
LastOf(S) == IF S = {} THEN 0 ELSE CHOOSE i \in S : \A j \in S : j <= i
FirstOf(S) == IF S = {} THEN 0 ELSE CHOOSE i \in S : \A j \in S : i <= j

\* fat_check_sig looks at every partition, bootable or not: the first FAT one is
\* mounted, and fat_info keeps the numbers of the last.
fat_check_sig ==
  /\ CanRead
  /\ Call("fat_check_sig", "find_kernel", Shows \cup {"heap", "device", "root"}, {"fat"})
  /\ root' = FirstOf(FatParts) /\ geo' = LastOf(FatParts)
  /\ UNCHANGED << hds, drivers, init >>

\* The kernel's own file is looked for; nothing depends on it.
find_kernel == CanRead /\ Call("find_kernel", "process_alloc", Shows \cup {"root"}, {}) /\ Keeps

\* Mutation: the process made only after init has been loaded.
AllocLate == at = "process_alloc" /\ at' = "load_init" /\ UNCHANGED << machine, up, missing >> /\ Keeps
\* The process before is taken to be there, and is told which one comes after it,
\* without a look at cur (process.c:36), which is NULL: the store goes into page 0,
\* which is mapped, and nothing of the kernel is there.
process_alloc == Call("process_alloc", "load_init", {"heap", "process"}, {"process"}) /\ Keeps

\* What loading /bin/init comes to.  Directories of FAT16 are not read, and those
\* of a volume are not found with the numbers of another.
Loadable == CASE root = 0                             -> {"none"}
              [] root # 0 /\ machine.parts[geo].type = "fat16" -> {"none"}
              [] root # 0 /\ machine.parts[geo].type = "fat32" /\ root = geo -> {machine.init}
              [] OTHER                                -> {"program", "text", "none"}

Loaded(r) == r = "program"

load_init ==
  /\ CanRead
  /\ \E r \in Loadable :
       /\ init' = r
       /\ Call("load_init", IF Loaded(r) THEN "driver_init" ELSE "failed to load init",
               Shows \cup {"fds", "root", "process", "paging"}, {"program"})
  /\ UNCHANGED << hds, root, geo, drivers >>

driver_init == /\ Call("driver_init", "process_jump", {}, {"drivers"})
               /\ drivers' = drivers \o << "KBD", "VIDEO" >>
               /\ UNCHANGED << hds, root, geo, init >>

process_jump == Call("process_jump", "running", {"process", "program", "paging"}, {}) /\ Keeps

kmain == \/ isr_install \/ heap_init \/ vga_init \/ ktextinit \/ paging_enable \/ ata_init
         \/ fs_init \/ kfdinit \/ dev_init_root \/ fat_check_sig \/ find_kernel
         \/ process_alloc \/ load_init \/ driver_init \/ process_jump

-----------------------------------------------------------------------------
Panics == {"no storage devices", "no bootable device", "no bootable partition",
           "failed to load init"}
Halted == at \in Panics

\* Every call finds what it uses set up: the heap, the text that it prints to,
\* interrupts and their handlers, the root node, the process, the page table.  Only
\* the call that makes the first process stores through the one before.
ThroughCur == << "process_alloc", "process" >>
SetUpBeforeUse == missing \subseteq {ThroughCur}

\* On a machine with one FAT partition, or none, the kernel runs init just if the
\* drive works, its boot sector is signed, some partition of a type it knows is
\* bootable, also another one, and the FAT partition is FAT32 and has a program
\* as /bin/init; and it says so if that is what is wrong.  That there is no drive
\* at all it never says.
Boots == /\ machine.master = "ready" /\ machine.signed
         /\ \E i \in Parts : machine.parts[i].bootable /\ machine.parts[i].type # "none"
         /\ \E i \in FatParts : machine.parts[i].type = "fat32" /\ machine.init = "program"

BootOutcome ==
  /\ Cardinality(FatParts) <= 1 => (at = "running" => Boots) /\ (Halted => ~ Boots)
  /\ at = "no bootable device" => ~ machine.signed
  /\ at = "no bootable partition" =>
       machine.signed /\ \A i \in Parts : machine.parts[i].type = "none" \/ ~ machine.parts[i].bootable
  /\ at # "no storage devices"

\* A drive that works is enough for the boot to come to an end, in a program or a
\* panic: no wait for the disk goes on for ever.
BootEnds == machine.master = "ready" ~> at = "running" \/ Halted
===============================================================================

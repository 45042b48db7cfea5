# strange-os: a verification project

TLA+ modules that model the kernel of strange-os, configurations that check them
with TLC, and proofs that TLAPS checks. Paths below are relative to the
repository; `kernel/` is `src/kernel/`.

## The system

strange-os is a 32-bit kernel for one processor. It has no scheduler: `exec`
suspends the program that calls it until the new program exits, so the programs
form a stack and only the last one runs. Everything runs in ring 0. A system
call is an interrupt (`int 0x40`) whose handler enables interrupts for as long
as it lasts. The only concurrency is therefore between a system call and the
two hardware interrupts, keyboard and disk, which run to their end between two
instructions of what they interrupt, and the hardware itself. Nothing is
optimised (`-O0`), so that shared variables are read where the code reads them.

### Components

| Component | Source | State | Operations | What makes it correct |
|---|---|---|---|---|
| heap | `kernel/heap.c` | chain of block headers from 0x100000 | `kmalloc`, `kfree` | no memory is handed out twice; a call always finds a block; the chain stays bounded |
| file descriptors | `kernel/fileio.c`, `kernel/fs/fs.c` | `fds[32]`, the open files on the heap | `kopen`, `kread`, `kwrite`, `kclose`, `kgetnode` | a descriptor stands for one open file that nobody else moves or frees; results say what was done |
| processes | `kernel/process.c`, `kernel/abin.c`, `kernel/syscall.c` | `cur`, a doubly linked list, saved registers | `exec`, `exit`, and every system call | exec is a call and exit its return |
| paging | `kernel/page.c` | page tables at 0x400000, the TLB | `paging_enable`, `paging_map`, `paging_invalidate` | the window shows the memory of the process that runs |
| disk driver | `kernel/disk/ata.c` | flag, command and buffer shared with the interrupt handler | read or write sectors | a read returns the sector that was asked for, and returns |
| keyboard | `kernel/kprint.c` | `recsc`, `cursc` shared with the handler | `kgetsc` | no invented keys, the last key arrives |
| console | `kernel/kprint.c` | text of the screen, cursor, the line being typed | print, `kgets` | the cursor stays on the screen; the line is what the screen shows; only the caller's buffer is written |
| video | `kernel/video/vga16.c` | the picture in memory, the screen, the driver's index | draw, update, `vga_driverctl` | the screen shows the text |
| virtual file system | `kernel/fs/fs.c` | tree of nodes, filled when first looked at | `fs_finddir_path`, `fs_readdir`, `fs_create` | a path leads to the node it names |
| FAT driver | `kernel/fs/fat.c` | one cached sector of the FAT, a buffer for each open file | `fat_read`, `fat_write`, `fat_open`, `fat_close`, `fat_create` | chains of clusters stay apart; what was written is read |
| devices, partitions | `kernel/dev.c`, `kernel/disk/mbr.c` | root device | search at boot | the partition that boots is found |
| driver registry | `kernel/driver.c` | table of drivers | register, look up, control | a name leads to its driver |
| boot | `kernel/kernel.c` | | `kmain` | each part is set up before it is used |
| interrupts | `kernel/idt.c`, `kernel/idt.asm` | the interrupt flag, both PICs | dispatch, `sti` and `cli` of a system call | every request is handled, and ended where it came from |
| programs and library | `src/user`, `src/stdlib` | | `init`, `sh`, `ls`, `cat`, ... | init starts the shell again when it ends; the shell runs what it is told |
| not built or not used | `kernel/fs/ext2.c`, `kernel/io/unistd.c`, `kernel/elf.c` (built, no caller), `src/boot` (GRUB boots) | | | |

How they interact: programs call `ksysint`; `kopen` and `exec` search the tree
of nodes, which the FAT driver fills by reading clusters, for which the disk
driver waits for its interrupt; open files, nodes, processes and buffers are
blocks of the heap; reading descriptor 0 waits in `kgets` for the keyboard's
interrupt; `exec` opens a file twice, reads it into the memory of a new process
and moves the page window there.

What is hard in it: the two hand-shakes with interrupt handlers, each over
variables without a lock; a call stack of programs whose state is spread over a
list, a page table, a TLB and saved registers, and which a failing `exec` leaves
half way; a table of descriptors shared by all programs; first-fit reuse that
shrinks blocks; a cached sector of the FAT. `PROJECT.json` lists these hazards
at their lines, with the properties that cover them.

## Modules

| Module | Models | Checked by |
|---|---|---|
| `Allocator` | what callers of the heap may assume (abstract) | |
| `Heap` | `kernel/heap.c` | `MCHeap` |
| `Descriptors` | what users of descriptors may assume (abstract) | |
| `FileTable` | `kernel/fileio.c` and the open files of `kernel/fs/fs.c` | `MCFileTable` |
| `CallStack` | what exec and exit promise (abstract) | |
| `Process` | `kernel/process.c`, `abin.c`, `syscall.c`, the window of `page.c`; extends `FileTable` | `MCProcess` |
| `Ata` | `kernel/disk/ata.c` with the drive, access by access | `MCAta` |
| `Keyboard` | `kbint`, `kgetsc` with the keyboard's controller | `MCInterrupts` |
| `Interrupts` | `kernel/idt.c`, `idt.asm`, the PICs, `sti` and `cli` of `syscall.c`; extends `Keyboard`, with the wait of `ata.c` | `MCInterrupts` |
| `Console` | `kprintc`, `kscroll`, `kflush`, `kgets`, and the drawing of `video/vga16.c` | `MCConsole` |
| `Fat` | the table, chains and open files of `kernel/fs/fat.c` | `MCFat` |
| `Vfs` | the tree of `kernel/fs/fs.c`, and the directories and the mount of `fat.c` | `MCVfs` |
| `Boot` | `kmain`, `dev.c`, `mbr.c`, `driver.c`, the panics, what `ata_init` finds | `MCSystem` |
| `Programs` | `src/user` and the system calls of `src/stdlib/starch.c` | `MCSystem` |
| `Library` | `kernel/util/string.c`, `src/stdlib/stdio.c` and `string.c`, the shell's division of a line, as functions | `MCSystem` |
| `System` | composes `Boot`, `Programs` and `Library`: power on to prompt | `MCSystem` |
| `HeapProofs`, `ProcessProofs`, `InterruptsProofs`, `FatProofs`, `VfsProofs`, `SystemProofs` | theorems about the module of that name; in `ProcessProofs` also about `FileTable`, which `Process` extends, in `SystemProofs` about `Boot`, `Programs` and `Library` | TLAPS |
| `DriverProofs` | theorems about `Ata` and `Console`, which have nothing in common; the first's specification is called `AtaSpec` | TLAPS |
| `RecursionLemmas` | lemmas about recursive functions and division that the proofs share | TLAPS |

Each `MC*` module only extends the module it checks and gives constants their
values. Operators that change a definition the way a mistake would ("Mutation"
in the comments) stand before it; nothing uses them but the sensitivity checks
that `PROJECT.json` lists under `mutants`.

### Heap

`blks` is the chain from `head`, in the order of the `n` links; an element has
its address, size and `av`. The `p` links are written and never read, and left
out. `heap_find` is the first usable block; `kmalloc` takes it, sets its size to
the request, and makes a new empty tail if it was the last. `Malloc` and `Free`
are the kernel: it frees what it holds. The heap has no upper end in the code,
so it has none here.

Run `heap`: blocks of three sizes, zero among them, three held at a time. Three is
enough for a block between two others to be freed, shrunk by reuse, freed again
and be too small for the next. `MemorySafe` says that nothing handed out overlaps
another block or a header; `BoundedGrowth` that at most `MaxLive` blocks
are there for each size, however long the kernel runs; `AllocSpec` that the heap
implements `Allocator`, with the blocks in use as the mapping.

### File descriptors

`fds` maps a descriptor to a pointer, `files` a pointer to the open file in
memory. `kopen`, `kread`, `kwrite`, `kclose` are one action each, failing returns
included; `fs_open` and `fs_close` are part of them. Where a path leads, and how
much a driver transfers, is nondeterministic within what the drivers can return.
For a disk file opened for writing that is any number at all, since `fat_write`
returns a variable it never sets; the count, a `u32`, is returned as an `int` (`Signed`,
`fileio.c:116`, `:123`), so that a write that has moved the position can return -1.
A directory can be opened for writing too, but `fs_open` gives it no buffer
(`fs.c:97-100`): the first byte written to it is stored through a null pointer
(`fat.c:444-465`). What that does to memory and disk is undefined; the model says that the
machine is `lost`, and takes no further step. That is why run `table` checks no deadlock.

Run `table`: two descriptors above the standard ones, a file and a directory,
every mode string, every call with every descriptor and one beyond either end.
Two free descriptors suffice for a full table, for one file open twice, and for
reuse of a descriptor and of memory. Positions and counts have three values
(`IdxRange`), one of them negative as an `int`. `TableInv` relates table and memory (no
dangling, shared or lost open file, a driver's buffer for exactly the files
whose close frees one, and no other than a directory loses the machine);
`LowestGiven` says which descriptor an open gives, and that
a call that returns an error has changed at most a position, by the count that the error
is; `DescriptorsSpec` is the refinement of `Descriptors`.

### Processes

`Process` extends `FileTable`: every system call is a step of the program that
runs. Memory is counted in windows of 2 MB; `image` says which program each unit
holds, `pt` where the page table maps the window and `tlb` where the processor
takes it to be. A program is only its position among `NumPc` points at which it
calls; it makes any call at any point, except that init never exits (its `main`
ends in an endless loop, `user/init.c:39`). `execNoFile`, `execNotLoaded`
and `execLoaded` are the three ways `process_load` ends.

Run `process` takes every behaviour. A failed load leaves a process that never ran
as `cur`; `ProcInv` holds all the same, with `cur` the running process whenever every
process in the list was loaded (`AllLoaded`). In steps from one such state to
another, exec and exit implement `CallStack`: a frame of the stack is a
process's memory, its saved position and the process whose memory holds its
argument string. The depth is three, enough for a process with both neighbours; a
fourth adds nothing to a list that is only changed at its end. `MaxFds` leaves
three descriptors, so that the table fills up within a behaviour. Run `process`
checks no deadlock: code that is no program, which an exec of a directory starts,
has no next step here. Nothing is transferred in it (`MaxCount`), so that no program
loses the machine by a write to a directory; the proofs are of any `MaxCount`.

### Disk

`Ata` has a program counter for `ata_start_lba`, one action for each access to
what it shares with `ata_irq` or with the drive; the address and the command
are two, since the drive can end its last command between them. `ata_irq` is one
action, since interrupts are off while it runs. The drive (external) goes through
busy, data ready and idle, ignores what is written to its ports while busy, gives
`NoData` when there is nothing to read, and may fail if `canFail`. `canWrite` and
`canFail` are chosen in the initial state and keep their values, so that one run
covers drives and callers of every kind and a property can name those it is about.

Fairness: the processor executes (`ata_start_lba`), interrupts are taken (a
system call runs with interrupts enabled, `syscall.c:12`, and `kmain` likewise,
`idt.c:201`), and the drive ends a command it has begun. Nobody has to call.

Run `ata`: two sectors and two buffers, enough for the wrong sector and the wrong
buffer to differ; what is on a sector is told only by the sector it was meant for. There is no check for
deadlock, because the system really stops: after a failure `ata_wait` waits for ever.
`ReadReturnsData` is about behaviours without writes: with writes it is
violated, since the interrupt at the end of a write passes for that of the read.
`TransfersNeeded` is about the same behaviours: the handler stores only while a read waits.
`NothingMisplaced` is about behaviours in which no port was written while the drive
was busy: the drive ignores the address and, if it is ready by then, takes the
command, so that the data goes where the last went. `overrun` says that it happened.
A call moves one sector (`n == 1`, `ata.c:104-105`): the commands for several, which
volumes with larger clusters have the driver use, are not modelled.

### Interrupts and keyboard

`Keyboard` is the hand-shake over `recsc` and `cursc`, with keys numbered so that
a lost and a doubled key can be told. `Interrupts` puts it below the two interrupt
controllers: a request is acknowledged when the interrupt flag is set and nothing more
urgent is in service, its handler runs with interrupts off to the ends of interrupt and
the return, and a system call (`Program`) turns them on for as long as it lasts. Timer,
keyboard and drive make requests; a line that falls before it is acknowledged makes
the controller deliver its last line, 7 or 15, with no bit in service. `irq_handler`
ends every one of them. The wait for the drive is in it as `dpc`; the program
reads and writes sectors and reads keys in any order.

Run `interrupts`: three keys with a queue of two, one tick, one line that falls by
itself, two calls that use the disk. Three keys exceed what one `kgetsc` can be
overtaken by; one request of each kind can already interrupt at every point of each
other's handlers. `PicInv` says what is in service at every point, `AtMostTwice` and
`LastArrives` what becomes of keys, `RequestsServed` that every request is taken and
that a read from the disk returns. The run stops when all calls are used up.

Fairness: handlers and programs execute, the drive ends what it has begun (weak), and
the processor acknowledges a request it can take again and again (strong: the
flag is off between system calls and in handlers, and each of these ends). Nobody
has to press a key, and no tick has to come.

### Console and video

`Console` is the text, the cursor, the line that `kgets` collects, and the picture of
them: `vga_addr` in memory, drawn by `kflush`, and the `screen` it is copied to. It
takes any key at any time, which is what `Keyboard` permits. A program prints up to two
characters in a call, reads lines, and paints pixels through the video driver. A
screen of two rows of two characters is the smallest on which a line can wrap and
scroll; lines have at most two characters, one row less than the screen, and
buffers every size from none to one more than the longest line. `InBounds` says that the
cursor and the driver's index stay where they belong, and what kgets may store, into a
buffer of any size: nothing outside of it while the line has not been longer than fits
(`longest`, which only the properties look at, is how long it has been); zeros behind it,
no further than the line was long, when it has (`kprint.c:171`, `:187`). A buffer of size
0 gets no character: `size_t` is an `int` (`types.h:13`), so that `nch < sz-1` is false
from the start (`:180`), and only the end of the line is stored.
So kgets does not keep to its buffer whatever is typed, and no property says so.
`EchoFaithful` and `LineReturned` say that the program gets what the screen
shows of its line, as much as fits, with its end behind it if that fits. `ScreenShowsText` relates text and screen through all of it, save cells a program has painted since, and
characters above 127, which the kernel does not draw.

### Files on the disk

`Fat` models calls on open files, each a single step, since no interrupt handler
comes into the driver. `tab` is the table on the disk with the one sector of it in
memory. The operators `Load`, `WriteEnt`, `Searched` and `Extend` give the table
after a call of `_read_fat_ent32`, `_write_fat_ent32`, `_find_unused_cluster`, and
after the three calls by which a chain grows; a whole sector is written back, so
that a stale one would do the damage it does in the code. `fp` are the open files
with their buffer of a cluster, the cluster's number and the index in it. (The buffer is
allocated with as many sectors as a copy of the table has, `fat.c:473`, not with those of
a cluster: it holds one wherever `spf >= spc`, which is assumed.) Reads and
writes are taken a byte at a time, which reaches what longer ones reach. The record
of an open file also has `log`, what was written through it, and `quiet`, that
nobody else wrote to the file since, which only the properties look at.

Two values of the code are undefined. `fat_write` returns a variable it never sets:
`honest` says, for a whole behaviour, whether it is the count by chance; if not, the
position is any of `AnyPos`. A search that finds nothing ends without a value: the
cluster is any of `AnyCluster`, and `found` says that so far every search gave an
unused cluster.

Run `fat`: two files, two open at a time, three opened and five bytes written in a
behaviour, clusters of one or of two bytes. That is enough to open a file twice, to
overwrite, extend and read it again, for both files to grow into the first sector of
the table and for a search to fail, and for the cache to change sectors between any
two accesses: files and root directory are in different sectors. The bytes left by
different writes differ. `FatSound`, `OthersUntouched`, `WrittenIsKept` and
`ReadsTheFile` speak of behaviours while `found`; those about positions, while
`honest`. `FirstSectorSearched` says when `found` stays true: at least as long as the
first sector of the table has an unused cluster, which is the sector the search starts
in and, by the fault that `fat_full` shows, the only one it reads. The run stops when it has opened its files. Run `fat_full`: a table of three
sectors, the first of them full.

### Directories

`Vfs` is the tree of nodes in memory and the volume it is filled from, entry by
entry. `fs_finddir_path` and `fs_readdir` read a directory when they first come to it;
`fat_close` writes a length into the node and into its entry; `fs_create` writes a pair
of entries, after it has made the directory longer where no two free ones are left.
`_add_dirent` gives the volume after each of its writes, in their order, so that
`PowerFails` can stop between any two; the machine then mounts what is there.
`Entries` and `ToDisk` say, without the loops, what is in a directory and where a path
leads: the properties compare the tree with them.

Taken for granted, as the module's head says: the table fits into one sector (`Fat` has
the others), names fit into one long entry, and there is room for what is created
(`Fat` has the full volume). `fs_create` has no caller in the kernel yet. `VfsAssumption`
says what volumes the machine starts with (`Formed`, `Linked`): each file and directory
has a chain of its own, which ends and leads to no unused cluster; unused clusters are
blank; a name is followed by its entry, or by more of the name; and nothing was deleted, so
that no name stands behind room for another. (The driver deletes nothing itself. Into a
gap that another system left it would enter a new file in front of names that were read
before, and `TreeShowsDisk` would have to speak of their order.) Of names in paths
the assumption says that there is a slash between two.

Run `vfs`: three volumes (directories in one cluster, a root directory of two clusters
with a name that has lost its entry, an empty one), clusters of four entries, two
creations, paths with slashes doubled, trailing and alone. Four entries are room for
two pairs, so that a creation finds one, none, or half of one. `PathsLead` says that a
path found leads where the volume has it, and that nothing that was there when it was
mounted is lost; a file created in a directory that was read before need not be found.
`torn` excludes what follows a loss of power between the first two writes of a
directory's growth, which leaves its chain going into an unused cluster; also
then `PowerLossKeeps` holds: every file that was there before is found after it.

### From power on to the prompt

`Boot` has one action for each call of `kmain`, with what it uses and what it sets up,
on every machine: drives there or not, a boot sector signed or not, a table of
partitions of every kind, a volume with or without `/bin/init`. `dev_init_root` and
`fat_check_sig` choose; the panics are the ends of the boot that are not a program.
`missing` has what a call used that was not there, with the call: the only such use is
that of `process_alloc`, which tells the process before that a new one comes after it
without a look at whether there is one (`process.c:36`). At boot there is none, and the
store goes to the bottom of memory, which is mapped and not otherwise used. `SetUpBeforeUse`
says that it is the only one.
`Programs` takes over at `process_jump`: each program of `src/user` as a frame on a
stack, from one point where it may wait or run another to the next; `con` is all that was
printed, typed and painted, in order. `Library` has the functions they are written with,
and their reference meaning. The shell's division of a line is `CopyCmd`, the copy of the
command into what is left in `cmdbuf` from the lines before, `Cmd`, the string that is
then found there, `Arg` and `PathOf`. There is room for `CmdSize` characters (123, `sh.c:8`
and `:26`), of which the copy knows nothing (`sh.c:36-40`): a line has up to 127, and the end
of a command of more than 122 is stored in what comes after. `ParsesLines` says that nothing
else changes just if the command is shorter than `CmdSize`.

`ProgramsAssumption`: a line names a program of those that `user/Makefile:17` builds, but
for init, or nothing that is there, and there are descriptors for all lines; what an
exec of other files and of the last descriptor does is `Process`'s subject. `/etc/init`
is read by init only. What is read at a time is a whole number of rows (512 bytes and
8, `user/hexd.c:34`). `SystemAssumption`: `/etc/init` names the shell, or nothing that is there.

Run `system`: two partitions, which is enough for a bootable one that is not the FAT
one, and for two FAT ones; all machines with them; two lines typed out of twenty, among
them a blank one, one without a command, `exit`, a shell in the shell, every program,
and `cat` and `hexd` with every kind of file: none, a directory, one that is empty, and
ones of twice, and of nearly twice, what is read at a time. `SetUpBeforeUse` and `BootOutcome` are about the boot, `Transcript` compares
the console with what the lines mean, `FdsAccounted` says which descriptors are in use
at the prompt, `LibraryRight` compares each function with its meaning, on strings of up
to four bytes, lines of up to four characters (`MaxText`) with room for three (`CmdSize`, so
that a command fits, fills it, or does not), formats of up to three parts
(`MaxParts`) and every int of eight bits. `BootEnds` and `PromptReturns` are liveness.

`MemoryAssumption`: memory is a number of addresses from 1 on (0 is NULL). `LibraryAssumption`:
bytes are numbers, 0 among them, that an int holds, and neither a `%` nor the end of a
string (`Nul`) is an ordinary letter. What
`hexd` prints as a byte or a word is below 256 or 65536, a `u8` or a `u16`
(`user/hexd.c:13`, `:16`).

Fairness: the processor runs, in `kmain` and in programs. Nobody has to type.

## Runs that show a disagreement

| Run | Property | What the code says of itself | What it does |
|---|---|---|---|
| `exec_fails` | `ProgramsRun` | `user/sh.c:5`: command not found | every exec keeps a descriptor (`process.c:50`), until none can be opened |
| `fat_full` | `GrowsIntoUnused` | `fat.c:93`, `:115`: find unused cluster; read next sector | the sector that was just looked at is read again (`fat.c:118`), and the clusters of the next are named by its entries |
| `ata_not_ready` | `ReadyWhenCommanded` | `ata.c:28`: wait for ide to become ready | the condition tests the error bit only (`ata.c:34`) |

Met while modelling and not made a run:

- the loop of `ata_wait` never ends after a failed command, nor at boot when there is no
  drive, whose status reads as all ones (`ata.c:77`): the panic for a machine
  without one is not reached;
- `ata_irq` stores into the last read's buffer when a write ends;
- a load that fails leaves a process that never ran as `cur` (`process.c:57`), until
  the program that tried it exits: that exit pops it, and the program goes on, from
  registers that need not have been saved before;
- with two FAT partitions the tree is that of the first and `fat_info` that of the last
  (`fat.c:351`);
- `stderr_n` is copied from itself while null (`fileio.c:51`), so that writes to
  descriptor 2 go nowhere;
- the first process is made with a store through the current one, which is null
  (`process.c:36`, asked about at `:14`);
- `kgets` counts the characters of a line that do not fit ("increment anyway",
  `kprint.c:183`) and stores the end at the count, outside of the buffer (`:187`);
- Backspace moves the cursor above the screen when a line longer than the screen is erased
  (`kprint.c:172`);
- a write to a directory that was opened for writing goes through a null pointer
  (`fat.c:444-465`), and one to a file can return -1 after it was made (`fat.c:447`);
- the shell stores the end of a line at the length `read` returns, which is the size of
  its buffer (`sh.c:32`), and copies a command without a bound (`sh.c:38`);
- a file's buffer is allocated by the length of the table, not of a cluster (`fat.c:473`);
- the loop in `fat_close` that resets a chain breaks at once (`fat.c:495`), so that a
  file keeps the clusters of its longest version;
- `_print_int` prints the least int as a sign only, and the library's `strcmp` gives 0
  for a string and its beginning.

## Proofs

TLC checks small instances; what follows is proved for every value of the constants,
from the assumptions named in the modules and nothing else.

`HeapProofs` (from `HeapAssumption`), for every base address, header size, set of
sizes and bound:

- `HeapInvariant`: `Spec => []HeapInv`. `HeapInv` is the inductive invariant. That
  blocks do not overlap (`MemorySafe`) is not inductive alone: a new tail is put at
  the end of the last block, which is beyond every other block only because the
  chain is laid out in order of address (`Ordered`), and is put only there because
  the tail is empty and free (`Ends`). Lemmas say what replacing a block by a smaller
  one (`Replace`) and appending a tail (`Grow`) keep; `MallocInv` and `FreeInv` are
  the two steps.
- `HeapMemorySafe`: follows from the order of the chain.
- `HeapNeverNull`: the tail is always usable, so a least usable index exists; the
  library's well-foundedness of the naturals gives it.
- `HeapBoundedGrowth`: that the chain is short says nothing of the next step, since
  a block that is shrunk is lost to larger requests. `Banded` does: a block of some
  size stands within the first `MaxLive` blocks for each size up to its own. First
  fit keeps it (`FoundInBand`): a block further on is given to a request only if
  `MaxLive` blocks before it, all large enough, are taken, and then nothing more is
  asked for.
- `HeapImplementsAllocator`: `Spec => AllocSpec`. A `Malloc` adds one region disjoint
  from the others, a `Free` removes one; regions of two blocks are never the same.

`ProcessProofs` (from `FileTableAssumption`, `NodesAssumption`, `NullAssumption`: the
kinds of nodes are disjoint and NULL is none of the values it stands against), for
every table, set of files and amount transferred:

- `TableInvariant`: `TableInv` is inductive as it stands. The lemmas are about storing
  an open file at a fresh pointer, moving its position, and freeing it. That only a
  directory loses the machine rests on files and buffers being paired.
- `TableLowestGiven`: from the steps, and of a result taken modulo the range of positions.
- `TableImplementsDescriptors`: a step changes the entry of the one descriptor it is
  about, since no two share a pointer; everything else maps to a stutter.

And (from these and `ProcessAssumption`, `NullProcAssumption`), for programs nested to any
depth:

- `ProcInvariant`: `ProcInv` and `TableInv`. To be inductive, `ProcIInv` adds that there
  are finitely many structures and that the first unit of memory holds init: an exit
  needs a process below, which is there because init does not exit, so what does runs
  in memory above it. `GrowChain` and `ShrinkChain` are about the list alone.
- `ProcDescriptorsPersist`: an exec opens one descriptor that was free; an exit none.
- `ProcessImplementsCallStack`: `ProcSpec => CallStackSpec`, in the steps from one state
  in which every process was loaded to another. The frame at a position of the stack is
  chosen by its id, so `ListInv` adds to the invariant that ids are unique, that
  there is one for each position, and that a process whose successor was loaded has its
  registers saved, which is what makes the return to it the resumption of its call.

`DriverProofs`, of the disk driver (from `AtaAssumption`), for every set of sectors and buffers:

- `AtaInvariant`, `AtaReadReturnsData`, `AtaTransfersNeeded`. `AtaIInv` says, point by
  point of `ata_start_lba`, what the drive has been told (`PlaceInv`), when a write is
  under way (`WriteOK`), and that without writes a pending interrupt, the flag, and
  data that is ready all belong to the read that waits (`ReadInv`, `DataInv`).

`InterruptsProofs` (from `KeyboardAssumption`, `InterruptsAssumption`), for every number
of keys, ticks, lines that fall and calls, and every capacity of the keyboard's queue:

- `PicInvariant`: `IntIInv` adds what is in service between the two ends of interrupt
  (`InService`) and that the keyboard's request stands for a key in its queue
  (`KeyPending`).
- `KeysAtMostTwice`: of `recsc` and `cursc`. `KeyOrder` says which keys were returned
  before the one in `cursc`, by whether a return is under way (`Coming`) and whether the
  flag was set again since that return cleared it (`Again`), so that a third return would
  need an older key; `KeyCount` counts returns against keys in the same way.

`RecursionLemmas` stands under the next four. Printing a string, following a chain and
adding up a transcript are recursive functions or folds; `Recursion` and `Unique` say
that a function that starts at a value and goes on by a step for each number exists, and
is the only one, so that what such a definition gives for one more number is the step
applied to what it gave. `UpToAll` is the induction on numbers up to a bound, in the one
form that needs no operator parameter: a set that has 0, and the next of each, has all.

`DriverProofs`, of the console (from `ConsoleAssumption`), for every size of the screen, length of what
is printed, and size of the buffer:

- `ConsoleInBounds`, `ConsoleEchoFaithful`, `ConsoleScreenShowsText`. The invariant is
  these and `Echo`: before the cursor stands at least the line, and of it as much as the
  buffer took. `EchoFaithful` alone (of a line that fits) is not inductive: a line that
  is too long can be erased until it fits again, and what is then before the cursor must be what
  was stored before it became too long. A line takes at most the screen but one row
  (`MaxLine` in the assumption): a longer one scrolls off its own beginning, and
  Backspace goes above the screen (see the list above).
- `ConsoleLineReturned`: the end of a line, from the same invariant.

`FatProofs` (from `FatAssumption`), for every volume whose files have chains that end,
share no cluster and have room for the length of the file, every number of files and
open files, every size of a cluster, and whatever clusters a failed search is taken to give:

- `FatInvariant`: `FatIInv` has what holds always and what holds while `found`. Always:
  the sector in memory is the one on the disk, the table has only numbers of entries and
  end marks (`TableOK`), entries lead to clusters in use (`Linked`), and open files are
  at such clusters (`InUse`); without that, a write could go outside of the table.
  While `found` (`Filed`): the chains are sound, and each open file is at a place
  of its own chain, with the bytes of the file before it and its buffer at it, and has
  in its log what the file will hold when it is closed (`Placed`).
- `FatCacheCoherent`, `FatVolumeSound`: parts of it. A chain has no cycle and no cluster
  of another because it grows only at its end and by an unused cluster
  (`SoundGrown`). A chain that ends has no cluster twice (`NoneTwice`), so that it has one
  place for each.
- `FatOthersUntouched`: a call writes to clusters of its own chain only, or to one that
  was unused; `FatWrittenIsKept` and `FatReadsTheFile`: from `Placed`.
- `FatFirstSectorSearched`: the condition `found` of these is that of a volume with
  room in the first sector of its table.

`VfsProofs` (from `VfsAssumption`), for every volume that is formed, every size of a
cluster and of the volume, all paths, names and lengths, and any number of creations
and losses of power:

- `VfsInvariant`: `VfsIInv` has three parts. The volume is formed, and linked unless
  `torn`: both are needed for the next creation, which looks for room along a chain,
  and enters a file with an unused cluster, which must be in no chain and blank. The
  tree is as the volume has it (`TreeOK`): each node but the root's is that of the entry
  at its place and in the list of some node (`Placed`), and each list is the beginning of
  the directory's entries (`Listed`). And what was there at the mount (`was`) is still
  there (`Extends`) and was read (`Reads`).
- `VfsEntriesSound`: `ChainsApart` and `HeadsApart`: two chains that have a cluster in
  common have the same first one, since no two clusters lead to one and nothing leads to
  a first one. `_add_dirent` keeps the volume formed write by write: `MarkKept` (the
  directory has grown, by a cluster that was blank and in no chain), `EnterKept` (a name
  and its entry in the first room, so that the entries of this directory are one more,
  `EntryAdded`, and those of others the same, `EnteredAlone`) and `FormedKept`, which says
  that a change of the table that only lets chains go on keeps the rest.
- `VfsTreeShowsDisk`: of the loop of `_read_dir32`, `ReadTo` says what its first `k` turns
  have made: the names so far, with the nodes of those whose entries came, and whether
  one waits for its entry. A creation leaves the entries that were read where they
  were; `CloseKeeps` is the one step that changes an entry of the tree.
- `VfsPathsLead`: the search goes name by name, `ToDisk` place by place of the path.
  `Stands` relates the two after any number of turns: what the node found shows is
  where the path up to there leads, and there is one if `was` had one.
- `VfsPowerLossKeeps`: each volume of `_add_dirent` is formed and extends the one before
  with the same lengths (`Grows`), the torn one too: a chain that goes on into an unused
  cluster goes on into a blank one, of which the loop makes nothing. After the mount
  the argument for paths applies, with this volume for `was`.

TLC finds `VfsIInv` to hold on the instance of run `vfs`.

`SystemProofs` (from `BootAssumption`, `ProgramsAssumption`, `SystemAssumption`, and for the
library `MemoryAssumption`, `LibraryAssumption`), for every number of partitions, every disk,
and any lines, any number of times:

- `BootInOrder` (nothing is used before it is set up but `cur`, by the first process) and
  `BootRunsInit`. `BootIInv` has what is set up by the time of each
  call, and what each call that chooses has found out; of at most one FAT partition
  the tree and the numbers are of the same one (`OneVolume`).
- `SessionAsTyped` and `FilesClosed`: at the prompt the console has what the lines come to
  (`Transcript`), and the descriptors in use are accounted for (`FdsAccounted`). Both
  speak of the prompt only; `SysIInv` says what holds between prompts. The stack is init,
  shells that wait, and on top init, a shell or another program (`Stacked`); for the one on
  top, at each point where it may be: the console has the session up to the line
  before, the last line, and the part of its answer that the program has given by now
  (`Answering(Done(Top))`), and the descriptors are those that execs have kept, with the
  program's own where it has one open. `Done` has the first `k` bytes, names, rows or
  pixels; the lemmas say that it grows by what a step prints (`CatLoop`, `LsLoop`, `HexdLoop`,
  `GfxDraw`), and that `Session`, `Depths` and `Ran` of one more line are those of the
  lines before and what that line adds. The programs start from what `BootIInv` has at the
  end of the boot, drivers included, and do not touch it. TLC finds `SysIInv` to hold
  on the instance of run `system`.

- `LibraryIsRight`, of memory and ints of any size, and lines and formats of any length.
  It says nothing of steps, but each function of `Library` is recursive in its own way:
  upwards to the end of a string, downwards in a number, along two indices. `Descent`
  covers them: where each place goes on to a lower one by some measure, or stops, the
  function that goes on as the definition says exists, so that one unfolding of the
  definition is a fact. Each function has a lemma with that fact, and the rest is by
  induction over a set of numbers (`UpToAll`), or by the least number with a property:
  - `StringsCompared`: `EndIs` and `EndUnique` give each string one end, and the two
    comparisons stop at the first place where the strings are apart (`ApartAt`) or both end.
  - `CopiesAreExact`: byte `i` of the source is still what it was when it is copied, since
    the `i` bytes written so far do not reach it unless the copy begins inside of the source.
  - `NumbersPrinted`: the digits, last one first, spell the number (`DigitsSpell`), and the
    last of them is not zero; the least int, which negation leaves negative, has no digits.
  - `FormatsPrinted`: a format is what is written for its first `k` parts and for the others
    (`SplitAt`), and printing from there prints part `k + 1` and goes on (`PieceNext`), with the
    next argument if that part took one. The numbers converted are those of `Pieces`;
    what a number converts to is `NumbersPrinted`.
  - `LinesDivided`: the command ends before the first space, wherever that is (`StopIs`), and
    the string in memory is that, since the end stored behind it is the first there
    (`CmdIs`), whatever was in the buffer and for any room in it.

Every safety invariant and action property that the passing runs check is proved. Only
model-checked, and out of the prover's reach: liveness (`ReadsReturn`, `LastArrives`,
`RequestsServed`, `BootEnds`, `PromptReturns`), which rests on fairness.

## Not modelled

- The ELF loader (`elf.c`), which nobody calls; `fs/ext2.c` and `io/unistd.c`, which no
  rule of the Makefile builds; the boot loader of `src/boot`, in whose place GRUB is used.
- CHS commands (`ata_start`), which only a function without callers uses, and which repeat
  the protocol of `ata_start_lba` with another way to name a sector.
- Exceptions of the processor (a panic and a halt) and the tables of segments and gates
  as bytes.
- The palette, the font and the registers of the video mode: tables.
- FAT16 directories, which the driver does not read; an empty file's cluster 0
  (`fat.c:476`), where bytes are read that no module has; parts of a path longer than
  their buffer.
- The heap's upper end against the page tables at 0x400000, which depends on sizes in
  bytes that no module counts; `BoundedGrowth` is what can be said without them.

What is left to do: volumes from which other systems have deleted files.

------------------------------- MODULE Process -------------------------------
(***************************************************************************)
(* Processes and the system calls that make them: process.c, abin.c, the   *)
(* calls of page.c they use, and ksysint (syscall.c), over the table of    *)
(* file descriptors.                                                       *)
(*                                                                         *)
(* There is no scheduler.  exec suspends its caller, which goes on when    *)
(* the program it ran calls exit; a system call is a step of the program   *)
(* that runs, and interrupts touch nothing of this state.  Every program   *)
(* is linked to run in the same window of addresses, so the kernel maps    *)
(* the window onto the memory of the process that is to run.  Memory is    *)
(* counted here in windows: unit 1 is PROCESS_MEM_BASE.                    *)
(***************************************************************************)
EXTENDS FileTable, Sequences

CONSTANTS
  ProcPtrs,     \* the addresses process structures can have
  Progs,        \* the files that are programs
  Root,         \* /bin/init, the one the kernel starts
  Junk,         \* code that is no program
  OpenNodes,    \* bound: the files programs open
  OpenModes,    \* bound: the modes they open them with
  NumPc,        \* bound: the points of a program at which it makes a call
  MaxDepth      \* bound: the processes there are at a time

ASSUME ProcessAssumption ==
  /\ Progs \subseteq Files /\ Root \in Progs /\ Junk \notin Progs
  /\ OpenNodes \subseteq Files \cup Dirs /\ OpenModes \subseteq ModeStrings
  /\ NULL \notin ProcPtrs
  /\ NumPc \in Nat \ {0}
  /\ MaxDepth \in Nat \ {0}

VARIABLES
  cur,      \* the current process
  procs,    \* process structures in memory: a record for a pointer, or NULL
  image,    \* what each unit of memory holds: a program and its _std_argv
  pt,       \* the unit of memory the page table maps the window to
  tlb,      \* the unit the processor uses for the window
  eip       \* where in the window the program that runs is

procVars == << cur, procs, image, pt, tlb, eip >>
vars == << tableVars, procVars >>

SYS_EXEC == 5
Units == 1 .. MaxDepth
Codes == {0, 1}                  \* bound: the values programs exit with

Live == { q \in ProcPtrs : procs[q] # NULL }
Running == image[tlb].prog       \* the code the processor executes
Goes == eip' = (eip + 1) % NumPc \* the program goes on after its call

-----------------------------------------------------------------------------
\* kmain: init is loaded into the first process and jumped to.
kmain ==
  /\ kfdinit
  /\ ret = 0 /\ lost = FALSE
  /\ \E q \in ProcPtrs :
       /\ cur = q
       /\ procs = [p \in ProcPtrs |-> IF p = q
                     THEN [id |-> 0, mem |-> 1, p |-> NULL, n |-> NULL, r |-> NULL, ent |-> TRUE]
                     ELSE NULL]
  /\ image = [u \in Units |-> [prog |-> IF u = 1 THEN Root ELSE Junk, argv |-> 0]]
  /\ pt = 1 /\ tlb = 1 /\ eip = 0

\* Mutation: the new process not linked from the one before it.
AllocUnlinked(q) ==
  [procs EXCEPT ![q] = [id |-> procs[cur].id + 1, mem |-> procs[cur].mem + 1,
                        p |-> cur, n |-> NULL, r |-> NULL, ent |-> FALSE]]

\* The structures after process_alloc has put the new one, q, after cur.  What
\* the memory of its r holds is not known until process_load writes it: NULL.
process_alloc(q) ==
  [procs EXCEPT ![q] = [id |-> procs[cur].id + 1, mem |-> procs[cur].mem + 1,
                        p |-> cur, n |-> NULL, r |-> NULL, ent |-> FALSE],
                ![cur].n = q]

paging_invalidate == tlb' = pt'
process_map(u) == pt' = u

\* abin_load_file opens the file again, reads it into the process's memory and
\* closes it.  It fails when no descriptor is left, the first open having taken
\* one, and when the file does not begin with the signature; for a file too
\* short to have one, the signature is whatever is on the stack.
LoadFails(f) == Cardinality(FreeFds) = 1 \/ f \notin Progs
Loads(f)     == Cardinality(FreeFds) > 1 /\ f \in Progs \cup Dirs

\* process_load never closes the descriptor it opened, loaded or not.
LeakOpen(f) == \E fd \in Fds : LowestFree(fd) /\ OpenAs(fd, f, {"r"})

\* The exec system call.  The argument string is at an address in the window,
\* which the kernel rewrites to where the caller's memory is.
execNoFile(f) ==
  /\ kopenFails(f, {"r"})
  /\ ret' = -1
  /\ Goes
  /\ UNCHANGED << fds, files, lost, cur, procs, image, pt, tlb >>

execNotLoaded(f) ==
  /\ ~ kopenFails(f, {"r"}) /\ LoadFails(f)
  /\ LeakOpen(f)
  /\ \E q \in ProcPtrs \ Live : cur' = q /\ procs' = process_alloc(q)
  /\ ret' = -1
  /\ Goes
  /\ UNCHANGED << lost, image, pt, tlb >>

execLoaded(f) ==
  /\ ~ kopenFails(f, {"r"}) /\ Loads(f)
  /\ LeakOpen(f)
  /\ \E q \in ProcPtrs \ Live :
       LET ps == process_alloc(q) IN
       /\ cur' = q
       /\ procs' = [ps EXCEPT ![q].ent = TRUE, ![cur].r = (eip + 1) % NumPc]
       /\ image' = [image EXCEPT ![ps[q].mem] =
                      [prog |-> IF f \in Progs THEN f ELSE Junk, argv |-> ps[cur].mem]]
       /\ process_map(ps[q].mem)
  /\ paging_invalidate
  /\ eip' = 0
  /\ ret' = SYS_EXEC      \* eax still holds the number of the call
  /\ UNCHANGED lost

sysExec(f) == /\ procs[cur].id + 1 < MaxDepth
              /\ execNoFile(f) \/ execNotLoaded(f) \/ execLoaded(f)

\* Mutation: every descriptor above the standard ones closed on the way out.
PopCloses == /\ fds' = [fd \in Fds |-> IF fd < 3 THEN fds[fd] ELSE NULL]
             /\ files' = [p \in Ptrs |-> IF \E fd \in 0 .. 2 : fds[fd] = p
                                         THEN files[p] ELSE NULL]

\* What process_pop does to the table of descriptors: nothing.
PopKeeps == UNCHANGED << fds, files >>

\* Mutation: the registers not saved before the jump.
SavedNever(q) == 0 .. NumPc - 1

\* Registers that were never saved are whatever the memory holds.
Saved(q) == IF procs[q].r = NULL THEN 0 .. NumPc - 1 ELSE {procs[q].r}

process_pop(code) ==
  LET par == procs[cur].p IN
  /\ cur' = par
  /\ procs' = [procs EXCEPT ![procs[par].n] = NULL, ![par].n = NULL]
  /\ eip' \in Saved(par)
  /\ ret' = code
  /\ process_map(procs[par].mem)
  /\ PopKeeps

sysExit(code) == /\ process_pop(code)
                 /\ paging_invalidate
                 /\ UNCHANGED << lost, image >>

\* The calls on files; readdir and the driver calls change nothing of this.
sysFile ==
  /\ \/ \E n \in OpenNodes \cup {NULL}, m \in OpenModes : kopen(n, m)
     \/ \E fd \in AnyFd : kclose(fd)
     \/ \E fd \in AnyFd, c \in Counts : kread(fd, c) \/ kwrite(fd, c)
     \/ ret' \in {-1, 0} /\ UNCHANGED << fds, files, lost >>
  /\ Goes
  /\ UNCHANGED << cur, procs, image, pt, tlb >>

ProcInit == kmain

\* A program makes any call at any time, except that init never exits (its main
\* ends in an endless loop).  What the processor does with code that is no
\* program is not described.
ksysint ==
  /\ Running \in Progs /\ ~ lost
  /\ \/ sysFile
     \/ \E f \in Files \cup Dirs \cup {NULL} : sysExec(f)
     \/ Running # Root /\ \E code \in Codes : sysExit(code)

ProcSpec == ProcInit /\ [][ksysint]_vars

\* Every process that was made was loaded: programs ran programs only, and not
\* with a single descriptor left.
AllLoaded == \A q \in Live : procs[q].ent
             /\ image[procs[q].mem].prog # Junk

-----------------------------------------------------------------------------
Proc == [id : 0 .. MaxDepth - 1, mem : Units, p : ProcPtrs \cup {NULL},
         n : ProcPtrs \cup {NULL}, r : (0 .. NumPc - 1) \cup {NULL}, ent : BOOLEAN]

\* A null pointer is none to a process, and no saved register's value.
ASSUME NullProcAssumption == NULL \notin Proc \cup 0 .. NumPc - 1

ProcTypeOK == /\ TableTypeOK
              /\ cur \in ProcPtrs
              /\ procs \in [ProcPtrs -> Proc \cup {NULL}]
              /\ image \in [Units -> [prog : Progs \cup {Junk}, argv : 0 .. MaxDepth]]
              /\ pt \in Units /\ tlb \in Units
              /\ eip \in 0 .. NumPc - 1

\* The process structures form one list from init to cur, linked both ways, in
\* which a process's id is its position (process.h:15) and its memory starts
\* where that of the one before it ends.  No structure is outside of it.
ChainOK ==
  /\ cur \in Live /\ procs[cur].n = NULL
  /\ procs[cur].id = Cardinality(Live) - 1
  /\ \A q \in Live :
       /\ procs[q].mem = procs[q].id + 1
       /\ IF procs[q].p = NULL THEN procs[q].id = 0
          ELSE /\ procs[q].p \in Live
               /\ procs[procs[q].p].n = q
               /\ procs[q].id = procs[procs[q].p].id + 1
       /\ procs[q].n # NULL => procs[q].n \in Live /\ procs[procs[q].n].p = q

\* The window is on the memory of a process that is there, and the processor
\* uses no translation that the page table no longer has: also when the current
\* process is one that was never loaded, and after it has been popped.
RunningHasMemory == tlb = pt /\ \E q \in Live : procs[q].mem = tlb

\* process.c:10 and process.h:26 take cur for the current process.  It is the one
\* that runs as long as every process was loaded, and again once one that was not
\* is popped; in between, the code that runs is another's.
CurIsRunning == AllLoaded => procs[cur].mem = tlb

ProcInv == ProcTypeOK /\ ChainOK /\ RunningHasMemory /\ CurIsRunning

\* Running a program, or ending one, leaves every descriptor that was open as
\* it was: what a program opened before an exec is what it has after it.
DescriptorsPersist ==
  [][ cur' # cur => \A fd \in Fds : desc[fd] # NULL => desc'[fd] = desc[fd] ]_vars

\* An exec of a program never fails: the shell answers a failure with "command
\* not found" (sh.c:5), and this one can be found.
ProgramsRun ==
  [][ \A f \in Progs : sysExec(f) => ret' # -1 ]_vars

\* exec and exit implement the abstract stack of calls, in all steps from one state
\* in which every process was loaded to another.
Pos(i) == CHOOSE q \in Live : procs[q].id = i - 1
Depth == procs[cur].id + 1
Frames == [ i \in 1 .. Depth |->
              LET m == IF i = Depth THEN image[tlb] ELSE image[procs[Pos(i)].mem]
              IN  [prog |-> m.prog, argv |-> m.argv,
                   pc |-> IF i = Depth THEN eip ELSE procs[Pos(i)].r] ]

Calls == INSTANCE CallStack WITH stack <- Frames
CallStackSpec == /\ Calls!Init
                 /\ [][ AllLoaded /\ AllLoaded' => Calls!Next ]_vars
=============================================================================

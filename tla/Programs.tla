------------------------------- MODULE Programs -------------------------------
(***************************************************************************)
(* The programs of the boot disk, src/user, with the library they make     *)
(* their system calls through: init, the shell, cat, ls, echo, hexd and    *)
(* gfxtest.                                                                *)
(*                                                                         *)
(* They run on a stack of calls and on one table of descriptors, as module *)
(* Process shows them to; an exec keeps a descriptor for good.  A step is  *)
(* what a program does from one point where it may wait, or run another,   *)
(* to the next.  A file is its length, a directory its names; what is on   *)
(* the console is a sequence of what was printed, and typed, in order.     *)
(***************************************************************************)
EXTENDS SequencesExt

CONSTANTS
  Disk,         \* what paths lead to: [t: program, file or dir, len, names]
  Lines,        \* the lines that are typed: [cmd, arg], paths in both
  NULL,         \* no path: a line without a command, or without an argument
  Config,       \* the path of init's file
  MaxFds,       \* MAX_NUM_FDS
  BufSz, Row,   \* the bytes that cat and hexd read, and that hexd prints, at a time
  Pixels,       \* the pixels of the screen
  AddrRange,    \* hexd's addresses count modulo this (2^16 in the code)
  MaxLines      \* bound: the lines that are typed

Std == 0 .. 2
Fds == 0 .. MaxFds - 1

\* The programs that the Makefile builds for /bin, but for init.
Runnable == {"sh", "cat", "ls", "echo", "hexd", "gfxtest"}

\* A line runs a program or names none, does not name init's file, and there are
\* descriptors for all of them: an exec of other files, and of the last descriptor,
\* is Process's subject.  Blocks are read in whole rows.
ASSUME ProgramsAssumption ==
  /\ BufSz \in Nat \ {0} /\ Row \in Nat \ {0} /\ BufSz % Row = 0
  /\ AddrRange \in Nat \ {0}
  /\ MaxLines \in Nat /\ Pixels \in Nat /\ MaxFds \in Nat
  /\ NULL \notin DOMAIN Disk \cup {<< "/bin", "exit" >>} /\ Config \notin DOMAIN Disk
  /\ \A p \in DOMAIN Disk : Disk[p].len \in Nat /\ Disk[p].names \in Seq(STRING)
  /\ \A l \in Lines : /\ l.cmd \in DOMAIN Disk => /\ Disk[l.cmd].t = "program"
                                                 /\ Disk[l.cmd].prog \in Runnable
                     /\ l.cmd # Config /\ l.arg # Config
  /\ MaxFds >= 3 + 2 * MaxLines + 4

VARIABLES
  stack,        \* the programs that run, the last one now: where it is, its _std_argv,
                \* the descriptor it has, how far it is, and what its exec returned
  fds,          \* the descriptors in use
  con,          \* what is on the console
  typed,        \* the lines that were typed
  shell         \* what /etc/init holds, NULL without that file

progVars == << stack, fds, con, typed, shell >>

Text(s) == << "text", s >>
Top == stack[Len(stack)]
Prog(p, a) == [prog |-> p, pc |-> "start", argv |-> a, fd |-> -1, k |-> 0, res |-> 0]

\* Nothing runs before kmain jumps to init.
ProgInit == stack = << >> /\ fds = Std /\ con = << >> /\ typed = << >> /\ shell = NULL

Jump(s) == stack' = << Prog("init", NULL) >> /\ shell' = s /\ UNCHANGED << fds, con, typed >>

-----------------------------------------------------------------------------
\* The frame on top goes on at p.
At(p) == stack' = [stack EXCEPT ![Len(stack)].pc = p]
With(p, d, n) == stack' = [stack EXCEPT ![Len(stack)] =
                             [@ EXCEPT !.pc = p, !.fd = d, !.k = n]]
Says(s) == con' = con \o s

LowestFree == CHOOSE fd \in Fds \ fds : \A i \in Fds \ fds : fd <= i
Opens(p) == (p \in DOMAIN Disk \/ (p = Config /\ shell # NULL)) /\ fds # Fds
open(p) == IF Opens(p) THEN LowestFree ELSE -1
Opened(p) == fds' = IF Opens(p) THEN fds \cup {LowestFree} ELSE fds

\* Mutation: the file not closed.
NoClose(fd) == UNCHANGED fds
close(fd) == fds' = fds \ {fd}

\* exec of a path, and what it returns when it fails; when it does not, the caller
\* is at p when the program has exited.  The descriptor it opened stays open.
Execs(path) == path \in DOMAIN Disk /\ fds # Fds
exec(path, argv, p) ==
  /\ IF Execs(path)
     THEN stack' = Append([stack EXCEPT ![Len(stack)].pc = p], Prog(Disk[path].prog, argv))
     ELSE stack' = [stack EXCEPT ![Len(stack)] = [@ EXCEPT !.pc = p, !.res = -1]]
  /\ Opened(path)

\* _start: what main returns is given to exit, which gives it to the caller.
exit(code) ==
  stack' = [Front(stack) EXCEPT ![Len(stack) - 1].res = code]

\* Mutation: a file is at its end when a read was full as well.
OneRead(nb) == FALSE
\* Mutation: as long as no more is read than was asked for.
AnyRead(nb) == nb <= BufSz
FullRead(nb) == nb = BufSz

\* What a read of the open file returns: directories read as nothing.
Read(f) == IF Disk[f.argv].t = "dir" THEN 0
           ELSE IF Disk[f.argv].len - f.k < BufSz THEN Disk[f.argv].len - f.k ELSE BufSz

Is(prog, p) == stack # << >> /\ Top.prog = prog /\ Top.pc = p
Same == UNCHANGED << typed, shell >>

-----------------------------------------------------------------------------
\* init.c: what is in /etc/init is the shell, which is run again whenever it exits
\* with 0.  Both endless loops are the point "stop".
init_start ==
  /\ Is("init", "start")
  /\ IF shell = NULL THEN At("stop") /\ Says(<< Text("failed to open") >>)
     ELSE At("exec") /\ Says(<< << "path", shell >>, Text("newline") >>)
  /\ UNCHANGED fds          \* opened and closed

init_exec ==
  /\ Is("init", "exec")
  /\ exec(shell, Text("arguments"), "ran")
  /\ UNCHANGED con

init_ran ==
  /\ Is("init", "ran")
  /\ IF Top.res # 0 THEN At("stop") /\ Says(<< Text("failed to execute") >>)
     ELSE At("exec") /\ UNCHANGED con
  /\ UNCHANGED fds

\* sh.c: the prompt; a line, in which a command without a slash is looked for in
\* /bin; exit, or exec, and a message when that failed.
sh_prompt ==
  /\ Is("sh", "start")
  /\ At("read") /\ Says(<< Text("$ ") >>)
  /\ UNCHANGED fds

IsExit(l) == l.cmd = << "/bin", "exit" >>
IsBlank(l) == l.cmd = NULL /\ l.arg = NULL

sh_read ==
  /\ Is("sh", "read") /\ Len(typed) < MaxLines
  /\ \E l \in Lines :
       /\ typed' = Append(typed, l)
       /\ Says(<< << "line", l >> >>)
       /\ CASE IsBlank(l) -> At("start") /\ UNCHANGED fds
            [] IsExit(l)  -> exit(0) /\ UNCHANGED fds
            [] OTHER      -> exec(l.cmd, l.arg, "ran")
  /\ UNCHANGED shell

sh_ran ==
  /\ Is("sh", "ran")
  /\ stack' = [stack EXCEPT ![Len(stack)] = [@ EXCEPT !.pc = "start", !.res = 0]]
  /\ IF Top.res < 0 THEN Says(<< << "not found", typed[Len(typed)].cmd >> >>)
     ELSE UNCHANGED con
  /\ UNCHANGED fds

\* cat, ls and hexd begin alike.
OpenArg(prog, message, code) ==
  /\ Is(prog, "start")
  /\ Opened(Top.argv)
  /\ IF open(Top.argv) < 0
     THEN exit(code) /\ Says(<< Text(message) >>)
     ELSE With("loop", open(Top.argv), 0) /\ UNCHANGED con

CloseAndExit == close(Top.fd) /\ exit(0)

Bytes(a, n) == [j \in 1 .. n |-> << "byte", Top.argv, a + j - 1 >>]

\* cat.c: blocks, up to the first that is not full.
cat_loop ==
  /\ Is("cat", "loop")
  /\ LET nb == Read(Top)
     IN  /\ Says(Bytes(Top.k, nb))
         /\ IF FullRead(nb) THEN With("loop", Top.fd, Top.k + nb) /\ UNCHANGED fds
            ELSE CloseAndExit

\* ls.c: entry after entry, until readdir returns none.  A file has none.
ls_loop ==
  /\ Is("ls", "loop")
  /\ LET names == IF Disk[Top.argv].t = "dir" THEN Disk[Top.argv].names ELSE << >>
     IN  IF Top.k < Len(names)
         THEN /\ Says(<< << "name", names[Top.k + 1] >>, Text("newline") >>)
              /\ With("loop", Top.fd, Top.k + 1)
              /\ UNCHANGED fds
         ELSE CloseAndExit /\ UNCHANGED con

echo_main ==
  /\ Is("echo", "start")
  /\ Says(<< << "path", Top.argv >>, Text("newline") >>)
  /\ exit(0)
  /\ UNCHANGED fds

\* hexd.c: a row has the address, 16 bits of it, and what is left of the block, at
\* most Row bytes.
Rows(f, nb) == [j \in 1 .. (nb + Row - 1) \div Row |->
                  LET b == (j - 1) * Row
                      r == IF nb - b < Row THEN nb - b ELSE Row
                  IN  << "row", (f.k + b) % AddrRange, f.argv, f.k + b, r >>]

hexd_loop ==
  /\ Is("hexd", "loop")
  /\ LET nb == Read(Top)
     IN  /\ Says(Rows(Top, nb))
         /\ IF FullRead(nb) THEN With("loop", Top.fd, Top.k + nb) /\ UNCHANGED fds
            ELSE CloseAndExit

\* gfxtest.c: the two drivers, a pixel at a time, and a key.
Has(drivers, d) == \E i \in 1 .. Len(drivers) : drivers[i] = d

gfxtest_start(drivers) ==
  /\ Is("gfxtest", "start")
  /\ IF ~ Has(drivers, "KBD") THEN exit(1) /\ Says(<< Text("no keyboard") >>)
     ELSE IF ~ Has(drivers, "VIDEO") THEN exit(1) /\ Says(<< Text("no video") >>)
     ELSE At("draw") /\ UNCHANGED con
  /\ UNCHANGED fds

gfxtest_draw ==
  /\ Is("gfxtest", "draw")
  /\ IF Top.k < Pixels THEN With("draw", -1, Top.k + 1) /\ Says(<< << "pixel", Top.k >> >>)
     ELSE At("key") /\ UNCHANGED con
  /\ UNCHANGED fds

gfxtest_key ==
  /\ Is("gfxtest", "key")
  /\ exit(0)
  /\ UNCHANGED << con, fds >>

\* What programs do by themselves, and where they wait for the user.
Program(drivers) ==
  /\ \/ init_start \/ init_exec \/ init_ran \/ sh_prompt \/ sh_ran
     \/ OpenArg("cat", "no such file", 1) \/ cat_loop
     \/ OpenArg("ls", "no such directory", 0) \/ ls_loop
     \/ echo_main
     \/ OpenArg("hexd", "can't open file", 1) \/ hexd_loop
     \/ gfxtest_start(drivers) \/ gfxtest_draw
  /\ Same

User == sh_read \/ (gfxtest_key /\ Same)

-----------------------------------------------------------------------------
\* What a line comes to: a reference for all of the above.
RowsOf(p, n) == [j \in 1 .. (n + Row - 1) \div Row |->
                   LET b == (j - 1) * Row
                   IN  << "row", b % AddrRange, p, b, IF n - b < Row THEN n - b ELSE Row >>]

Outcome(l) ==
  LET there == l.arg \in DOMAIN Disk
      len   == IF there /\ Disk[l.arg].t # "dir" THEN Disk[l.arg].len ELSE 0
      names == IF there /\ Disk[l.arg].t = "dir" THEN Disk[l.arg].names ELSE << >>
      nl    == Text("newline")
  IN  IF IsBlank(l) \/ IsExit(l) THEN << >>
      ELSE IF l.cmd \notin DOMAIN Disk THEN << << "not found", l.cmd >> >>
      ELSE CASE Disk[l.cmd].prog = "cat" ->
                  IF there THEN [i \in 1 .. len |-> << "byte", l.arg, i - 1 >>]
                  ELSE << Text("no such file") >>
             [] Disk[l.cmd].prog = "ls" ->
                  IF there THEN FlattenSeq([i \in 1 .. Len(names) |-> << << "name", names[i] >>, nl >>])
                  ELSE << Text("no such directory") >>
             [] Disk[l.cmd].prog = "echo" -> << << "path", l.arg >>, nl >>
             [] Disk[l.cmd].prog = "hexd" ->
                  IF there THEN RowsOf(l.arg, len) ELSE << Text("can't open file") >>
             [] Disk[l.cmd].prog = "gfxtest" -> [i \in 1 .. Pixels |-> << "pixel", i - 1 >>]
             [] OTHER -> << >>      \* a shell

Session == << << "path", shell >>, Text("newline"), Text("$ ") >>
           \o FlattenSeq([i \in 1 .. Len(typed) |->
                << << "line", typed[i] >> >> \o Outcome(typed[i]) \o << Text("$ ") >>])

Prompting == Is("sh", "read")

\* Whenever the shell waits for a line, the console has what the lines so far come
\* to and nothing else: files whole and in order whatever their length, rows with
\* their addresses, one message for what is not there, and one prompt for each line.
Transcript == Prompting => con = Session

\* By then the programs have closed what they opened: in use are the standard
\* descriptors, and one for every program that was ever run, the shell included,
\* which exec keeps.
Runs(l) == l.cmd \in DOMAIN Disk /\ ~ IsExit(l)
Depths == LET n[i \in 0 .. Len(typed)] ==
                IF i = 0 THEN 1
                ELSE IF Runs(typed[i]) /\ Disk[typed[i].cmd].prog = "sh" THEN n[i - 1] + 1
                ELSE IF IsExit(typed[i]) /\ n[i - 1] > 1 THEN n[i - 1] - 1
                ELSE n[i - 1]
          IN  n
Ran == { i \in 1 .. Len(typed) : Runs(typed[i]) \/ (IsExit(typed[i]) /\ Depths[i - 1] = 1) }
FdsAccounted == Prompting => fds = 0 .. (3 + Cardinality(Ran))

\* Every line leads back to the prompt, or to a program that waits for a key, and
\* so does init, unless it cannot have a shell.
PromptReturns ==
  stack # << >> ~> Prompting \/ Is("gfxtest", "key") \/ Is("init", "stop")
===============================================================================

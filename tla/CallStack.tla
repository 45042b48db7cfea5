------------------------------ MODULE CallStack ------------------------------
(***************************************************************************)
(* What exec and exit promise the programs: running a program is a call.   *)
(* The caller stops after its exec, the program runs from its beginning    *)
(* with the caller's argument string, and when it exits the caller goes on *)
(* where it stopped, in its own memory, with the exit code as the result.  *)
(***************************************************************************)
EXTENDS Integers, Sequences

CONSTANTS
  Progs,      \* the programs
  Root,       \* the one that is running at first
  NumPc       \* bound: the points of a program at which it makes a call

VARIABLES
  stack,      \* the calls that have not returned: the running program is last
  ret         \* the result of the running program's last call

\* A program at work: what it is, where it has got to, and the position in the
\* stack of the program whose memory holds its argument string.
Frame == [prog : Progs, pc : 0 .. NumPc - 1, argv : Nat]

Resume(i) == [stack EXCEPT ![i].pc = (@ + 1) % NumPc]
Depth == Len(stack)

Init == stack = << [prog |-> Root, pc |-> 0, argv |-> 0] >>

\* Any call that runs no program, an exec that fails included.
Call == stack' = Resume(Depth)

Exec(f) == stack' = Append(Resume(Depth), [prog |-> f, pc |-> 0, argv |-> Depth])

\* The first program never ends.
Exit == /\ Depth > 1
        /\ stack' = SubSeq(stack, 1, Depth - 1)
        /\ ret' >= 0

Next == Call \/ Exit \/ \E f \in Progs : Exec(f)

Spec == Init /\ [][Next]_<<stack, ret>>
==============================================================================

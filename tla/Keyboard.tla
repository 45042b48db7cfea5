------------------------------- MODULE Keyboard -------------------------------
(***************************************************************************)
(* The keyboard: kbint and kgetsc of src/kernel/kprint.c, and the          *)
(* controller (external) that holds keys until kbint reads its port.       *)
(*                                                                         *)
(* kgetsc runs in a system call and kbint interrupts it.  They share two   *)
(* variables: recsc, "a scancode was received", and cursc, the last one.   *)
(* Presses are numbered, so that two of one key can be told apart.         *)
(***************************************************************************)
EXTENDS Integers, Sequences, FiniteSets

CONSTANTS
  MaxKeys,      \* bound: the keys pressed in a behaviour
  QueueLen,     \* the keys the controller holds before it drops one
  MaxGot        \* bound: the calls of kgetsc, more than there are keys

ASSUME KeyboardAssumption ==
  /\ MaxKeys \in Nat /\ QueueLen \in Nat \ {0}
  /\ MaxGot \in Nat /\ MaxGot > MaxKeys

VARIABLES
  pressed,      \* how many keys have been pressed
  queue,        \* those the controller holds, the oldest first
  recsc, cursc,
  pc,           \* where kgetsc is
  got           \* what kgetsc has returned, call after call

vars == << pressed, queue, recsc, cursc, pc, got >>

Init == /\ pressed = 0 /\ queue = << >>
        /\ recsc = 0 /\ cursc = 0
        /\ pc = "wait" /\ got = << >>

\* A key is pressed or released.  A controller that is full drops it.
Press == /\ pressed < MaxKeys
         /\ pressed' = pressed + 1
         /\ queue' = IF Len(queue) < QueueLen THEN Append(queue, pressed') ELSE queue
         /\ UNCHANGED << recsc, cursc, pc, got >>

\* Mutation: a scancode that comes before the last was read is dropped.
LatchIfClear(k) == cursc' = IF recsc = 0 THEN k ELSE cursc
Latch(k) == cursc' = k

\* The interrupt handler, between any two steps of kgetsc.
kbint == /\ queue # << >>
         /\ recsc' = 1
         /\ Latch(Head(queue))
         /\ queue' = Tail(queue)
         /\ UNCHANGED << pressed, pc, got >>

Ready == recsc = 1

\* kgetsc: while (!recsc) {}  recsc = 0;  return cursc;  and kgets calls it
\* again until the line ends.
Wait == /\ pc = "wait" /\ Ready
        /\ pc' = "clear"
        /\ UNCHANGED << pressed, queue, recsc, cursc, got >>

\* Mutation: the flag is not cleared.
KeepFlag == recsc' = recsc
ClearFlag == recsc' = 0

Clear == /\ pc = "clear"
         /\ ClearFlag
         /\ pc' = "read"
         /\ UNCHANGED << pressed, queue, cursc, got >>

Return == /\ pc = "read"
          /\ Len(got) < MaxGot
          /\ got' = Append(got, cursc)
          /\ pc' = "wait"
          /\ UNCHANGED << pressed, queue, recsc, cursc >>

kgetsc == Wait \/ Clear \/ Return
Next == Press \/ kbint \/ kgetsc

\* Interrupts are on while a program reads, and the processor runs.  Nobody has
\* to press a key.
Spec == Init /\ [][Next]_vars /\ WF_vars(kbint) /\ WF_vars(kgetsc)

-----------------------------------------------------------------------------
\* What is returned was typed: in particular never the code cursc begins with.
TypeOK == /\ pressed \in 0 .. MaxKeys
          /\ queue \in Seq(1 .. pressed)
          /\ recsc \in {0, 1} /\ cursc \in 0 .. pressed
          /\ pc \in {"wait", "clear", "read"}
          /\ got \in Seq(1 .. pressed)

Times(k) == Cardinality({ i \in 1 .. Len(got) : got[i] = k })

\* A key that comes between `recsc = 0' and `return cursc' is returned by this
\* call and again by the next; a key that comes while the one before it waits
\* takes its place.  So keys are lost and doubled, but there are never more
\* codes returned than keys pressed, and no key is returned three times.
AtMostTwice == /\ Len(got) <= pressed
               /\ \A k \in 1 .. pressed : Times(k) <= 2

\* The last key of a burst is never the one that is lost: once nothing more is
\* pressed, the key the controller took last is what kgetsc returned last.
LastArrives ==
  \A k \in 1 .. MaxKeys :
    (pressed = MaxKeys /\ queue # << >> /\ queue[Len(queue)] = k)
      ~> (got # << >> /\ got[Len(got)] = k)
==============================================================================

----------------------------- MODULE Descriptors -----------------------------
(***************************************************************************)
(* What the users of file descriptors may assume: a descriptor is closed,  *)
(* or stands for one open file of its own, with a position nobody else     *)
(* moves.  The standard descriptors are open for ever.                     *)
(***************************************************************************)
EXTENDS Naturals

CONSTANTS
  Fds,        \* the descriptors
  Std,        \* those that are always open
  Nodes,      \* the files there are to open
  Modes,      \* the ways to open one
  Closed      \* what a closed descriptor stands for

VARIABLES
  desc,       \* desc[fd] is Closed or an open file: its node, mode, position
  ret         \* the result of the last call

OpenFile == [n : Nodes, m : Modes, idx : Nat]

Init == /\ desc \in [Fds -> OpenFile \cup {Closed}]
        /\ \A fd \in Std : desc[fd] # Closed

\* The result of an open is a descriptor that was closed, and it is the only
\* one that changes: to the start of the file that was asked for.
Open(n, m) == /\ ret' \in Fds
              /\ desc[ret'] = Closed
              /\ desc' = [desc EXCEPT ![ret'] = [n |-> n, m |-> m, idx |-> 0]]

\* Reading and writing move the position of one open file.
Move(fd) == /\ desc[fd] # Closed
            /\ desc'[fd] # Closed
            /\ desc' = [desc EXCEPT ![fd].idx = desc'[fd].idx]

Close(fd) == /\ fd \notin Std
             /\ desc[fd] # Closed
             /\ desc' = [desc EXCEPT ![fd] = Closed]

\* A call that has no effect on the files; a failing open is one of them.
NoEffect == UNCHANGED desc

Next == \/ \E n \in Nodes, m \in Modes : Open(n, m)
        \/ \E fd \in Fds : Move(fd) \/ Close(fd)
        \/ NoEffect

Spec == Init /\ [][Next]_<<desc, ret>>
==============================================================================

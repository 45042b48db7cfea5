----------------------------- MODULE MCProcess -----------------------------
(***************************************************************************)
(* Processes three deep, over a table with two or three descriptors to     *)
(* open.                                                                   *)
(***************************************************************************)
EXTENDS Process, TLC

CONSTANTS p1, p2, p3

MCStdPtrs == [i \in 0 .. 2 |-> CASE i = 0 -> p1 [] i = 1 -> p2 [] i = 2 -> p3]
MCModes == { {"r"} }
MCSymmetry == Permutations(Ptrs \ {p1, p2, p3}) \cup Permutations(ProcPtrs)
=============================================================================

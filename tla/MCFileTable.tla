---------------------------- MODULE MCFileTable ----------------------------
(***************************************************************************)
(* The table with two descriptors above the standard ones, one file and    *)
(* one directory.                                                          *)
(***************************************************************************)
EXTENDS FileTable, TLC

CONSTANTS p1, p2, p3

MCStdPtrs == [i \in 0 .. 2 |-> CASE i = 0 -> p1 [] i = 1 -> p2 [] i = 2 -> p3]
MCSymmetry == Permutations(Ptrs \ {p1, p2, p3})
=============================================================================

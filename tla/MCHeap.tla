------------------------------- MODULE MCHeap -------------------------------
(***************************************************************************)
(* The heap with three sizes, so that a block can be shrunk twice, and a   *)
(* header of one unit.                                                     *)
(***************************************************************************)
EXTENDS Heap

MCSizes == {0, 1, 3}
=============================================================================

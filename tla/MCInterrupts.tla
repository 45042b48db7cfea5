---------------------------- MODULE MCInterrupts ----------------------------
(***************************************************************************)
(* A few keys, a tick, a line that falls and two uses of the disk.         *)
(***************************************************************************)
EXTENDS Interrupts
=============================================================================

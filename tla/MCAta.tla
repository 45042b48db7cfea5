------------------------------- MODULE MCAta -------------------------------
(***************************************************************************)
(* The disk driver over a drive of two sectors, with two buffers.          *)
(***************************************************************************)
EXTENDS Ata
=============================================================================

------------------------------ MODULE MCConsole ------------------------------
(***************************************************************************)
(* A screen of two rows of two characters.                               *)
(***************************************************************************)
EXTENDS Console

MCLetters == {"a"}
==============================================================================

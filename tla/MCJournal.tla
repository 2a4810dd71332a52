------------------------------ MODULE MCJournal ------------------------------
(***************************************************************************)
(* Three commands of two, five and two units and a buffer of three: the    *)
(* small ones together spill it in the middle of a command, the large one  *)
(* goes to the file past it.                                               *)
(***************************************************************************)
EXTENDS Journal

Sizes == <<2, 5, 2>>
=============================================================================

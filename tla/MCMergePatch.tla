---------------------------- MODULE MCMergePatch ----------------------------
(***************************************************************************)
(* A small instance of MergePatch: two keys, one scalar, one array, null,  *)
(* and every document and patch of three levels over them.                 *)
(***************************************************************************)
EXTENDS MergePatch
=============================================================================

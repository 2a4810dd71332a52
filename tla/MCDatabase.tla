----------------------------- MODULE MCDatabase -----------------------------
(***************************************************************************)
(* A small instance of Database: two handlers, one name, two documents.    *)
(* Two inodes and two Collection objects allow two files of the name in    *)
(* use at a time (one dropped, one created again), or one file opened by   *)
(* both handlers.  Start and Crash keep every behaviour going.             *)
(***************************************************************************)
EXTENDS Database
=============================================================================

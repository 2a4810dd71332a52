----------------------- MODULE MCConcurrentCollection -----------------------
(***************************************************************************)
(* Small instances of ConcurrentCollection: two workers that may send      *)
(* every request, with one document loaded and one of the same key to      *)
(* insert (both are in Rows when the first is being patched or removed),   *)
(* and the few workers, rows and roles the counterexamples need.           *)
(***************************************************************************)
EXTENDS ConcurrentCollection, TLC

CONSTANTS r1, r2, r3, k1, k2

TwoLoaded == <<r1, r2>>
OneLoaded == <<r1>>
NoneLoaded == << >>
Keys3 == (r1 :> k1) @@ (r2 :> k2) @@ (r3 :> k2)
Keys2 == (r1 :> k1) @@ (r2 :> k1)
=============================================================================

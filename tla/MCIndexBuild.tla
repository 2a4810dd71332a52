---------------------------- MODULE MCIndexBuild ----------------------------
(***************************************************************************)
(* A small instance of IndexBuild: two rows of one key and one of another, *)
(* and two workers that may send every request.                            *)
(***************************************************************************)
EXTENDS IndexBuild, TLC

CONSTANTS r1, r2, r3, k1, k2, w1, w2, x1, x2, x3

Keys == (r1 :> k1) @@ (r2 :> k1) @@ (r3 :> k2)
Symmetric == Permutations(Index)

\* An index object or a row nothing points at is made anew before it is used, and
\* disk is only read by JournalFollows, as long as apart holds.
Relevant ==
  <<Rows, rowsMutex, registered, local, fill, apart,
    IF apart THEN disk ELSE Unreadable,
    [r \in Row |-> IF FreshRow(r) THEN 1 ELSE I[r]],
    [x \in Index |-> IF FreshIndex(x) THEN NoEntries ELSE entries[x]],
    {x \in marred : ~FreshIndex(x)}>>
=============================================================================

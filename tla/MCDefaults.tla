------------------------------ MODULE MCDefaults ------------------------------
EXTENDS Defaults, TLC

CONSTANTS id, n, w1, w2, m1, m2, m3

MCField == {id, n}
MCWorker == {w1, w2}
MCMap == {m1, m2, m3}

Body(i, j) == (id :> i) @@ (n :> j)

\* {"id": "uuid()", "n": "auto()"}; null for the id, which leaves n alone.
\* (A body that is null clears them all: StartClear.)
MCRequest == {Body(Plain, AutoNumber), Body(Null, Absent)}

MCInput == {Body(Absent, Absent), Body(Given, Null)}

\* What a map holds that nothing points at is never read, and what requests
\* that cross should have made is not compared with anything.
View ==
  <<created, Defaults, [m \in Map |-> IF m \in Unused THEN Nothing ELSE maps[m]],
    Count, saved, durable, handler, IF crossed THEN Nothing ELSE setting, used, crossed, mixed>>

Symmetry == Permutations(MCWorker) \cup Permutations(MCMap)
=============================================================================

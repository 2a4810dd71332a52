--------------------------- MODULE MCCollection ---------------------------
(***************************************************************************)
(* Small instances of Collection: two fields, two strings, up to three     *)
(* rows and two index names.                                               *)
(***************************************************************************)
EXTENDS Collection, TLC

CONSTANTS f, g, a, b, mixed, mixedA

\* The arrays [1] and ["a", 1].
Leads == (mixed :> {}) @@ (mixedA :> {a})

Doc(x, y) == (f :> x) @@ (g :> y)

Up(field) == [name |-> field, reverse |-> FALSE]
Down(field) == [name |-> field, reverse |-> TRUE]
MapOn(field, sparse) == [kind |-> "map", fields |-> <<Up(field)>>, sparse |-> sparse]
TreeOn(fields, sparse) == [kind |-> "btree", fields |-> fields, sparse |-> sparse]

\* Documents that meet in an index, in two, in none, that leave f out or have
\* a null there, that no map index (or no index at all) can take, and one
\* whose array a map index takes half of.
SmallDocuments ==
  {Doc({a}, {a}), Doc({b}, {a, b}), Doc(Absent, {b}), Doc(Null, {b}), Doc({}, Number),
   Doc(mixedA, {b})}
SmallPatches == {Doc({a}, Keep), Doc(Absent, {b}), Doc(Keep, mixed), Doc({b}, {a})}
SmallDefinitions ==
  {MapOn(f, TRUE), MapOn(g, FALSE), TreeOn(<<Up(g)>>, FALSE), TreeOn(<<Up(f), Up(g)>>, TRUE),
   TreeOn(<<Down(f)>>, FALSE)}
\* Well-formed requests only: strings, one mandatory map index.
PlainDocuments == {Doc({a}, {}), Doc({b}, {})}
PlainPatches == {Doc({a}, Keep), Doc(Absent, Keep)}
PlainDefinitions == {MapOn(f, FALSE)}
Symmetric == Permutations(Row)

\* All of it until the first tear.  After one, what happens is followed as
\* long as there are two rows at most, of four documents, and indexes of two
\* definitions, a map one and a btree that cannot always be removed from.
TornDocuments == {Doc({a}, {a}), Doc(mixedA, {b}), Doc(Null, {b}), Doc({b}, {a})}
TornDefinitions == {MapOn(f, TRUE), TreeOn(<<Down(f)>>, FALSE)}
FewWhenTorn ==
  torn # None =>
    /\ Len(mem.Rows) <= 2
    /\ \A i \in DOMAIN mem.Rows : mem.heap[mem.Rows[i]].Payload \in TornDocuments
    /\ \A n \in Name : mem.Defs[n] \in TornDefinitions \cup {NoIndex}
=============================================================================

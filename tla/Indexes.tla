------------------------------ MODULE Indexes ------------------------------
(***************************************************************************)
(* The two kinds of index a collection can carry and what AddRow and       *)
(* RemoveRow do to them: the map index (collection/indexsyncmap.go) and    *)
(* the btree index (collection/indexbtree.go), and the two loops over all  *)
(* the indexes of a collection, indexInsert and indexRemove                *)
(* (collection/collection.go), with their early returns, the deferred      *)
(* rollback and the panics of the type assertions.                         *)
(*                                                                         *)
(* A value is what an index can tell apart: absent, JSON null, a number,   *)
(* an array with an element that is no string (a member of Mixed), or the  *)
(* set of the strings in an array; a string is the one-element set, so an  *)
(* array of exactly one string is not told apart from the string.  An      *)
(* index holds the rows of the keys it has: strings in a map index, the    *)
(* tuples of the values of its fields in a btree.  Go iterates maps in     *)
(* random order: an outcome may stop after any subset of the indexes.      *)
(***************************************************************************)
EXTENDS Naturals, Sequences, FiniteSets

CONSTANTS
  Field, String, Row, Name,     \* fields, strings, row pointers, index names
  Absent, Null, Number,         \* no value, JSON null (a nil in Go), a number
  Mixed, Leading,               \* arrays with an element that is no string, and
                                \* the strings each of them has before the first
  NoIndex

Value == {Absent, Null, Number} \cup Mixed \cup SUBSET String
Document == [Field -> Value]

\* IndexMapOptions (one field) and IndexBTreeOptions; reverse is the "-" before
\* a field.  A field that comes twice adds nothing, so there is no bound here.
Part == [name: Field, reverse: BOOLEAN]
Parts == UNION {[1 .. n -> Part] : n \in 1 .. Cardinality(Field)}
Definition ==
  {d \in [kind: {"map", "btree"}, fields: Parts, sparse: BOOLEAN] :
     d.kind = "map" => DOMAIN d.fields = {1}}

ASSUME IndexAssumption == IsFiniteSet(Field) /\ NoIndex \notin Definition

\* The kinds of value are apart.
ASSUME ValueAssumption ==
  /\ Absent \notin {Null, Number} /\ Null # Number
  /\ {Absent, Null, Number} \cap Mixed = {}
  /\ \A v \in SUBSET String : v \notin {Absent, Null, Number} \cup Mixed
  /\ Leading \in [Mixed -> SUBSET String]

Key == String \cup UNION {[1 .. n -> Value] : n \in 1 .. Cardinality(Field)}

\* The entries of an index: the row of every key that has one.
IsEntryMap(entries) ==
  DOMAIN entries \subseteq Key /\ \A k \in DOMAIN entries : entries[k] \in Row
NoEntries == [k \in {} |-> {}]
Put(entries, keys, r) ==
  [k \in DOMAIN entries \cup keys |-> IF k \in keys THEN r ELSE entries[k]]
Drop(entries, keys) == [k \in DOMAIN entries \ keys |-> entries[k]]

IsStrings(v) == v \notin {Absent, Null, Number} \cup Mixed
IsString(v) == \E s \in String : v = {s}

\* The less function of the btree returns instead of panicking: it compares
\* the first values that differ, and can compare strings (numbers are one
\* value here).
Comparable(u, v) ==
  \E i \in DOMAIN u :
    /\ \A j \in 1 .. i - 1 : u[j] = v[j]
    /\ u = v \/ (u[i] # v[i] /\ IsString(u[i]) /\ IsString(v[i]))
TreePanics(u, entries) == \E k \in DOMAIN entries : ~Comparable(u, k)

-----------------------------------------------------------------------------
Values(def, doc) == [i \in DOMAIN def.fields |-> doc[def.fields[i].name]]
Lacks(def, doc) == \E i \in DOMAIN def.fields : doc[def.fields[i].name] = Absent

\* The keys under which AddRow stores a document it accepts.
KeysOf(def, doc) ==
  LET vs == Values(def, doc) IN
  CASE Lacks(def, doc) -> {}
    [] ~Lacks(def, doc) /\ def.kind = "map" -> IF IsStrings(vs[1]) THEN vs[1] ELSE {}
    [] ~Lacks(def, doc) /\ def.kind = "btree" -> {vs}

\* The tuple RemoveRow looks up in a btree: nil for a field that is missing,
\* and for a reversed one, which is looked up under the name with its "-".
Looked(def, doc) ==
  [i \in DOMAIN def.fields |->
     IF def.fields[i].reverse \/ doc[def.fields[i].name] = Absent
     THEN Null ELSE doc[def.fields[i].name]]

\* Mutant: RemoveRow forgets the keys of an array.
FreedKeysOfStrings(def, doc) ==
  IF def.kind = "btree" THEN {Looked(def, doc)}
  ELSE IF IsString(Values(def, doc)[1]) THEN KeysOf(def, doc) ELSE {}

\* The keys RemoveRow deletes; a map index gets to an element that is no
\* string after it has deleted those before.
FreedKeys(def, doc) ==
  LET v == Values(def, doc)[1] IN
  CASE def.kind = "btree" -> {Looked(def, doc)}
    [] def.kind = "map" /\ v \in Mixed -> Leading[v]
    [] def.kind = "map" /\ v \notin Mixed -> KeysOf(def, doc)

\* Mutant: an array conflicts only if all its strings are taken.
AddVerdictOfAll(def, entries, doc) ==
  LET vs == Values(def, doc) IN
  IF Lacks(def, doc) THEN IF def.sparse THEN "ok" ELSE "refused"
  ELSE IF def.kind = "map"
  THEN IF vs[1] \in Mixed THEN "panic"
       ELSE IF ~IsStrings(vs[1]) \/ vs[1] \subseteq DOMAIN entries THEN "refused" ELSE "ok"
  ELSE IF TreePanics(vs, entries) THEN "panic"
  ELSE IF vs \in DOMAIN entries THEN "refused" ELSE "ok"

\* How AddRow answers; a document a sparse index leaves out is "ok".
AddVerdict(def, entries, doc) ==
  LET vs == Values(def, doc) IN
  CASE Lacks(def, doc) -> IF def.sparse THEN "ok" ELSE "refused"
    [] ~Lacks(def, doc) /\ def.kind = "map" ->
         IF vs[1] \in Mixed
         THEN IF Leading[vs[1]] \cap DOMAIN entries # {} THEN "refused" ELSE "panic"
         ELSE IF ~IsStrings(vs[1]) \/ vs[1] \cap DOMAIN entries # {} THEN "refused"
         ELSE "ok"
    [] ~Lacks(def, doc) /\ def.kind = "btree" ->
         IF TreePanics(vs, entries) THEN "panic"
         ELSE IF vs \in DOMAIN entries THEN "refused"
         ELSE "ok"

\* A btree that is sparse or has a reversed field looks nil up also for
\* documents it has under no such key: RemoveRow may take an entry with a null
\* from the document it belongs to.  Firm keys are those nobody takes away.
CanLose(def, k) ==
  /\ def.kind = "btree"
  /\ def.sparse \/ \E i \in DOMAIN def.fields : def.fields[i].reverse
  /\ \E i \in DOMAIN k : k[i] = Null
FirmKeys(def, doc) == {k \in KeysOf(def, doc) : ~CanLose(def, k)}

\* How RemoveRow answers: whatever row the entry belongs to, it is deleted.
RemoveVerdict(def, entries, doc) ==
  LET v == Values(def, doc)[1] IN
  IF def.kind = "map"
  THEN CASE v \in Mixed -> "panic" [] v \in {Null, Number} -> "refused" [] OTHER -> "ok"
  ELSE IF TreePanics(Looked(def, doc), entries) THEN "panic" ELSE "ok"

-----------------------------------------------------------------------------
\* E is the entry map of every name, D the definition of every name (or
\* NoIndex).  Enter and Leave apply AddRow and RemoveRow on the names of S.
Names(D) == {n \in Name : D[n] # NoIndex}

Enter(D, E, S, r, doc) ==
  [n \in Name |-> IF n \in S THEN Put(E[n], KeysOf(D[n], doc), r) ELSE E[n]]
Leave(D, E, S, doc) ==
  [n \in Name |-> IF n \in S THEN Drop(E[n], FreedKeys(D[n], doc)) ELSE E[n]]

\* indexRemove over the names of S: it stops at the first index that fails
\* and puts nothing back, also what a map index deleted before it panicked.
IndexRemove(D, E, S, doc) ==
  LET stops == {n \in S : RemoveVerdict(D[n], E[n], doc) # "ok"}
      Begun(n) == IF D[n].kind = "map" THEN {n} ELSE {}
  IN IF stops = {} THEN {[verdict |-> "ok", entries |-> Leave(D, E, S, doc)]}
     ELSE {[verdict |-> RemoveVerdict(D[n], E[n], doc),
            entries |-> Leave(D, E, done \cup Begun(n), doc)] :
             n \in stops, done \in SUBSET (S \ stops)}

\* Mutant: no deferred rollback.
IndexInsertNoRollback(D, E, r, doc) ==
  LET stops == {n \in Names(D) : AddVerdict(D[n], E[n], doc) # "ok"} IN
  IF stops = {} THEN {[verdict |-> "ok", entries |-> Enter(D, E, Names(D), r, doc)]}
  ELSE {[verdict |-> AddVerdict(D[n], E[n], doc), entries |-> Enter(D, E, done, r, doc)] :
          n \in stops, done \in SUBSET (Names(D) \ stops)}

\* indexInsert: an index that refuses makes the deferred function call
\* RemoveRow on those that had accepted; a panic skips it, since err is
\* still nil.
IndexInsert(D, E, r, doc) ==
  LET stops == {n \in Names(D) : AddVerdict(D[n], E[n], doc) # "ok"}
      After(n, done) ==
        LET added == Enter(D, E, done, r, doc) IN
        IF AddVerdict(D[n], E[n], doc) = "panic"
        THEN {[verdict |-> "panic", entries |-> added]}
        ELSE {[verdict |-> IF o.verdict = "ok" THEN "refused" ELSE "panic",
               entries |-> o.entries] : o \in IndexRemove(D, added, done, doc)}
  IN IF stops = {} THEN {[verdict |-> "ok", entries |-> Enter(D, E, Names(D), r, doc)]}
     ELSE UNION {After(n, done) : n \in stops, done \in SUBSET (Names(D) \ stops)}
=============================================================================

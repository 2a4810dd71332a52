--------------------------- MODULE CollectionProofs ---------------------------
(***************************************************************************)
(* A collection with any documents, patches, indexes and rows: the         *)
(* positions and the index entries are right in every state, torn or not;  *)
(* until the first tear the indexes are exact, a restart finds the same    *)
(* collection, and the collection implements DocumentStore.                *)
(*                                                                         *)
(* The first part is about the indexes alone, the second about one         *)
(* collection and one operation, in memory or replayed; the third puts     *)
(* the two collections of Collection together.                             *)
(***************************************************************************)
EXTENDS Collection, FiniteSetTheorems, WellFoundedInduction, TLAPS

EntryMaps == UNION {[S -> Row] : S \in SUBSET Key}
DefMap == [Name -> Definition \cup {NoIndex}]
EntryMap == [Name -> EntryMaps]
Verdicts == {"ok", "refused", "panic"}

-----------------------------------------------------------------------------
(***************************************************************************)
(* The indexes.                                                            *)
(***************************************************************************)
LEMMA EntryMapIs ==
  ASSUME NEW e \in EntryMaps
  PROVE  /\ DOMAIN e \subseteq Key /\ e \in [DOMAIN e -> Row]
         /\ IsEntryMap(e) /\ e = [k \in DOMAIN e |-> e[k]]
<1>1. PICK S \in SUBSET Key : e \in [S -> Row]
  BY DEF EntryMaps
<1>2. DOMAIN e = S
  BY <1>1
<1> QED
  BY <1>1, <1>2 DEF IsEntryMap

LEMMA AnEntryMap ==
  ASSUME NEW S, NEW e, S \in SUBSET Key, e \in [S -> Row]
  PROVE  e \in EntryMaps
  BY DEF EntryMaps

LEMMA PutIs ==
  ASSUME NEW e, NEW keys, NEW r, e \in EntryMaps, keys \in SUBSET Key, r \in Row
  PROVE  /\ Put(e, keys, r) \in EntryMaps
         /\ DOMAIN Put(e, keys, r) = DOMAIN e \cup keys
         /\ \A k \in keys : Put(e, keys, r)[k] = r
         /\ \A k \in DOMAIN e \ keys : Put(e, keys, r)[k] = e[k]
<1> DEFINE p == Put(e, keys, r)
<1>1. DOMAIN e \subseteq Key /\ \A k \in DOMAIN e : e[k] \in Row
  BY EntryMapIs DEF IsEntryMap
<1>2. p \in [DOMAIN e \cup keys -> Row]
  BY <1>1 DEF Put
<1>3. p \in EntryMaps
  <2> DEFINE S == DOMAIN e \cup keys
  <2>1. S \in SUBSET Key /\ p \in [S -> Row]
    BY <1>1, <1>2
  <2> HIDE DEF p, S
  <2> QED
    BY <2>1, AnEntryMap
<1> QED
  BY <1>3 DEF Put

LEMMA DropIs ==
  ASSUME NEW e, NEW keys, e \in EntryMaps
  PROVE  /\ Drop(e, keys) \in EntryMaps
         /\ DOMAIN Drop(e, keys) = DOMAIN e \ keys
         /\ \A k \in DOMAIN e \ keys : Drop(e, keys)[k] = e[k]
<1> DEFINE d == Drop(e, keys)  S == DOMAIN e \ keys
<1>1. DOMAIN e \subseteq Key /\ \A k \in DOMAIN e : e[k] \in Row
  BY EntryMapIs DEF IsEntryMap
<1>2. S \in SUBSET Key /\ d \in [S -> Row]
  BY <1>1 DEF Drop
<1>3. d \in EntryMaps
  <2> HIDE DEF d, S
  <2> QED
    BY <1>2, AnEntryMap
<1> QED
  BY <1>3 DEF Drop

\* The fields of an index: a first one, and no more than there are fields.
LEMMA FieldsAre ==
  ASSUME NEW def \in Definition
  PROVE  /\ def.kind \in {"map", "btree"} /\ def.sparse \in BOOLEAN
         /\ \E n \in 1 .. Cardinality(Field) : def.fields \in [1 .. n -> Part]
         /\ 1 \in DOMAIN def.fields
         /\ \A i \in DOMAIN def.fields : def.fields[i].name \in Field
         /\ def.kind = "map" => DOMAIN def.fields = {1}
<1>1. /\ def.fields \in Parts /\ def.kind \in {"map", "btree"} /\ def.sparse \in BOOLEAN
      /\ def.kind = "map" => DOMAIN def.fields = {1}
  BY DEF Definition
<1>2. PICK n \in 1 .. Cardinality(Field) : def.fields \in [1 .. n -> Part]
  BY <1>1 DEF Parts
<1>3. n \in Nat /\ n >= 1
  BY <1>2, IndexAssumption, FS_CardinalityType
<1>4. DOMAIN def.fields = 1 .. n /\ \A i \in 1 .. n : def.fields[i].name \in Field
  BY <1>2 DEF Part
<1> QED
  BY <1>1, <1>2, <1>3, <1>4

LEMMA ValuesAre ==
  ASSUME NEW def \in Definition, NEW doc \in Document
  PROVE  /\ DOMAIN Values(def, doc) = DOMAIN def.fields
         /\ \A i \in DOMAIN def.fields : Values(def, doc)[i] = doc[def.fields[i].name]
         /\ \A i \in DOMAIN def.fields : Values(def, doc)[i] \in Value
         /\ Values(def, doc) \in UNION {[1 .. n -> Value] : n \in 1 .. Cardinality(Field)}
<1>1. PICK n \in 1 .. Cardinality(Field) : def.fields \in [1 .. n -> Part]
  BY FieldsAre
<1>2. \A i \in 1 .. n : doc[def.fields[i].name] \in Value
  BY <1>1 DEF Part, Document
<1>3. DOMAIN def.fields = 1 .. n
  BY <1>1
<1>4. Values(def, doc) \in [1 .. n -> Value]
  BY <1>2, <1>3 DEF Values
<1> QED
  BY <1>1, <1>2, <1>3, <1>4 DEF Values

LEMMA StringsOf ==
  ASSUME NEW v \in Value, IsStrings(v)
  PROVE  v \in SUBSET String
  BY DEF Value, IsStrings

\* What AddRow stores and what RemoveRow deletes, case by case.
LEMMA KeysAre ==
  ASSUME NEW def \in Definition, NEW doc \in Document
  PROVE  /\ KeysOf(def, doc) \in SUBSET Key
         /\ Lacks(def, doc) => KeysOf(def, doc) = {}
         /\ ~Lacks(def, doc) /\ def.kind = "btree" => KeysOf(def, doc) = {Values(def, doc)}
         /\ ~Lacks(def, doc) /\ def.kind = "map" =>
              KeysOf(def, doc) = IF IsStrings(Values(def, doc)[1]) THEN Values(def, doc)[1]
                                 ELSE {}
<1>1. def.kind \in {"map", "btree"} /\ 1 \in DOMAIN def.fields
  BY FieldsAre
<1>2. Values(def, doc) \in Key /\ Values(def, doc)[1] \in Value
  BY <1>1, ValuesAre DEF Key
<1>3. CASE Lacks(def, doc)
  BY <1>3 DEF KeysOf
<1>4. CASE ~Lacks(def, doc) /\ def.kind = "map"
  <2>1. KeysOf(def, doc) = IF IsStrings(Values(def, doc)[1]) THEN Values(def, doc)[1] ELSE {}
    BY <1>4 DEF KeysOf
  <2>2. IsStrings(Values(def, doc)[1]) => Values(def, doc)[1] \in SUBSET String
    BY <1>2, StringsOf
  <2> QED
    BY <1>4, <2>1, <2>2 DEF Key
<1>5. CASE ~Lacks(def, doc) /\ def.kind = "btree"
  BY <1>2, <1>5 DEF KeysOf
<1> QED
  BY <1>1, <1>3, <1>4, <1>5

LEMMA LookedIs ==
  ASSUME NEW def \in Definition, NEW doc \in Document
  PROVE  /\ DOMAIN Looked(def, doc) = DOMAIN def.fields
         /\ \A i \in DOMAIN def.fields :
              Looked(def, doc)[i] = IF def.fields[i].reverse \/ Values(def, doc)[i] = Absent
                                    THEN Null ELSE Values(def, doc)[i]
  BY ValuesAre DEF Looked

\* A btree that looks up another tuple than it stored has a reversed field; the
\* tuple stored is then no tuple it could be compared with.
LEMMA ReversedPanics ==
  ASSUME NEW def \in Definition, NEW doc \in Document, ~Lacks(def, doc),
         NEW e, Values(def, doc) \in DOMAIN e, ~TreePanics(Looked(def, doc), e)
  PROVE  Looked(def, doc) = Values(def, doc)
<1> DEFINE u == Looked(def, doc)  v == Values(def, doc)  D == DOMAIN def.fields
<1>1. DOMAIN u = D /\ DOMAIN v = D /\ \A i \in D : v[i] \in Value /\ v[i] # Absent
  BY LookedIs, ValuesAre DEF Lacks
<1>2. \A i \in D : u[i] = IF def.fields[i].reverse THEN Null ELSE v[i]
  BY <1>1, LookedIs
<1>3. u = [i \in D |-> u[i]] /\ v = [i \in D |-> v[i]]
  BY ValuesAre, LookedIs DEF Looked, Values
<1>4. Comparable(u, v)
  BY DEF TreePanics
<1>5. PICK i \in D : u = v \/ (u[i] # v[i] /\ IsString(u[i]))
  BY <1>1, <1>4 DEF Comparable
<1>6. CASE u[i] # v[i] /\ IsString(u[i])
  <2>1. u[i] = Null
    BY <1>2, <1>6
  <2>2. u[i] \in SUBSET String
    BY <1>6 DEF IsString
  <2> QED
    BY <2>1, <2>2, ValueAssumption
<1> QED
  BY <1>5, <1>6

\* A key that RemoveRow was asked to free, and answered with no error, is free.
LEMMA FreesKeys ==
  ASSUME NEW def \in Definition, NEW doc \in Document, NEW e,
         RemoveVerdict(def, e, doc) = "ok",
         NEW k \in KeysOf(def, doc), k \in DOMAIN e
  PROVE  k \in FreedKeys(def, doc)
<1>1. CASE def.kind = "map"
  BY <1>1 DEF FreedKeys, RemoveVerdict
<1>2. CASE def.kind = "btree"
  <2>1. ~Lacks(def, doc) /\ k = Values(def, doc)
    BY <1>2, KeysAre
  <2>2. ~TreePanics(Looked(def, doc), e)
    BY <1>2 DEF RemoveVerdict
  <2>3. Looked(def, doc) = Values(def, doc)
    BY <2>1, <2>2, ReversedPanics
  <2> QED
    BY <1>2, <2>1, <2>3 DEF FreedKeys
<1> QED
  BY <1>1, <1>2, FieldsAre

\* What RemoveRow frees with no error is a key of the document, or one that an
\* index can lose.
LEMMA FreesNothingElse ==
  ASSUME NEW def \in Definition, NEW doc \in Document, NEW e,
         RemoveVerdict(def, e, doc) = "ok", Lacks(def, doc) => def.sparse,
         NEW k \in FreedKeys(def, doc)
  PROVE  k \in KeysOf(def, doc) \/ CanLose(def, k)
<1>1. CASE def.kind = "map"
  BY <1>1 DEF FreedKeys, RemoveVerdict
<1>2. CASE def.kind = "btree"
  <2> DEFINE D == DOMAIN def.fields  v == Values(def, doc)
  <2>1. k = Looked(def, doc) /\ DOMAIN k = D
    BY <1>2, LookedIs DEF FreedKeys
  <2>2. \A i \in D : k[i] = IF def.fields[i].reverse \/ v[i] = Absent THEN Null ELSE v[i]
    BY <2>1, LookedIs
  <2>3. Lacks(def, doc) <=> \E i \in D : v[i] = Absent
    BY ValuesAre DEF Lacks
  <2>4. CASE \E i \in D : def.fields[i].reverse \/ v[i] = Absent
    <3>1. PICK i \in D : def.fields[i].reverse \/ v[i] = Absent
      BY <2>4
    <3>2. k[i] = Null /\ i \in DOMAIN k
      BY <2>1, <2>2, <3>1
    <3>3. def.sparse \/ \E j \in D : def.fields[j].reverse
      BY <2>3, <3>1
    <3> QED
      BY <1>2, <3>2, <3>3 DEF CanLose
  <2>5. CASE \A i \in D : ~def.fields[i].reverse /\ v[i] # Absent
    <3>1. k = [i \in D |-> k[i]] /\ v = [i \in D |-> v[i]]
      BY <2>1, ValuesAre DEF Looked, Values
    <3>2. k = v
      BY <2>2, <2>5, <3>1
    <3> QED
      BY <1>2, <2>3, <2>5, <3>2, KeysAre
  <2> QED
    BY <2>4, <2>5
<1> QED
  BY <1>1, <1>2, FieldsAre

\* A document an index accepts has only keys nobody has yet, and a value the
\* index can hold; RemoveRow takes it out again, or panics.
LEMMA AcceptedIs ==
  ASSUME NEW def \in Definition, NEW doc \in Document, NEW e,
         AddVerdict(def, e, doc) = "ok"
  PROVE  /\ KeysOf(def, doc) \cap DOMAIN e = {}
         /\ Lacks(def, doc) => def.sparse
         /\ ~Lacks(def, doc) /\ def.kind = "map" => IsStrings(Values(def, doc)[1])
         /\ ~Lacks(def, doc) /\ def.kind = "btree" =>
              \A k \in DOMAIN e : Comparable(Values(def, doc), k)
<1>1. def.kind \in {"map", "btree"} /\ def.sparse \in BOOLEAN /\ 1 \in DOMAIN def.fields
  BY FieldsAre
<1>2. CASE Lacks(def, doc)
  <2>1. def.sparse
    BY <1>2 DEF AddVerdict
  <2> QED
    BY <1>2, <2>1, KeysAre
<1>3. CASE ~Lacks(def, doc) /\ def.kind = "map"
  <2> DEFINE v == Values(def, doc)[1]
  <2>1. v \notin Mixed /\ IsStrings(v) /\ v \cap DOMAIN e = {}
    BY <1>3 DEF AddVerdict
  <2> QED
    BY <1>3, <2>1, KeysAre
<1>4. CASE ~Lacks(def, doc) /\ def.kind = "btree"
  <2> DEFINE v == Values(def, doc)
  <2>1. AddVerdict(def, e, doc) = IF TreePanics(v, e) THEN "panic"
                                  ELSE IF v \in DOMAIN e THEN "refused" ELSE "ok"
    BY <1>4 DEF AddVerdict
  <2>2. ~TreePanics(v, e) /\ v \notin DOMAIN e
    BY <2>1
  <2> QED
    BY <1>4, <2>2, KeysAre DEF TreePanics
<1> QED
  BY <1>1, <1>2, <1>3, <1>4

LEMMA VerdictsAre ==
  ASSUME NEW def \in Definition, NEW doc \in Document, NEW e
  PROVE  AddVerdict(def, e, doc) \in Verdicts /\ RemoveVerdict(def, e, doc) \in Verdicts
<1>1. def.kind \in {"map", "btree"}
  BY FieldsAre
<1>2. AddVerdict(def, e, doc) \in Verdicts
  <2>1. CASE Lacks(def, doc)
    BY <2>1 DEF AddVerdict, Verdicts
  <2>2. CASE ~Lacks(def, doc) /\ def.kind = "map"
    BY <2>2 DEF AddVerdict, Verdicts
  <2>3. CASE ~Lacks(def, doc) /\ def.kind = "btree"
    BY <2>3 DEF AddVerdict, Verdicts
  <2> QED
    BY <1>1, <2>1, <2>2, <2>3
<1>3. RemoveVerdict(def, e, doc) \in Verdicts
  BY <1>1 DEF RemoveVerdict, Verdicts
<1> QED
  BY <1>2, <1>3

LEMMA EnterIs ==
  ASSUME NEW D, NEW E, NEW S, NEW r, NEW doc, D \in DefMap, E \in EntryMap,
         S \in SUBSET Names(D), r \in Row, doc \in Document
  PROVE  /\ Enter(D, E, S, r, doc) \in EntryMap
         /\ \A n \in Name \ S : Enter(D, E, S, r, doc)[n] = E[n]
         /\ \A n \in S :
              /\ Enter(D, E, S, r, doc)[n] = Put(E[n], KeysOf(D[n], doc), r)
              /\ DOMAIN Enter(D, E, S, r, doc)[n] = DOMAIN E[n] \cup KeysOf(D[n], doc)
              /\ \A k \in KeysOf(D[n], doc) : Enter(D, E, S, r, doc)[n][k] = r
              /\ \A k \in DOMAIN E[n] \ KeysOf(D[n], doc) :
                   Enter(D, E, S, r, doc)[n][k] = E[n][k]
<1>1. \A n \in S : n \in Name /\ D[n] \in Definition /\ E[n] \in EntryMaps
  BY DEF Names, DefMap, EntryMap
<1>2. \A n \in S : KeysOf(D[n], doc) \in SUBSET Key
  BY <1>1, KeysAre
<1>3. \A n \in S : Enter(D, E, S, r, doc)[n] = Put(E[n], KeysOf(D[n], doc), r)
  BY <1>1 DEF Enter
<1>4. \A n \in S : Put(E[n], KeysOf(D[n], doc), r) \in EntryMaps
  BY <1>1, <1>2, PutIs
<1>5. Enter(D, E, S, r, doc) \in EntryMap
  BY <1>4 DEF Enter, EntryMap
<1>6. \A n \in S :
        /\ DOMAIN Put(E[n], KeysOf(D[n], doc), r) = DOMAIN E[n] \cup KeysOf(D[n], doc)
        /\ \A k \in KeysOf(D[n], doc) : Put(E[n], KeysOf(D[n], doc), r)[k] = r
        /\ \A k \in DOMAIN E[n] \ KeysOf(D[n], doc) :
             Put(E[n], KeysOf(D[n], doc), r)[k] = E[n][k]
  <2> TAKE n \in S
  <2>1. E[n] \in EntryMaps /\ KeysOf(D[n], doc) \in SUBSET Key
    BY <1>1, <1>2
  <2> QED
    BY <2>1 DEF Put
<1>7. \A n \in Name \ S : Enter(D, E, S, r, doc)[n] = E[n]
  BY DEF Enter
<1> QED
  BY <1>3, <1>5, <1>6, <1>7

LEMMA LeaveIs ==
  ASSUME NEW D, NEW E, NEW S, NEW doc, E \in EntryMap
  PROVE  /\ Leave(D, E, S, doc) \in EntryMap
         /\ \A n \in Name \ S : Leave(D, E, S, doc)[n] = E[n]
         /\ \A n \in Name \cap S :
              /\ Leave(D, E, S, doc)[n] = Drop(E[n], FreedKeys(D[n], doc))
              /\ DOMAIN Leave(D, E, S, doc)[n] = DOMAIN E[n] \ FreedKeys(D[n], doc)
         /\ \A n \in Name : DOMAIN Leave(D, E, S, doc)[n] \subseteq DOMAIN E[n]
<1>1. \A n \in Name : E[n] \in EntryMaps
  BY DEF EntryMap
<1>2. \A n \in Name : Drop(E[n], FreedKeys(D[n], doc)) \in EntryMaps
  BY <1>1, DropIs
<1>3. Leave(D, E, S, doc) \in EntryMap
  BY <1>1, <1>2 DEF Leave, EntryMap
<1>4. \A n \in Name : Leave(D, E, S, doc)[n] =
        IF n \in S THEN Drop(E[n], FreedKeys(D[n], doc)) ELSE E[n]
  BY DEF Leave
<1>5. \A n \in Name :
        /\ DOMAIN Drop(E[n], FreedKeys(D[n], doc)) = DOMAIN E[n] \ FreedKeys(D[n], doc)
        /\ \A k \in DOMAIN E[n] \ FreedKeys(D[n], doc) :
             Drop(E[n], FreedKeys(D[n], doc))[k] = E[n][k]
  BY <1>1, DropIs
<1> QED
  BY <1>3, <1>4, <1>5

LEMMA LeaveKeeps ==
  ASSUME NEW D, NEW E, NEW S, NEW doc, NEW n, NEW k, E \in EntryMap,
         n \in Name, k \in DOMAIN Leave(D, E, S, doc)[n]
  PROVE  Leave(D, E, S, doc)[n][k] = E[n][k]
<1>1. E[n] \in EntryMaps
  BY DEF EntryMap
<1>2. Leave(D, E, S, doc)[n] = IF n \in S THEN Drop(E[n], FreedKeys(D[n], doc)) ELSE E[n]
  BY DEF Leave
<1> QED
  BY <1>2 DEF Drop

\* indexRemove takes the document out of some of the indexes, and out of all of
\* them if it answers with no error.
LEMMA IndexRemoveIs ==
  ASSUME NEW D, NEW E, NEW S, NEW doc, NEW o, D \in DefMap, doc \in Document,
         S \in SUBSET Names(D), o \in IndexRemove(D, E, S, doc)
  PROVE  /\ o.verdict \in Verdicts
         /\ \E T \in SUBSET S : o.entries = Leave(D, E, T, doc)
         /\ o.verdict # "ok" =>
              \E n \in S : RemoveVerdict(D[n], E[n], doc) = o.verdict
         /\ o.verdict = "ok" =>
              /\ \A n \in S : RemoveVerdict(D[n], E[n], doc) = "ok"
              /\ o.entries = Leave(D, E, S, doc)
              /\ IndexRemove(D, E, S, doc) = {o}
<1> DEFINE stops == {n \in S : RemoveVerdict(D[n], E[n], doc) # "ok"}
           all == [verdict |-> "ok", entries |-> Leave(D, E, S, doc)]
<1>1. \A n \in S : RemoveVerdict(D[n], E[n], doc) \in Verdicts
  BY VerdictsAre DEF Names, DefMap
<1>2. CASE stops = {}
  <2>1. IndexRemove(D, E, S, doc) = {all}
    BY <1>2 DEF IndexRemove
  <2> QED
    BY <1>2, <2>1 DEF Verdicts
<1>3. CASE stops # {}
  <2> DEFINE Begun(n) == IF D[n].kind = "map" THEN {n} ELSE {}
             Left(n, done) == [verdict |-> RemoveVerdict(D[n], E[n], doc),
                               entries |-> Leave(D, E, done \cup Begun(n), doc)]
  <2>0. IndexRemove(D, E, S, doc) =
          IF stops = {} THEN {all}
          ELSE {Left(n, done) : n \in stops, done \in SUBSET (S \ stops)}
    BY DEF IndexRemove
  <2>1. PICK n \in stops, done \in SUBSET (S \ stops) : o = Left(n, done)
    <3> HIDE DEF Left, stops, all
    <3> QED
      BY <1>3, <2>0
  <2> DEFINE T == done \cup Begun(n)
  <2>2. T \in SUBSET S
    BY <2>1
  <2>3. o.verdict = RemoveVerdict(D[n], E[n], doc) /\ o.entries = Leave(D, E, T, doc)
    BY <2>1
  <2>4. o.verdict # "ok" /\ n \in S
    BY <2>3
  <2> HIDE DEF T
  <2> QED
    BY <1>1, <2>2, <2>3, <2>4
<1> QED
  BY <1>2, <1>3

\* indexInsert puts the document into indexes that accept it, into all of them
\* if it answers with no error; if it answers with one it has taken it out again.
LEMMA IndexInsertIs ==
  ASSUME NEW D, NEW E, NEW r, NEW doc, NEW o, D \in DefMap, E \in EntryMap,
         r \in Row, doc \in Document, o \in IndexInsert(D, E, r, doc)
  PROVE  /\ o.verdict \in Verdicts
         /\ \E done \in SUBSET Names(D), T \in SUBSET Names(D) :
              LET added == Enter(D, E, done, r, doc) IN
              /\ T \subseteq done
              /\ \A n \in done : AddVerdict(D[n], E[n], doc) = "ok"
              /\ o.entries = added \/ o.entries = Leave(D, added, T, doc)
              /\ o.verdict = "refused" =>
                   /\ \A n \in done : RemoveVerdict(D[n], added[n], doc) = "ok"
                   /\ o.entries = Leave(D, added, done, doc)
         /\ o.verdict # "ok" => \E n \in Names(D) : AddVerdict(D[n], E[n], doc) # "ok"
         /\ o.verdict = "ok" =>
              /\ \A n \in Names(D) : AddVerdict(D[n], E[n], doc) = "ok"
              /\ o.entries = Enter(D, E, Names(D), r, doc)
              /\ IndexInsert(D, E, r, doc) = {o}
<1> DEFINE stops == {n \in Names(D) : AddVerdict(D[n], E[n], doc) # "ok"}
           all == [verdict |-> "ok", entries |-> Enter(D, E, Names(D), r, doc)]
           Added(done) == Enter(D, E, done, r, doc)
           After(n, done) ==
             IF AddVerdict(D[n], E[n], doc) = "panic"
             THEN {[verdict |-> "panic", entries |-> Added(done)]}
             ELSE {[verdict |-> IF p.verdict = "ok" THEN "refused" ELSE "panic",
                    entries |-> p.entries] : p \in IndexRemove(D, Added(done), done, doc)}
<1>1. CASE stops = {}
  <2>1. IndexInsert(D, E, r, doc) = {all}
    BY <1>1 DEF IndexInsert
  <2>2. o = all
    BY <2>1
  <2>3. Names(D) \in SUBSET Names(D) /\ {} \in SUBSET Names(D)
    OBVIOUS
  <2>4. o.entries = Enter(D, E, Names(D), r, doc) /\ o.verdict = "ok"
    BY <2>2
  <2>5. \A n \in Names(D) : AddVerdict(D[n], E[n], doc) = "ok"
    BY <1>1
  <2> QED
    BY <2>1, <2>2, <2>3, <2>4, <2>5 DEF Verdicts
<1>2. CASE stops # {}
  <2>1. IndexInsert(D, E, r, doc) =
          UNION {After(n, done) : n \in stops, done \in SUBSET (Names(D) \ stops)}
    BY <1>2 DEF IndexInsert
  <2> HIDE DEF After
  <2>2. PICK n \in stops, done \in SUBSET (Names(D) \ stops) : o \in After(n, done)
    BY <2>1
  <2> USE DEF After
  <2>3. done \in SUBSET Names(D) /\ \A m \in done : AddVerdict(D[m], E[m], doc) = "ok"
    BY <2>2
  <2>4. CASE AddVerdict(D[n], E[n], doc) = "panic"
    <3>1. o = [verdict |-> "panic", entries |-> Added(done)]
      BY <2>2, <2>4
    <3> QED
      BY <1>2, <2>2, <2>3, <3>1 DEF Verdicts
  <2>5. CASE AddVerdict(D[n], E[n], doc) # "panic"
    <3> DEFINE added == Enter(D, E, done, r, doc)
    <3>1. PICK p \in IndexRemove(D, added, done, doc) :
            o = [verdict |-> IF p.verdict = "ok" THEN "refused" ELSE "panic",
                 entries |-> p.entries]
      BY <2>2, <2>5
    <3>2. /\ \E T \in SUBSET done : p.entries = Leave(D, added, T, doc)
          /\ p.verdict = "ok" =>
               /\ \A m \in done : RemoveVerdict(D[m], added[m], doc) = "ok"
               /\ p.entries = Leave(D, added, done, doc)
      <4> HIDE DEF added
      <4>1. done \in SUBSET Names(D) /\ p \in IndexRemove(D, added, done, doc)
        BY <2>3, <3>1
      <4> QED
        BY <4>1, IndexRemoveIs
    <3>3. PICK T \in SUBSET done : p.entries = Leave(D, added, T, doc)
      BY <3>2
    <3>4. o.verdict \in {"refused", "panic"} /\ (o.verdict = "refused" => p.verdict = "ok")
      BY <3>1
    <3>5. o.entries = p.entries
      BY <3>1
    <3>6. /\ T \in SUBSET Names(D) /\ T \subseteq done
          /\ o.entries = Leave(D, added, T, doc)
          /\ o.verdict = "refused" =>
               /\ \A m \in done : RemoveVerdict(D[m], added[m], doc) = "ok"
               /\ o.entries = Leave(D, added, done, doc)
      BY <2>3, <3>2, <3>3, <3>4, <3>5
    <3> QED
      BY <1>2, <2>3, <3>4, <3>6 DEF Verdicts
  <2> QED
    BY <2>4, <2>5
<1> QED
  BY <1>1, <1>2

\* After indexRemove nothing is in an index that was not there, and after one
\* that answers with no error the document has no key left.
LEMMA RemoveEntries ==
  ASSUME NEW D, NEW E, NEW doc, NEW o, D \in DefMap, E \in EntryMap,
         doc \in Document, o \in IndexRemove(D, E, Names(D), doc)
  PROVE  /\ o.entries \in EntryMap
         /\ \A n \in Name : \A k \in DOMAIN o.entries[n] :
              k \in DOMAIN E[n] /\ o.entries[n][k] = E[n][k]
         /\ o.verdict = "ok" =>
              \A n \in Names(D) : \A k \in DOMAIN o.entries[n] : k \notin KeysOf(D[n], doc)
<1>1. Names(D) \in SUBSET Names(D)
  OBVIOUS
<1>2. \E T \in SUBSET Names(D) : o.entries = Leave(D, E, T, doc)
  BY <1>1, IndexRemoveIs
<1>3. ASSUME o.verdict = "ok", NEW n \in Names(D), NEW k \in DOMAIN o.entries[n]
      PROVE  k \notin KeysOf(D[n], doc)
  <2>1. RemoveVerdict(D[n], E[n], doc) = "ok" /\ o.entries = Leave(D, E, Names(D), doc)
    BY <1>1, <1>3, IndexRemoveIs
  <2>2. n \in Name /\ D[n] \in Definition
    BY DEF Names, DefMap
  <2>3. k \in DOMAIN E[n] /\ k \notin FreedKeys(D[n], doc)
    BY <2>1, <2>2, LeaveIs
  <2> QED
    BY <2>1, <2>2, <2>3, FreesKeys
<1>4. /\ o.entries \in EntryMap
      /\ \A n \in Name : /\ DOMAIN o.entries[n] \subseteq DOMAIN E[n]
                         /\ \A k \in DOMAIN o.entries[n] : o.entries[n][k] = E[n][k]
  <2>1. PICK T \in SUBSET Names(D) : o.entries = Leave(D, E, T, doc)
    BY <1>2
  <2> QED
    BY <2>1, LeaveIs, LeaveKeeps
<1> QED
  BY <1>3, <1>4

\* After indexInsert an entry is an old one, or one of the new document.  After
\* an insert that was refused there are only old ones.
LEMMA InsertEntries ==
  ASSUME NEW D, NEW E, NEW r, NEW doc, NEW o, D \in DefMap, E \in EntryMap,
         r \in Row, doc \in Document, o \in IndexInsert(D, E, r, doc)
  PROVE  /\ o.entries \in EntryMap
         /\ \A n \in Name : \A k \in DOMAIN o.entries[n] :
              \/ /\ n \in Names(D) /\ k \in KeysOf(D[n], doc)
                 /\ o.entries[n][k] = r /\ o.verdict # "refused"
              \/ k \in DOMAIN E[n] /\ o.entries[n][k] = E[n][k]
<1>1. PICK done \in SUBSET Names(D), T \in SUBSET Names(D) :
        LET added == Enter(D, E, done, r, doc) IN
        /\ T \subseteq done
        /\ o.entries = added \/ o.entries = Leave(D, added, T, doc)
        /\ o.verdict = "refused" =>
             /\ \A n \in done : RemoveVerdict(D[n], added[n], doc) = "ok"
             /\ o.entries = Leave(D, added, done, doc)
  BY IndexInsertIs
<1> DEFINE added == Enter(D, E, done, r, doc)
<1>2. /\ added \in EntryMap
      /\ \A n \in Name \ done : added[n] = E[n]
      /\ \A n \in done :
           /\ DOMAIN added[n] = DOMAIN E[n] \cup KeysOf(D[n], doc)
           /\ \A k \in KeysOf(D[n], doc) : added[n][k] = r
           /\ \A k \in DOMAIN E[n] \ KeysOf(D[n], doc) : added[n][k] = E[n][k]
  <2> HIDE DEF added
  <2>1. added = Enter(D, E, done, r, doc)
    BY DEF added
  <2> QED
    BY <2>1, EnterIs
<1>3. /\ o.entries = added \/ o.entries = Leave(D, added, T, doc)
      /\ o.verdict = "refused" =>
           /\ \A n \in done : RemoveVerdict(D[n], added[n], doc) = "ok"
           /\ o.entries = Leave(D, added, done, doc)
  BY <1>1
<1> HIDE DEF added
<1>4. /\ o.entries \in EntryMap
      /\ \A n \in Name : \A k \in DOMAIN o.entries[n] :
           k \in DOMAIN added[n] /\ o.entries[n][k] = added[n][k]
  BY <1>2, <1>3, LeaveIs, LeaveKeeps
<1>5. ASSUME o.verdict = "refused", NEW n \in done, NEW k \in DOMAIN o.entries[n]
      PROVE  k \notin KeysOf(D[n], doc)
  <2>1. n \in Name /\ D[n] \in Definition
    BY DEF Names, DefMap
  <2>2. DOMAIN o.entries[n] = DOMAIN added[n] \ FreedKeys(D[n], doc)
    BY <1>2, <1>3, <1>5, <2>1, LeaveIs
  <2>3. RemoveVerdict(D[n], added[n], doc) = "ok"
    BY <1>3, <1>5
  <2> QED
    BY <2>1, <2>2, <2>3, FreesKeys
<1>6. ASSUME NEW n \in Name, NEW k \in DOMAIN o.entries[n]
      PROVE  \/ /\ n \in Names(D) /\ k \in KeysOf(D[n], doc)
                /\ o.entries[n][k] = r /\ o.verdict # "refused"
             \/ k \in DOMAIN E[n] /\ o.entries[n][k] = E[n][k]
  <2>1. CASE n \notin done
    BY <1>2, <1>4, <2>1
  <2>2. CASE n \in done /\ k \in KeysOf(D[n], doc)
    BY <1>2, <1>4, <1>5, <2>2
  <2>3. CASE n \in done /\ k \notin KeysOf(D[n], doc)
    BY <1>2, <1>4, <2>3
  <2> QED
    BY <2>1, <2>2, <2>3
<1> QED
  BY <1>4, <1>6

-----------------------------------------------------------------------------
(***************************************************************************)
(* One collection: what every operation keeps, however it ends.            *)
(***************************************************************************)
Col == [Rows : Seq(Row), heap : [Row -> RowRecord], Defs : DefMap, Entries : EntryMap]
Good(c) == c \in Col /\ Positioned(c) /\ Matched(c)

LEMMA ColIs ==
  ASSUME NEW c \in Col
  PROVE  /\ c.Rows \in Seq(Row) /\ c.heap \in [Row -> RowRecord]
         /\ c.Defs \in DefMap /\ c.Entries \in EntryMap
         /\ \A n \in Name : c.Entries[n] \in EntryMaps
         /\ c = [Rows |-> c.Rows, heap |-> c.heap, Defs |-> c.Defs, Entries |-> c.Entries]
         /\ \A k \in DOMAIN c.Rows : c.Rows[k] \in Row
         /\ \A r \in Row : c.heap[r].I \in Nat \ {0} /\ c.heap[r].Payload \in Document
         /\ DOMAIN c.Rows = 1 .. Len(c.Rows) /\ Len(c.Rows) \in Nat
<1>1. c.Rows \in Seq(Row) /\ c.heap \in [Row -> RowRecord] /\ c.Defs \in DefMap
      /\ c.Entries \in EntryMap
  BY DEF Col
<1> QED
  BY <1>1 DEF Col, EntryMap, RowRecord

LEMMA ColTyped == ASSUME NEW c \in Col PROVE IsCol(c)
<1>1. \A n \in Name : IsEntryMap(c.Entries[n])
  BY ColIs, EntryMapIs
<1> QED
  BY <1>1, ColIs DEF IsCol, DefMap

LEMMA BlankIs == Blank \in RowRecord
  BY DEF Blank, RowRecord, Document, Value

LEMMA GoodEmpty == Good(Empty)
<1>1. NoEntries \in EntryMaps /\ DOMAIN NoEntries = {}
  BY DEF NoEntries, EntryMaps
<1>2. Empty \in Col
  BY <1>1, BlankIs DEF Empty, Col, EntryMap, DefMap
<1>3. Positioned(Empty) /\ Matched(Empty)
  BY <1>1 DEF Empty, Positioned, Matched
<1> QED
  BY <1>2, <1>3 DEF Good

LEMMA ReachableIs ==
  ASSUME NEW c \in Col
  PROVE  /\ Live(c) \subseteq Reachable(c) /\ Pointed(c) \subseteq Reachable(c)
         /\ Reachable(c) \subseteq Row
         /\ \A k \in DOMAIN c.Rows : c.Rows[k] \in Live(c)
         /\ \A n \in Name : \A k \in DOMAIN c.Entries[n] : c.Entries[n][k] \in Pointed(c)
<1>1. \A n \in Name : \A k \in DOMAIN c.Entries[n] : c.Entries[n][k] \in Row
  BY ColIs, EntryMapIs
<1>2. Live(c) \subseteq Row /\ Pointed(c) \subseteq Row
  BY <1>1, ColIs DEF Live, Pointed
<1> QED
  BY <1>2 DEF Reachable, Live, Pointed

LEMMA CollectedRecord ==
  ASSUME NEW c \in Col
  PROVE  Collected(c) =
           [Rows |-> c.Rows, Defs |-> c.Defs, Entries |-> c.Entries,
            heap |-> [r \in Row |-> IF r \in Reachable(c) THEN c.heap[r] ELSE Blank]]
  BY ColIs DEF Collected

LEMMA CollectedIs ==
  ASSUME NEW c \in Col
  PROVE  /\ Collected(c) \in Col
         /\ Collected(c).Rows = c.Rows /\ Collected(c).Defs = c.Defs
         /\ Collected(c).Entries = c.Entries
         /\ \A r \in Row : Collected(c).heap[r] = IF r \in Reachable(c) THEN c.heap[r] ELSE Blank
         /\ Reachable(Collected(c)) = Reachable(c) /\ Live(Collected(c)) = Live(c)
         /\ Collected(Collected(c)) = Collected(c)
<1> DEFINE h == [r \in Row |-> IF r \in Reachable(c) THEN c.heap[r] ELSE Blank]
           d == [Rows |-> c.Rows, heap |-> h, Defs |-> c.Defs, Entries |-> c.Entries]
<1>1. h \in [Row -> RowRecord]
  BY ColIs, BlankIs
<1>2. Collected(c) = d
  BY CollectedRecord
<1>3. d \in Col
  BY <1>1, ColIs DEF Col
<1>4. Reachable(d) = Reachable(c) /\ Live(d) = Live(c)
  BY DEF Reachable, Live, Pointed
<1>5. Collected(d) = d
  <2>1. Collected(d) = [Rows |-> c.Rows, Defs |-> c.Defs, Entries |-> c.Entries,
                        heap |-> [r \in Row |-> IF r \in Reachable(d) THEN h[r] ELSE Blank]]
    <3> HIDE DEF d, h
    <3>1. d.Rows = c.Rows /\ d.Defs = c.Defs /\ d.Entries = c.Entries /\ d.heap = h
      BY DEF d
    <3> QED
      BY <1>3, <3>1, CollectedRecord
  <2>2. [r \in Row |-> IF r \in Reachable(d) THEN h[r] ELSE Blank] = h
    BY <1>4
  <2> QED
    BY <2>1, <2>2
<1> QED
  BY <1>2, <1>3, <1>4, <1>5

LEMMA GoodCollected == ASSUME NEW c, Good(c) PROVE Good(Collected(c))
<1>1. c \in Col /\ Positioned(c) /\ Matched(c)
  BY DEF Good
<1>2. Positioned(Collected(c))
  BY <1>1, CollectedIs, ReachableIs, ColIs DEF Positioned
<1>3. Matched(Collected(c))
  <2>1. \A n \in Name : \A k \in DOMAIN c.Entries[n] :
          /\ c.Entries[n][k] \in Row
          /\ Collected(c).heap[c.Entries[n][k]] = c.heap[c.Entries[n][k]]
    BY <1>1, CollectedIs, ReachableIs
  <2> QED
    BY <1>1, <2>1, CollectedIs DEF Matched
<1> QED
  BY <1>1, <1>2, <1>3, CollectedIs DEF Good

Made(rows, heap, defs, entries) ==
  [Rows |-> rows, heap |-> heap, Defs |-> defs, Entries |-> entries]
NewRow(i, doc) == [I |-> i, Payload |-> doc]
Placed(heap, r, i, doc) == [heap EXCEPT ![r] = NewRow(i, doc)]

LEMMA MadeIs ==
  ASSUME NEW rows, NEW heap, NEW defs, NEW entries, rows \in Seq(Row),
         heap \in [Row -> RowRecord], defs \in DefMap, entries \in EntryMap
  PROVE  Made(rows, heap, defs, entries) \in Col
  BY DEF Made, Col

LEMMA AddRowIs ==
  ASSUME NEW c, NEW r, NEW doc, NEW o, c \in Col, r \in Row, o \in AddRow(c, r, doc)
  PROVE  \E p \in IndexInsert(c.Defs, c.Entries, r, doc) :
           /\ o.verdict = p.verdict
           /\ p.verdict = "ok" =>
                o.col = Made(Append(c.Rows, r),
                             Placed(c.heap, r, Len(c.Rows) + 1, doc),
                             c.Defs, p.entries)
           /\ p.verdict = "panic" =>
                o.col = Made(c.Rows, Placed(c.heap, r, 1, doc), c.Defs, p.entries)
           /\ p.verdict \notin {"ok", "panic"} =>
                o.col = Made(c.Rows, c.heap, c.Defs, p.entries)
<1> DEFINE fresh == [c EXCEPT !.heap[r] = [I |-> 1, Payload |-> doc]]
           Result(p) ==
             IF p.verdict = "ok"
             THEN [fresh EXCEPT !.Rows = Append(c.Rows, r),
                                !.heap[r] = [I |-> Len(c.Rows) + 1, Payload |-> doc],
                                !.Entries = p.entries]
             ELSE IF p.verdict = "panic" THEN [fresh EXCEPT !.Entries = p.entries]
             ELSE [c EXCEPT !.Entries = p.entries]
<1>1. PICK p \in IndexInsert(c.Defs, c.Entries, r, doc) :
        o = Outcome(p.verdict, Result(p))
  BY DEF AddRow
<1>2. o.verdict = p.verdict /\ o.col = Result(p)
  BY <1>1 DEF Outcome
<1>3. c = Made(c.Rows, c.heap, c.Defs, c.Entries) /\ c.heap \in [Row -> RowRecord]
  BY ColIs DEF Made
<1>4. fresh = Made(c.Rows, Placed(c.heap, r, 1, doc), c.Defs, c.Entries)
  BY <1>3 DEF Made, NewRow, Placed
<1>5. p.verdict = "ok" =>
        Result(p) = Made(Append(c.Rows, r), Placed(c.heap, r, Len(c.Rows) + 1, doc),
                         c.Defs, p.entries)
  <2> DEFINE h == Placed(c.heap, r, 1, doc)
             rows == Append(c.Rows, r)
             there == [I |-> Len(c.Rows) + 1, Payload |-> doc]
  <2>1. [h EXCEPT ![r] = there] = Placed(c.heap, r, Len(c.Rows) + 1, doc)
    BY <1>3 DEF Placed, NewRow
  <2>2. fresh = Made(c.Rows, h, c.Defs, c.Entries)
    BY <1>4
  <2> HIDE DEF h, rows, there, fresh
  <2>3. [fresh EXCEPT !.Rows = rows, !.heap[r] = there, !.Entries = p.entries]
        = Made(rows, [h EXCEPT ![r] = there], c.Defs, p.entries)
    <3> DEFINE one == [fresh EXCEPT !.Rows = rows]
               two == [one EXCEPT !.heap[r] = there]
               three == [two EXCEPT !.Entries = p.entries]
    <3>1. [fresh EXCEPT !.Rows = rows, !.heap[r] = there, !.Entries = p.entries] = three
      OBVIOUS
    <3>2. one = Made(rows, h, c.Defs, c.Entries)
      BY <2>2 DEF Made
    <3> HIDE DEF one
    <3>3. two = Made(rows, [h EXCEPT ![r] = there], c.Defs, c.Entries)
      BY <3>2 DEF Made
    <3> HIDE DEF two
    <3>4. three = Made(rows, [h EXCEPT ![r] = there], c.Defs, p.entries)
      BY <3>3 DEF Made
    <3> QED
      BY <3>1, <3>4
  <2> QED
    BY <2>1, <2>3 DEF rows, there
<1>6. p.verdict = "panic" =>
        Result(p) = Made(c.Rows, Placed(c.heap, r, 1, doc), c.Defs, p.entries)
  <2> DEFINE h == Placed(c.heap, r, 1, doc)
  <2>1. fresh = Made(c.Rows, h, c.Defs, c.Entries)
    BY <1>4
  <2> HIDE DEF h, fresh
  <2>2. [fresh EXCEPT !.Entries = p.entries] = Made(c.Rows, h, c.Defs, p.entries)
    BY <2>1 DEF Made
  <2> QED
    BY <2>2 DEF h
<1>7. p.verdict \notin {"ok", "panic"} =>
        Result(p) = Made(c.Rows, c.heap, c.Defs, p.entries)
  <2>1. [c EXCEPT !.Entries = p.entries] = Made(c.Rows, c.heap, c.Defs, p.entries)
    BY <1>3 DEF Made
  <2> HIDE DEF fresh
  <2> QED
    BY <2>1
<1> HIDE DEF Result
<1> QED
  BY <1>2, <1>5, <1>6, <1>7

\* addRow of a row nobody holds.
LEMMA AddRowGood ==
  ASSUME NEW c, NEW r, NEW doc, NEW o, Good(c), r \in Row, r \notin Reachable(c),
         doc \in Document, o \in AddRow(c, r, doc)
  PROVE  Good(o.col) /\ o.verdict \in Verdicts
<1>1. c \in Col /\ Positioned(c) /\ Matched(c)
  BY DEF Good
<1>2. PICK p \in IndexInsert(c.Defs, c.Entries, r, doc) :
        /\ o.verdict = p.verdict
        /\ p.verdict = "ok" =>
             o.col = Made(Append(c.Rows, r),
                          Placed(c.heap, r, Len(c.Rows) + 1, doc),
                          c.Defs, p.entries)
        /\ p.verdict = "panic" =>
             o.col = Made(c.Rows, Placed(c.heap, r, 1, doc), c.Defs, p.entries)
        /\ p.verdict \notin {"ok", "panic"} =>
             o.col = Made(c.Rows, c.heap, c.Defs, p.entries)
  BY <1>1, AddRowIs
<1>3. /\ c.Rows \in Seq(Row) /\ c.heap \in [Row -> RowRecord]
      /\ c.Defs \in DefMap /\ c.Entries \in EntryMap
  BY <1>1, ColIs
<1>4. /\ p.verdict \in Verdicts /\ p.entries \in EntryMap
      /\ \A n \in Name : \A k \in DOMAIN p.entries[n] :
           \/ /\ n \in Names(c.Defs) /\ k \in KeysOf(c.Defs[n], doc)
              /\ p.entries[n][k] = r /\ p.verdict # "refused"
           \/ k \in DOMAIN c.Entries[n] /\ p.entries[n][k] = c.Entries[n][k]
  BY <1>3, IndexInsertIs, InsertEntries
<1>5. \A n \in Name : \A k \in DOMAIN c.Entries[n] :
        /\ c.Entries[n][k] \in Row /\ c.Entries[n][k] # r
        /\ c.Defs[n] # NoIndex
        /\ k \in KeysOf(c.Defs[n], c.heap[c.Entries[n][k]].Payload)
  BY <1>1, ReachableIs DEF Matched
<1>6. \A k \in DOMAIN c.Rows : c.Rows[k] \in Row /\ c.Rows[k] # r /\ c.heap[c.Rows[k]].I = k
  BY <1>1, ReachableIs, ColIs DEF Positioned
<1>7. \A i \in Nat \ {0} : NewRow(i, doc) \in RowRecord
  BY DEF NewRow, RowRecord
<1>8. ASSUME NEW i \in Nat \ {0}
      PROVE  /\ Placed(c.heap, r, i, doc) \in [Row -> RowRecord]
             /\ Placed(c.heap, r, i, doc)[r].Payload = doc
             /\ Placed(c.heap, r, i, doc)[r].I = i
             /\ \A s \in Row \ {r} : Placed(c.heap, r, i, doc)[s] = c.heap[s]
  BY <1>3, <1>7 DEF NewRow, Placed
<1>9. ASSUME NEW heap \in [Row -> RowRecord], NEW rows \in Seq(Row),
             p.verdict = "refused" \/ heap[r].Payload = doc,
             \A s \in Row \ {r} : heap[s] = c.heap[s],
             \A k \in DOMAIN rows : heap[rows[k]].I = k
      PROVE  Good(Made(rows, heap, c.Defs, p.entries))
  <2> DEFINE m == Made(rows, heap, c.Defs, p.entries)
  <2>1. m.Rows = rows /\ m.heap = heap /\ m.Defs = c.Defs /\ m.Entries = p.entries
    BY DEF Made
  <2>2. m \in Col
    BY <1>3, <1>4, MadeIs
  <2> HIDE DEF m
  <2>3. Positioned(m)
    BY <1>9, <2>1 DEF Positioned
  <2>4. Matched(m)
    <3>1. SUFFICES ASSUME NEW n \in Name, NEW k \in DOMAIN p.entries[n]
                   PROVE  /\ c.Defs[n] # NoIndex
                          /\ k \in KeysOf(c.Defs[n], heap[p.entries[n][k]].Payload)
      BY <2>1 DEF Matched
    <3>2. CASE /\ n \in Names(c.Defs) /\ k \in KeysOf(c.Defs[n], doc)
               /\ p.entries[n][k] = r /\ p.verdict # "refused"
      BY <1>9, <3>2 DEF Names
    <3>3. CASE k \in DOMAIN c.Entries[n] /\ p.entries[n][k] = c.Entries[n][k]
      BY <1>5, <1>9, <3>3
    <3> QED
      BY <1>4, <3>2, <3>3
  <2> QED
    BY <2>2, <2>3, <2>4 DEF Good, m
<1>10. CASE p.verdict = "ok"
  <2> DEFINE heap == Placed(c.heap, r, Len(c.Rows) + 1, doc)
             rows == Append(c.Rows, r)
  <2>0. Len(c.Rows) + 1 \in Nat \ {0}
    BY <1>1, ColIs
  <2>1. /\ heap \in [Row -> RowRecord] /\ heap[r].Payload = doc
        /\ heap[r].I = Len(c.Rows) + 1
        /\ \A s \in Row \ {r} : heap[s] = c.heap[s]
    BY <1>8, <2>0
  <2>2. rows \in Seq(Row)
    BY <1>3
  <2>3. DOMAIN rows = 1 .. Len(c.Rows) + 1
    BY <1>3
  <2>4. rows[Len(c.Rows) + 1] = r /\ \A k \in 1 .. Len(c.Rows) : rows[k] = c.Rows[k]
    BY <1>3
  <2> HIDE DEF heap, rows
  <2>5. \A k \in DOMAIN rows : heap[rows[k]].I = k
    BY <1>1, <1>6, <2>1, <2>3, <2>4, ColIs
  <2> QED
    BY <1>2, <1>4, <1>9, <1>10, <2>1, <2>2, <2>5 DEF heap, rows
<1>11. CASE p.verdict = "panic"
  <2> DEFINE heap == Placed(c.heap, r, 1, doc)
  <2>1. /\ heap \in [Row -> RowRecord] /\ heap[r].Payload = doc
        /\ \A s \in Row \ {r} : heap[s] = c.heap[s]
    BY <1>8
  <2> HIDE DEF heap
  <2>2. \A k \in DOMAIN c.Rows : heap[c.Rows[k]].I = k
    BY <1>6, <2>1
  <2> QED
    BY <1>2, <1>3, <1>4, <1>9, <1>11, <2>1, <2>2 DEF heap
<1>12. CASE p.verdict = "refused"
  BY <1>2, <1>3, <1>4, <1>6, <1>9, <1>12
<1> QED
  BY <1>4, <1>10, <1>11, <1>12 DEF Verdicts

Hole(rows, i) ==
  [k \in 1 .. Len(rows) - 1 |-> IF k = i THEN rows[Len(rows)] ELSE rows[k]]
Moved(heap, r, i) == [heap EXCEPT ![r].I = i]

LEMMA SwapOutIs ==
  ASSUME NEW rows, NEW heap, NEW defs, NEW entries, NEW i
  PROVE  SwapOut(Made(rows, heap, defs, entries), i) =
           Made(Hole(rows, i), Moved(heap, rows[Len(rows)], i), defs, entries)
<1> DEFINE c == Made(rows, heap, defs, entries)
           h == Hole(rows, i)
           r == rows[Len(rows)]
           one == [c EXCEPT !.Rows = h]
           two == [one EXCEPT !.heap[r].I = i]
<1>1. c.Rows = rows /\ c.heap = heap
  BY DEF Made
<1>2. SwapOut(c, i) = [c EXCEPT !.Rows = h, !.heap[r].I = i]
  <2> HIDE DEF c
  <2> QED
    BY <1>1 DEF SwapOut, Hole
<1>3. [c EXCEPT !.Rows = h, !.heap[r].I = i] = two
  OBVIOUS
<1>4. one = Made(h, heap, defs, entries)
  <2> HIDE DEF h
  <2> QED
    BY DEF Made
<1> HIDE DEF one, h, r
<1>5. two = Made(h, Moved(heap, r, i), defs, entries)
  BY <1>4 DEF Made, Moved
<1> QED
  BY <1>2, <1>3, <1>5 DEF h, r

LEMMA RemoveByRowIs ==
  ASSUME NEW c, NEW r, NEW o, c \in Col, r \in Row, o \in RemoveByRow(c, r)
  PROVE  /\ Len(c.Rows) < c.heap[r].I => o.verdict = "refused" /\ o.col = c
         /\ ~(Len(c.Rows) < c.heap[r].I) =>
              \E p \in IndexRemove(c.Defs, c.Entries, Names(c.Defs), c.heap[r].Payload) :
                /\ o.verdict = p.verdict
                /\ p.verdict = "ok" =>
                     o.col = Made(Hole(c.Rows, c.heap[r].I),
                                  Moved(c.heap, c.Rows[Len(c.Rows)], c.heap[r].I),
                                  c.Defs, p.entries)
                /\ p.verdict # "ok" =>
                     o.col = Made(c.Rows, c.heap, c.Defs, p.entries)
<1> DEFINE i == c.heap[r].I
<1>1. CASE Len(c.Rows) < i
  BY <1>1 DEF RemoveByRow, Outcome
<1>2. CASE ~(Len(c.Rows) < i)
  <2> DEFINE Left(p) == [c EXCEPT !.Entries = p.entries]
             Result(p) == IF p.verdict = "ok" THEN SwapOut(Left(p), i) ELSE Left(p)
  <2>1. PICK p \in IndexRemove(c.Defs, c.Entries, Names(c.Defs), c.heap[r].Payload) :
          o = Outcome(p.verdict, Result(p))
    BY <1>2 DEF RemoveByRow
  <2>2. Left(p) = Made(c.Rows, c.heap, c.Defs, p.entries)
    BY ColIs DEF Made
  <2> HIDE DEF Left
  <2>3. o.verdict = p.verdict /\ o.col = Result(p)
    BY <2>1 DEF Outcome
  <2>4. p.verdict = "ok" =>
          Result(p) = Made(Hole(c.Rows, i), Moved(c.heap, c.Rows[Len(c.Rows)], i),
                           c.Defs, p.entries)
    BY <2>2, SwapOutIs
  <2>5. p.verdict # "ok" => Result(p) = Made(c.Rows, c.heap, c.Defs, p.entries)
    BY <2>2
  <2> HIDE DEF Result
  <2> QED
    BY <1>2, <2>3, <2>4, <2>5
<1> QED
  BY <1>1, <1>2

\* The hole a removed row leaves is filled by the last row, which is told so.
LEMMA HoleIs ==
  ASSUME NEW c, NEW i, c \in Col, Positioned(c), i \in 1 .. Len(c.Rows)
  PROVE  /\ Hole(c.Rows, i) \in Seq(Row)
         /\ Moved(c.heap, c.Rows[Len(c.Rows)], i) \in [Row -> RowRecord]
         /\ \A s \in Row :
              /\ Moved(c.heap, c.Rows[Len(c.Rows)], i)[s].Payload = c.heap[s].Payload
         /\ \A k \in DOMAIN Hole(c.Rows, i) :
              Moved(c.heap, c.Rows[Len(c.Rows)], i)[Hole(c.Rows, i)[k]].I = k
         /\ {Hole(c.Rows, i)[k] : k \in DOMAIN Hole(c.Rows, i)} = Live(c) \ {c.Rows[i]}
<1> DEFINE n == Len(c.Rows)  last == c.Rows[n]
           rows == Hole(c.Rows, i)  heap == Moved(c.heap, last, i)
<1>1. /\ n \in Nat /\ n >= 1 /\ i \in Nat /\ i >= 1 /\ DOMAIN c.Rows = 1 .. n
      /\ \A k \in 1 .. n : c.Rows[k] \in Row
  BY ColIs
<1>2. last \in Row /\ c.heap \in [Row -> RowRecord]
  BY <1>1, ColIs
<1>3. \A k \in 1 .. n : c.heap[c.Rows[k]].I = k
  BY <1>1 DEF Positioned
<1>4. rows \in [1 .. n - 1 -> Row] /\ DOMAIN rows = 1 .. n - 1
  BY <1>1, <1>2 DEF Hole
<1>5. rows \in Seq(Row)
  <2>1. n - 1 \in Nat
    BY <1>1
  <2> HIDE DEF rows
  <2> QED
    BY <1>4, <2>1
<1>6. \A k \in 1 .. n - 1 : rows[k] = IF k = i THEN last ELSE c.Rows[k]
  BY DEF Hole
<1>7. heap \in [Row -> RowRecord]
  BY <1>1, <1>2 DEF Moved, RowRecord
<1>8. \A s \in Row : /\ heap[s].Payload = c.heap[s].Payload
                     /\ heap[s].I = IF s = last THEN i ELSE c.heap[s].I
  BY <1>1, <1>2 DEF Moved, RowRecord
<1> HIDE DEF rows, heap
<1>9. ASSUME NEW k \in 1 .. n - 1
      PROVE  heap[rows[k]].I = k
  <2>1. CASE k = i
    BY <1>2, <1>6, <1>8, <2>1
  <2>2. CASE k # i
    <3>1. rows[k] = c.Rows[k] /\ c.Rows[k] \in Row
      BY <1>1, <1>6, <2>2
    <3>2. c.heap[c.Rows[k]].I = k /\ c.heap[last].I = n /\ k # n
      BY <1>1, <1>3
    <3> QED
      BY <1>8, <3>1, <3>2
  <2> QED
    BY <2>1, <2>2
<1>10. {rows[k] : k \in 1 .. n - 1} = {c.Rows[k] : k \in 1 .. n} \ {c.Rows[i]}
  <2>1. ASSUME NEW k \in 1 .. n - 1
        PROVE  \E j \in 1 .. n : rows[k] = c.Rows[j] /\ c.Rows[j] # c.Rows[i]
    <3>1. CASE k = i
      BY <1>1, <1>3, <1>6, <3>1
    <3>2. CASE k # i
      BY <1>1, <1>3, <1>6, <3>2
    <3> QED
      BY <3>1, <3>2
  <2>2. ASSUME NEW j \in 1 .. n, c.Rows[j] # c.Rows[i]
        PROVE  \E k \in 1 .. n - 1 : rows[k] = c.Rows[j]
    <3>1. CASE j = n
      BY <1>1, <1>6, <2>2, <3>1
    <3>2. CASE j # n
      BY <1>1, <1>6, <2>2, <3>2
    <3> QED
      BY <3>1, <3>2
  <2>3. {rows[k] : k \in 1 .. n - 1} \subseteq {c.Rows[k] : k \in 1 .. n} \ {c.Rows[i]}
    BY <2>1
  <2>4. {c.Rows[k] : k \in 1 .. n} \ {c.Rows[i]} \subseteq {rows[k] : k \in 1 .. n - 1}
    BY <2>2
  <2> QED
    BY <2>3, <2>4
<1> QED
  BY <1>1, <1>4, <1>5, <1>7, <1>8, <1>9, <1>10 DEF Live, rows, heap

\* Every row of a slice knows its place; two heaps hold the same payloads.
InPlace(rows, heap) == \A k \in DOMAIN rows : heap[rows[k]].I = k
SamePayloads(heap, old) == \A s \in Row : heap[s].Payload = old[s].Payload

\* Fewer entries over the same payloads are as right as before.
LEMMA FewerEntriesMatch ==
  ASSUME NEW c, NEW d, c \in Col, d \in Col, Matched(c), d.Defs = c.Defs,
         \A s \in Row : d.heap[s].Payload = c.heap[s].Payload,
         \A n \in Name : \A k \in DOMAIN d.Entries[n] :
           k \in DOMAIN c.Entries[n] /\ d.Entries[n][k] = c.Entries[n][k]
  PROVE  Matched(d)
<1>1. \A n \in Name : \A k \in DOMAIN c.Entries[n] : c.Entries[n][k] \in Row
  BY ReachableIs
<1> QED
  BY <1>1 DEF Matched

\* removeByRow, of any row: one that is in no slice any more removes another
\* row's place, and what is left still agrees.
LEMMA RemoveByRowGood ==
  ASSUME NEW c, NEW r, NEW o, Good(c), r \in Row, o \in RemoveByRow(c, r)
  PROVE  Good(o.col) /\ o.verdict \in Verdicts
<1> DEFINE i == c.heap[r].I  n == Len(c.Rows)
<1>1. c \in Col /\ Positioned(c) /\ Matched(c)
  BY DEF Good
<1>2. /\ c.Rows \in Seq(Row) /\ c.heap \in [Row -> RowRecord]
      /\ c.Defs \in DefMap /\ c.Entries \in EntryMap
      /\ i \in Nat \ {0} /\ c.heap[r].Payload \in Document /\ n \in Nat
  BY <1>1, ColIs
<1>3. CASE n < i
  BY <1>1, <1>3, RemoveByRowIs DEF Verdicts, Good
<1>4. CASE ~(n < i)
  <2>1. PICK p \in IndexRemove(c.Defs, c.Entries, Names(c.Defs), c.heap[r].Payload) :
          /\ o.verdict = p.verdict
          /\ p.verdict = "ok" =>
               o.col = Made(Hole(c.Rows, i), Moved(c.heap, c.Rows[Len(c.Rows)], i),
                            c.Defs, p.entries)
          /\ p.verdict # "ok" =>
               o.col = Made(c.Rows, c.heap, c.Defs, p.entries)
    BY <1>1, <1>4, RemoveByRowIs
  <2>2. /\ p.verdict \in Verdicts /\ p.entries \in EntryMap
        /\ \A m \in Name : \A k \in DOMAIN p.entries[m] :
             k \in DOMAIN c.Entries[m] /\ p.entries[m][k] = c.Entries[m][k]
    BY <1>2, RemoveEntries, IndexRemoveIs
  <2>3. ASSUME NEW rows, NEW heap, rows \in Seq(Row), heap \in [Row -> RowRecord],
               SamePayloads(heap, c.heap), InPlace(rows, heap)
        PROVE  Good(Made(rows, heap, c.Defs, p.entries))
    <3> DEFINE d == Made(rows, heap, c.Defs, p.entries)
    <3>1. d.Rows = rows /\ d.heap = heap /\ d.Defs = c.Defs /\ d.Entries = p.entries
      BY DEF Made
    <3>2. d \in Col
      BY <1>2, <2>2, <2>3, MadeIs
    <3> HIDE DEF d
    <3>3. Positioned(d)
      BY <2>3, <3>1 DEF Positioned, InPlace
    <3>4. Matched(d)
      BY <1>1, <2>2, <2>3, <3>1, <3>2, FewerEntriesMatch DEF SamePayloads
    <3> QED
      BY <3>2, <3>3, <3>4 DEF Good, d
  <2>4. CASE p.verdict = "ok"
    <3>1. i \in 1 .. n
      BY <1>2, <1>4
    <3> DEFINE rows == Hole(c.Rows, i)  heap == Moved(c.heap, c.Rows[Len(c.Rows)], i)
    <3>2. /\ rows \in Seq(Row) /\ heap \in [Row -> RowRecord]
          /\ SamePayloads(heap, c.heap) /\ InPlace(rows, heap)
      BY <1>1, <3>1, HoleIs DEF SamePayloads, InPlace
    <3>3. o.col = Made(rows, heap, c.Defs, p.entries)
      BY <2>1, <2>4
    <3> HIDE DEF rows, heap
    <3>4. Good(Made(rows, heap, c.Defs, p.entries))
      BY <2>3, <3>2
    <3> QED
      BY <2>1, <2>2, <3>3, <3>4
  <2>5. CASE p.verdict # "ok"
    <3>1. SamePayloads(c.heap, c.heap) /\ InPlace(c.Rows, c.heap)
      BY <1>1 DEF SamePayloads, InPlace, Positioned
    <3>2. Good(Made(c.Rows, c.heap, c.Defs, p.entries))
      BY <1>2, <2>3, <3>1
    <3> QED
      BY <2>1, <2>2, <2>5, <3>2
  <2> QED
    BY <2>1, <2>2, <2>4, <2>5
<1> QED
  BY <1>3, <1>4

Repaid(heap, r, doc) == [heap EXCEPT ![r].Payload = doc]

LEMMA RepaidIs ==
  ASSUME NEW heap, NEW r, NEW doc, heap \in [Row -> RowRecord], r \in Row, doc \in Document
  PROVE  /\ Repaid(heap, r, doc) \in [Row -> RowRecord]
         /\ Repaid(heap, r, doc)[r].Payload = doc
         /\ \A s \in Row : Repaid(heap, r, doc)[s].I = heap[s].I
         /\ \A s \in Row \ {r} : Repaid(heap, r, doc)[s] = heap[s]
  BY DEF Repaid, RowRecord

LEMMA MergeIs ==
  ASSUME NEW doc, NEW patch, doc \in Document, patch \in [Field -> {Keep} \cup Value]
  PROVE  Merge(doc, patch) \in Document
  BY DEF Merge, Document

LEMMA PatchByRowIs ==
  ASSUME NEW c, NEW r, NEW patch, NEW o, c \in Col, r \in Row, o \in PatchByRow(c, r, patch)
  PROVE  LET old == c.heap[r].Payload
             new == Merge(old, patch)
         IN /\ new = old => o.verdict = "unchanged" /\ o.col = c
            /\ new # old =>
                 \E p \in IndexRemove(c.Defs, c.Entries, Names(c.Defs), old) :
                   /\ p.verdict # "ok" =>
                        /\ o.verdict = p.verdict
                        /\ o.col = Made(c.Rows, c.heap, c.Defs, p.entries)
                   /\ p.verdict = "ok" =>
                        \E q \in IndexInsert(c.Defs, p.entries, r, new) :
                          /\ o.verdict = q.verdict
                          /\ o.col = Made(c.Rows, Repaid(c.heap, r, new), c.Defs, q.entries)
<1> DEFINE old == c.heap[r].Payload  new == Merge(old, patch)
           Again(left) ==
             {Outcome(q.verdict, [c EXCEPT !.heap[r].Payload = new, !.Entries = q.entries]) :
                q \in IndexInsert(c.Defs, left, r, new)}
           Settled(p) == IF p.verdict = "ok" THEN Again(p.entries)
                         ELSE {Outcome(p.verdict, [c EXCEPT !.Entries = p.entries])}
<1>1. CASE new = old
  BY <1>1 DEF PatchByRow, Outcome
<1>2. CASE new # old
  <2>1. PatchByRow(c, r, patch) =
          UNION {Settled(p) : p \in IndexRemove(c.Defs, c.Entries, Names(c.Defs), old)}
    BY <1>2 DEF PatchByRow
  <2> HIDE DEF Settled, old, new
  <2>2. PICK p \in IndexRemove(c.Defs, c.Entries, Names(c.Defs), old) : o \in Settled(p)
    BY <2>1
  <2>3. c = Made(c.Rows, c.heap, c.Defs, c.Entries)
    BY ColIs DEF Made
  <2>4. ASSUME NEW e
        PROVE  [c EXCEPT !.Entries = e] = Made(c.Rows, c.heap, c.Defs, e)
    BY <2>3 DEF Made
  <2>5. ASSUME NEW e
        PROVE  [c EXCEPT !.heap[r].Payload = new, !.Entries = e]
               = Made(c.Rows, Repaid(c.heap, r, new), c.Defs, e)
    <3> DEFINE one == [c EXCEPT !.heap[r].Payload = new]
               two == [one EXCEPT !.Entries = e]
    <3>1. [c EXCEPT !.heap[r].Payload = new, !.Entries = e] = two
      OBVIOUS
    <3>2. one = Made(c.Rows, Repaid(c.heap, r, new), c.Defs, c.Entries)
      BY <2>3 DEF Made, Repaid
    <3> HIDE DEF one
    <3>3. two = Made(c.Rows, Repaid(c.heap, r, new), c.Defs, e)
      BY <3>2 DEF Made
    <3> QED
      BY <3>1, <3>3
  <2>6. CASE p.verdict # "ok"
    <3>1. o = Outcome(p.verdict, [c EXCEPT !.Entries = p.entries])
      BY <2>2, <2>6 DEF Settled
    <3>2. o.verdict = p.verdict /\ o.col = Made(c.Rows, c.heap, c.Defs, p.entries)
      BY <2>4, <3>1 DEF Outcome
    <3> QED
      BY <1>2, <2>6, <3>2 DEF old, new
  <2>7. CASE p.verdict = "ok"
    <3>1. PICK q \in IndexInsert(c.Defs, p.entries, r, new) :
            o = Outcome(q.verdict, [c EXCEPT !.heap[r].Payload = new, !.Entries = q.entries])
      BY <2>2, <2>7 DEF Settled
    <3>2. /\ o.verdict = q.verdict
          /\ o.col = Made(c.Rows, Repaid(c.heap, r, new), c.Defs, q.entries)
      BY <2>5, <3>1 DEF Outcome
    <3> QED
      BY <1>2, <2>7, <3>2 DEF old, new
  <2> QED
    BY <2>6, <2>7
<1> QED
  BY <1>1, <1>2

\* patchByRow, of any row that is in an index or the slice: a row whose old keys
\* could not be taken out keeps its payload, and one that lost them all may
\* take any new one.
LEMMA PatchByRowGood ==
  ASSUME NEW c, NEW r, NEW patch, NEW o, Good(c), r \in Row,
         patch \in [Field -> {Keep} \cup Value], o \in PatchByRow(c, r, patch)
  PROVE  Good(o.col) /\ o.verdict \in Verdicts \cup {"unchanged"}
<1> DEFINE old == c.heap[r].Payload  new == Merge(old, patch)
<1>1. c \in Col /\ Positioned(c) /\ Matched(c)
  BY DEF Good
<1>2. /\ c.Rows \in Seq(Row) /\ c.heap \in [Row -> RowRecord]
      /\ c.Defs \in DefMap /\ c.Entries \in EntryMap /\ old \in Document
  BY <1>1, ColIs
<1>3. new \in Document
  BY <1>2, MergeIs
<1>4. CASE new = old
  BY <1>1, <1>4, PatchByRowIs DEF Good
<1>5. CASE new # old
  <2>1. PICK p \in IndexRemove(c.Defs, c.Entries, Names(c.Defs), old) :
          /\ p.verdict # "ok" =>
               /\ o.verdict = p.verdict
               /\ o.col = Made(c.Rows, c.heap, c.Defs, p.entries)
          /\ p.verdict = "ok" =>
               \E q \in IndexInsert(c.Defs, p.entries, r, new) :
                 /\ o.verdict = q.verdict
                 /\ o.col = Made(c.Rows, Repaid(c.heap, r, new), c.Defs, q.entries)
    BY <1>1, <1>5, PatchByRowIs
  <2> HIDE DEF old, new
  <2>2. /\ p.verdict \in Verdicts /\ p.entries \in EntryMap
        /\ \A m \in Name : \A k \in DOMAIN p.entries[m] :
             k \in DOMAIN c.Entries[m] /\ p.entries[m][k] = c.Entries[m][k]
        /\ p.verdict = "ok" =>
             \A m \in Names(c.Defs) : \A k \in DOMAIN p.entries[m] : k \notin KeysOf(c.Defs[m], old)
    BY <1>2, RemoveEntries, IndexRemoveIs
  <2>3. CASE p.verdict # "ok"
    <3> DEFINE d == Made(c.Rows, c.heap, c.Defs, p.entries)
    <3>1. d.Rows = c.Rows /\ d.heap = c.heap /\ d.Defs = c.Defs /\ d.Entries = p.entries
      BY DEF Made
    <3>2. d \in Col /\ o.col = d /\ o.verdict \in Verdicts
      BY <1>2, <2>1, <2>2, <2>3, MadeIs
    <3> HIDE DEF d
    <3>3. Positioned(d)
      BY <1>1, <3>1 DEF Positioned
    <3>4. Matched(d)
      BY <1>1, <2>2, <3>1, <3>2, FewerEntriesMatch
    <3> QED
      BY <3>2, <3>3, <3>4 DEF Good
  <2>4. CASE p.verdict = "ok"
    <3>1. PICK q \in IndexInsert(c.Defs, p.entries, r, new) :
            /\ o.verdict = q.verdict
            /\ o.col = Made(c.Rows, Repaid(c.heap, r, new), c.Defs, q.entries)
      BY <2>1, <2>4
    <3> DEFINE heap == Repaid(c.heap, r, new)
               d == Made(c.Rows, heap, c.Defs, q.entries)
    <3>2. d.Rows = c.Rows /\ d.heap = heap /\ d.Defs = c.Defs /\ d.Entries = q.entries
      BY DEF Made
    <3>3. /\ heap \in [Row -> RowRecord] /\ heap[r].Payload = new
          /\ \A s \in Row : heap[s].I = c.heap[s].I
          /\ \A s \in Row \ {r} : heap[s] = c.heap[s]
      BY <1>2, <1>3, RepaidIs
    <3>4. /\ q.verdict \in Verdicts /\ q.entries \in EntryMap
          /\ \A n \in Name : \A k \in DOMAIN q.entries[n] :
               \/ /\ n \in Names(c.Defs) /\ k \in KeysOf(c.Defs[n], new)
                  /\ q.entries[n][k] = r
               \/ k \in DOMAIN p.entries[n] /\ q.entries[n][k] = p.entries[n][k]
      BY <1>2, <1>3, <2>2, <3>1, IndexInsertIs, InsertEntries
    <3>5. d \in Col /\ o.col = d
      BY <1>2, <3>1, <3>3, <3>4, MadeIs
    <3> HIDE DEF d, heap
    <3>6. Positioned(d)
      BY <1>1, <3>2, <3>3, ColIs DEF Positioned
    <3>7. \A n \in Name : \A k \in DOMAIN p.entries[n] :
            /\ p.entries[n][k] \in Row /\ p.entries[n][k] # r
            /\ c.Defs[n] # NoIndex
            /\ k \in KeysOf(c.Defs[n], c.heap[p.entries[n][k]].Payload)
      <4> SUFFICES ASSUME NEW n \in Name, NEW k \in DOMAIN p.entries[n]
                   PROVE  /\ p.entries[n][k] \in Row /\ p.entries[n][k] # r
                          /\ c.Defs[n] # NoIndex
                          /\ k \in KeysOf(c.Defs[n], c.heap[p.entries[n][k]].Payload)
        OBVIOUS
      <4>1. k \in DOMAIN c.Entries[n] /\ p.entries[n][k] = c.Entries[n][k]
        BY <2>2
      <4>2. /\ c.Entries[n][k] \in Row /\ c.Defs[n] # NoIndex
            /\ k \in KeysOf(c.Defs[n], c.heap[c.Entries[n][k]].Payload)
        BY <1>1, <4>1, ReachableIs DEF Matched
      <4>3. n \in Names(c.Defs) /\ k \notin KeysOf(c.Defs[n], old)
        BY <2>2, <2>4, <4>2 DEF Names
      <4> QED
        BY <4>1, <4>2, <4>3 DEF old
    <3>8. Matched(d)
      <4> SUFFICES ASSUME NEW n \in Name, NEW k \in DOMAIN q.entries[n]
                   PROVE  /\ c.Defs[n] # NoIndex
                          /\ k \in KeysOf(c.Defs[n], heap[q.entries[n][k]].Payload)
        BY <3>2 DEF Matched
      <4>1. CASE /\ n \in Names(c.Defs) /\ k \in KeysOf(c.Defs[n], new)
                 /\ q.entries[n][k] = r
        BY <3>3, <4>1 DEF Names
      <4>2. CASE k \in DOMAIN p.entries[n] /\ q.entries[n][k] = p.entries[n][k]
        BY <3>3, <3>7, <4>2
      <4> QED
        BY <3>4, <4>1, <4>2
    <3> QED
      BY <3>1, <3>4, <3>5, <3>6, <3>8 DEF Good
  <2> QED
    BY <2>3, <2>4
<1> QED
  BY <1>4, <1>5

LEMMA Least ==
  ASSUME NEW S, S \subseteq Nat, S # {}
  PROVE  \E x \in S : \A y \in S : x <= y
<1>1. IsWellFoundedOn(OpToRel(<, Nat), Nat)
  BY NatLessThanWellFounded
<1>2. PICK x \in S : \A y \in S : ~ (<<y, x>> \in OpToRel(<, Nat))
  BY <1>1, WFMin
<1>3. \A y \in S : y \in Nat /\ x \in Nat /\ ~ (y < x)
  BY <1>2 DEF OpToRel
<1> QED
  BY <1>3

\* The keys of the i-th row under a definition.
RowKeys(c, def, i) == KeysOf(def, c.heap[c.Rows[i]].Payload)

LEMMA FilledAt ==
  ASSUME NEW c, NEW def, NEW j, NEW k, k \in DOMAIN Filled(c, def, j)
  PROVE  \E i \in 1 .. j : k \in RowKeys(c, def, i) /\ Filled(c, def, j)[k] = c.Rows[i]
<1> DEFINE K == UNION {RowKeys(c, def, i) : i \in 1 .. j}
           at == CHOOSE i \in 1 .. j : k \in RowKeys(c, def, i)
<1>1. k \in K /\ Filled(c, def, j)[k] = c.Rows[at]
  BY DEF Filled, RowKeys
<1>2. \E i \in 1 .. j : k \in RowKeys(c, def, i)
  BY <1>1
<1> QED
  BY <1>1, <1>2

LEMMA FilledIs ==
  ASSUME NEW c, NEW def, NEW j, c \in Col, def \in Definition, j \in 0 .. Len(c.Rows)
  PROVE  /\ Filled(c, def, j) \in EntryMaps
         /\ DOMAIN Filled(c, def, j) = UNION {RowKeys(c, def, i) : i \in 1 .. j}
<1> DEFINE F == Filled(c, def, j)  K == UNION {RowKeys(c, def, i) : i \in 1 .. j}
<1>1. F = [k \in K |-> F[k]] /\ DOMAIN F = K
  BY DEF Filled, RowKeys
<1>2. \A i \in 1 .. j : i \in DOMAIN c.Rows /\ c.Rows[i] \in Row
  BY ColIs
<1>3. \A i \in 1 .. j : RowKeys(c, def, i) \in SUBSET Key
  <2> TAKE i \in 1 .. j
  <2>1. c.heap[c.Rows[i]].Payload \in Document
    BY <1>2, ColIs
  <2> QED
    BY <2>1, KeysAre DEF RowKeys
<1>4. K \in SUBSET Key
  BY <1>3
<1>5. \A k \in DOMAIN F : F[k] \in Row
  BY <1>2, FilledAt
<1> HIDE DEF F, K
<1>6. F \in [K -> Row]
  BY <1>1, <1>5
<1> QED
  BY <1>1, <1>4, <1>6, AnEntryMap DEF F, K

\* createIndex gives a whole index, part of one, or nothing.
Indexed(c, n, def, j) ==
  Made(c.Rows, c.heap, [c.Defs EXCEPT ![n] = def], [c.Entries EXCEPT ![n] = Filled(c, def, j)])

LEMMA CreateIndexIs ==
  ASSUME NEW c, NEW n, NEW def, c \in Col, n \in Name, def \in Definition
  PROVE  LET o == CreateIndexIn(c, n, def) IN
         \/ o.verdict = "refused" /\ o.col = c
         \/ \E j \in 0 .. Len(c.Rows) :
              /\ o.verdict \in {"ok", "panic"} /\ c.Defs[n] = NoIndex
              /\ o.col = Indexed(c, n, def, j)
              /\ o.verdict = "ok" =>
                   /\ j = Len(c.Rows)
                   /\ \A i \in DOMAIN c.Rows : Stops(c, def, i) = "ok"
<1> DEFINE With(j) == [c EXCEPT !.Defs[n] = def, !.Entries[n] = Filled(c, def, j)]
           bad == {i \in DOMAIN c.Rows : Stops(c, def, i) # "ok"}
           first == CHOOSE i \in bad : \A j \in bad : i <= j
           o == CreateIndexIn(c, n, def)
<1>1. o = IF c.Defs[n] # NoIndex THEN Outcome("refused", c)
          ELSE IF bad = {} THEN Outcome("ok", With(Len(c.Rows)))
          ELSE IF Stops(c, def, first) = "panic" THEN Outcome("panic", With(first - 1))
          ELSE Outcome("refused", c)
  BY DEF CreateIndexIn
<1>2. ASSUME NEW j
      PROVE  With(j) = Indexed(c, n, def, j)
  <2> DEFINE e == Filled(c, def, j)
             one == [c EXCEPT !.Defs[n] = def]
             two == [one EXCEPT !.Entries[n] = e]
  <2>1. With(j) = two
    OBVIOUS
  <2> HIDE DEF e
  <2>2. one = Made(c.Rows, c.heap, [c.Defs EXCEPT ![n] = def], c.Entries)
    BY ColIs DEF Made
  <2> HIDE DEF one
  <2>3. two = Made(c.Rows, c.heap, [c.Defs EXCEPT ![n] = def], [c.Entries EXCEPT ![n] = e])
    BY <2>2 DEF Made
  <2> HIDE DEF two
  <2> QED
    BY <2>1, <2>3 DEF e, Indexed
<1>3. DOMAIN c.Rows = 1 .. Len(c.Rows) /\ Len(c.Rows) \in Nat
  BY ColIs
<1>4. bad # {} => first \in bad
  <2>1. bad \subseteq Nat
    BY <1>3
  <2> HIDE DEF bad
  <2>2. bad # {} => \E i \in bad : \A j \in bad : i <= j
    BY <2>1, Least
  <2> QED
    BY <2>2
<1> HIDE DEF With, first, o
<1>5. CASE c.Defs[n] # NoIndex
  BY <1>1, <1>5 DEF Outcome, o
<1>6. CASE c.Defs[n] = NoIndex /\ bad = {}
  <2>1. o.verdict = "ok" /\ o.col = Indexed(c, n, def, Len(c.Rows))
    BY <1>1, <1>2, <1>6 DEF Outcome
  <2>2. \A i \in DOMAIN c.Rows : Stops(c, def, i) = "ok"
    BY <1>6
  <2>3. Len(c.Rows) \in 0 .. Len(c.Rows)
    BY <1>3
  <2> QED
    BY <1>6, <2>1, <2>2, <2>3 DEF o
<1>7. CASE c.Defs[n] = NoIndex /\ bad # {} /\ Stops(c, def, first) = "panic"
  <2>1. o.verdict = "panic" /\ o.col = Indexed(c, n, def, first - 1)
    BY <1>1, <1>2, <1>7 DEF Outcome
  <2>2. first - 1 \in 0 .. Len(c.Rows)
    BY <1>3, <1>4, <1>7
  <2> QED
    BY <1>7, <2>1, <2>2 DEF o
<1>8. CASE c.Defs[n] = NoIndex /\ bad # {} /\ Stops(c, def, first) # "panic"
  BY <1>1, <1>8 DEF Outcome, o
<1> QED
  BY <1>5, <1>6, <1>7, <1>8

LEMMA CreateIndexGood ==
  ASSUME NEW c, NEW n, NEW def, Good(c), n \in Name, def \in Definition
  PROVE  /\ Good(CreateIndexIn(c, n, def).col)
         /\ CreateIndexIn(c, n, def).verdict \in Verdicts
<1> DEFINE o == CreateIndexIn(c, n, def)
<1>1. c \in Col /\ Positioned(c) /\ Matched(c)
  BY DEF Good
<1>2. CASE o.verdict = "refused" /\ o.col = c
  BY <1>2 DEF Verdicts
<1>3. ASSUME NEW j \in 0 .. Len(c.Rows), o.col = Indexed(c, n, def, j),
             o.verdict \in {"ok", "panic"}
      PROVE  Good(o.col) /\ o.verdict \in Verdicts
  <2> DEFINE F == Filled(c, def, j)
             D == [c.Defs EXCEPT ![n] = def]
             E == [c.Entries EXCEPT ![n] = F]
             d == Made(c.Rows, c.heap, D, E)
  <2>1. d.Rows = c.Rows /\ d.heap = c.heap /\ d.Defs = D /\ d.Entries = E /\ d = o.col
    BY <1>3 DEF Made, Indexed
  <2>2. /\ F \in EntryMaps
        /\ \A k \in DOMAIN F : \E i \in 1 .. j : k \in RowKeys(c, def, i) /\ F[k] = c.Rows[i]
    <3>1. Filled(c, def, j) \in EntryMaps
      BY <1>1, FilledIs
    <3>2. \A k \in DOMAIN Filled(c, def, j) :
            \E i \in 1 .. j : k \in RowKeys(c, def, i) /\ Filled(c, def, j)[k] = c.Rows[i]
      BY <1>1, FilledAt
    <3> QED
      BY <3>1, <3>2
  <2>3. /\ c.Rows \in Seq(Row) /\ c.heap \in [Row -> RowRecord]
        /\ c.Defs \in DefMap /\ c.Entries \in EntryMap
    BY <1>1, ColIs
  <2> HIDE DEF F
  <2>4. D \in DefMap /\ D[n] = def /\ \A m \in Name \ {n} : D[m] = c.Defs[m]
    BY <2>3 DEF DefMap
  <2>5. E \in EntryMap /\ E[n] = F /\ \A m \in Name \ {n} : E[m] = c.Entries[m]
    BY <2>2, <2>3 DEF EntryMap
  <2> HIDE DEF D, E
  <2>6. d \in Col
    BY <2>3, <2>4, <2>5, MadeIs
  <2> HIDE DEF d, o
  <2>7. Positioned(d)
    BY <1>1, <2>1 DEF Positioned
  <2>8. Matched(d)
    <3> SUFFICES ASSUME NEW m \in Name, NEW k \in DOMAIN E[m]
                 PROVE  D[m] # NoIndex /\ k \in KeysOf(D[m], c.heap[E[m][k]].Payload)
      BY <2>1 DEF Matched
    <3>1. CASE m = n
      <4>1. D[m] = def /\ def # NoIndex
        BY <2>4, <3>1, IndexAssumption
      <4>2. PICK i \in 1 .. j : k \in RowKeys(c, def, i) /\ E[m][k] = c.Rows[i]
        BY <2>2, <2>5, <3>1
      <4> QED
        BY <4>1, <4>2 DEF RowKeys
    <3>2. CASE m # n
      BY <1>1, <2>4, <2>5, <3>2 DEF Matched
    <3> QED
      BY <3>1, <3>2
  <2> QED
    BY <1>3, <2>1, <2>6, <2>7, <2>8 DEF Good, Verdicts
<1> HIDE DEF o
<1>4. \/ o.verdict = "refused" /\ o.col = c
      \/ \E j \in 0 .. Len(c.Rows) :
           o.verdict \in {"ok", "panic"} /\ o.col = Indexed(c, n, def, j)
  BY <1>1, CreateIndexIs DEF o
<1> QED
  BY <1>2, <1>3, <1>4 DEF o

Unindexed(c, n) ==
  Made(c.Rows, c.heap, [c.Defs EXCEPT ![n] = NoIndex], [c.Entries EXCEPT ![n] = NoEntries])

LEMMA DropIndexIs ==
  ASSUME NEW c, NEW n, c \in Col, n \in Name
  PROVE  /\ c.Defs[n] = NoIndex => DropIndexIn(c, n) = Outcome("refused", c)
         /\ c.Defs[n] # NoIndex => DropIndexIn(c, n) = Outcome("ok", Unindexed(c, n))
<1> DEFINE one == [c EXCEPT !.Defs[n] = NoIndex]
           two == [one EXCEPT !.Entries[n] = NoEntries]
<1>1. one = Made(c.Rows, c.heap, [c.Defs EXCEPT ![n] = NoIndex], c.Entries)
  BY ColIs DEF Made
<1>2. [c EXCEPT !.Defs[n] = NoIndex, !.Entries[n] = NoEntries] = two
  OBVIOUS
<1> HIDE DEF one
<1>3. two = Unindexed(c, n)
  BY <1>1 DEF Made, Unindexed
<1> QED
  BY <1>2, <1>3 DEF DropIndexIn

LEMMA DropIndexGood ==
  ASSUME NEW c, NEW n, Good(c), n \in Name
  PROVE  Good(DropIndexIn(c, n).col) /\ DropIndexIn(c, n).verdict \in Verdicts
<1>1. c \in Col /\ Positioned(c) /\ Matched(c)
  BY DEF Good
<1>2. CASE c.Defs[n] = NoIndex
  BY <1>1, <1>2, DropIndexIs DEF Outcome, Verdicts
<1>3. CASE c.Defs[n] # NoIndex
  <2> DEFINE D == [c.Defs EXCEPT ![n] = NoIndex]
             E == [c.Entries EXCEPT ![n] = NoEntries]
             d == Made(c.Rows, c.heap, D, E)
  <2>1. d.Rows = c.Rows /\ d.heap = c.heap /\ d.Defs = D /\ d.Entries = E
    BY DEF Made
  <2>2. DropIndexIn(c, n).col = d /\ DropIndexIn(c, n).verdict = "ok"
    BY <1>1, <1>3, DropIndexIs DEF Outcome, Unindexed
  <2>3. /\ c.Rows \in Seq(Row) /\ c.heap \in [Row -> RowRecord]
        /\ c.Defs \in DefMap /\ c.Entries \in EntryMap
    BY <1>1, ColIs
  <2>4. NoEntries \in EntryMaps /\ DOMAIN NoEntries = {}
    BY DEF NoEntries, EntryMaps
  <2>5. D \in DefMap /\ \A m \in Name \ {n} : D[m] = c.Defs[m]
    BY <2>3 DEF DefMap
  <2>6. E \in EntryMap /\ E[n] = NoEntries /\ \A m \in Name \ {n} : E[m] = c.Entries[m]
    BY <2>3, <2>4 DEF EntryMap
  <2> HIDE DEF D, E
  <2>7. d \in Col
    BY <2>3, <2>5, <2>6, MadeIs
  <2> HIDE DEF d
  <2>8. Positioned(d)
    BY <1>1, <2>1 DEF Positioned
  <2>9. Matched(d)
    BY <1>1, <2>1, <2>4, <2>5, <2>6 DEF Matched
  <2> QED
    BY <2>2, <2>7, <2>8, <2>9 DEF Good, Verdicts
<1> QED
  BY <1>2, <1>3

-----------------------------------------------------------------------------
(***************************************************************************)
(* The collection in memory and the one the journal gives.                 *)
(***************************************************************************)
Ops == {"insert", "remove", "patch", "index", "drop_index"}
Tears == [op : Ops, verdict : {"refused", "panic"}]
Stored(w) == /\ w \in [readable : BOOLEAN, image : Col]
             /\ Good(w.image) /\ w.image = Collected(w.image)

\* The invariant behind all the properties that survive a tear.
Kept ==
  /\ Good(mem) /\ mem = Collected(mem) /\ Stored(file)
  /\ torn \in {None} \cup Tears /\ status \in {"open", "closed", "failed"}

LEMMA EmptyIsCollected == Collected(Empty) = Empty
  BY DEF Collected, Empty, Reachable

LEMMA StoredEmpty == Stored(Unreadable)
  BY GoodEmpty, EmptyIsCollected DEF Stored, Unreadable, Good

LEMMA StoredReadable ==
  ASSUME NEW c, Good(c)
  PROVE  Stored(Readable(c)) /\ Readable(c).readable /\ Readable(c).image = Collected(c)
<1>1. c \in Col
  BY DEF Good
<1>2. Good(Collected(c)) /\ Collected(c) \in Col /\ Collected(Collected(c)) = Collected(c)
  BY <1>1, CollectedIs, GoodCollected
<1> QED
  BY <1>2 DEF Stored, Readable

LEMMA KeptIs ==
  ASSUME Kept
  PROVE  /\ Good(mem) /\ mem \in Col /\ Good(file.image) /\ file.image \in Col
         /\ \A r \in Row : /\ mem.heap[r].I \in Nat \ {0}
                           /\ mem.heap[r].Payload \in Document
         /\ \A i \in 1 .. Len(file.image.Rows) : file.image.Rows[i] \in Row
         /\ Len(file.image.Rows) \in Nat
<1>1. Good(mem) /\ mem \in Col /\ Good(file.image) /\ file.image \in Col
  BY DEF Kept, Stored, Good
<1> QED
  BY <1>1, ColIs

LEMMA SettleKeeps ==
  ASSUME NEW op, NEW o, NEW written, Kept, op \in Ops, Good(o.col),
         o.verdict \in Verdicts \/ (o.verdict = "unchanged" /\ o.col = mem),
         \A w \in written : Stored(w), Settle(op, o, written)
  PROVE  Kept'
<1>1. mem' = Collected(o.col) /\ o.col \in Col
  BY DEF Settle, Good
<1>2. Good(mem') /\ mem' = Collected(mem')
  BY <1>1, GoodCollected, CollectedIs
<1>3. Stored(file')
  BY DEF Settle, Kept
<1>4. torn' \in {None} \cup Tears
  <2>1. CASE torn = None /\ o.verdict # "ok" /\ mem' # mem
    <3>1. o.verdict \in {"refused", "panic"}
      BY <1>1, <2>1 DEF Verdicts, Kept
    <3>2. torn' = [op |-> op, verdict |-> o.verdict]
      BY <2>1 DEF Settle
    <3> QED
      BY <3>1, <3>2 DEF Tears
  <2>2. CASE ~(torn = None /\ o.verdict # "ok" /\ mem' # mem)
    BY <2>2 DEF Settle, Kept
  <2> QED
    BY <2>1, <2>2
<1>5. status' \in {"open", "closed", "failed"}
  BY DEF Settle, Kept
<1> QED
  BY <1>2, <1>3, <1>4, <1>5 DEF Kept

LEMMA ReplayInsertKeeps ==
  ASSUME NEW r, NEW doc, Kept, r \in Row, r \notin Reachable(file.image), doc \in Document
  PROVE  \A w \in ReplayInsert(r, doc) : Stored(w)
<1>1. ASSUME NEW o \in AddRow(file.image, r, doc)
      PROVE  Stored(IF o.verdict = "ok" THEN Readable(o.col) ELSE Unreadable)
  <2>1. Good(o.col)
    BY KeptIs, AddRowGood
  <2> QED
    BY <2>1, StoredReadable, StoredEmpty
<1> QED
  BY <1>1 DEF ReplayInsert

LEMMA ReplayOtherKeeps ==
  ASSUME NEW outcomes, \A o \in outcomes : Good(o.col)
  PROVE  \A w \in ReplayOther(outcomes) : Stored(w)
<1>1. ASSUME NEW o \in outcomes
      PROVE  Stored(IF o.verdict = "panic" THEN Unreadable ELSE Readable(o.col))
  BY StoredReadable, StoredEmpty
<1> QED
  BY <1>1 DEF ReplayOther

LEMMA ReplayRemoveKeeps ==
  ASSUME NEW i, Kept, i \in Nat \ {0}
  PROVE  \A w \in ReplayRemove(i) : Stored(w)
<1>1. CASE i > Len(file.image.Rows)
  BY <1>1, StoredEmpty DEF ReplayRemove
<1>2. CASE ~(i > Len(file.image.Rows))
  <2> DEFINE r == file.image.Rows[i]
  <2>1. r \in Row /\ Good(file.image)
    BY <1>2, KeptIs
  <2> HIDE DEF r
  <2>2. \A o \in RemoveByRow(file.image, r) : Good(o.col)
    BY <2>1, RemoveByRowGood
  <2> QED
    BY <1>2, <2>2, ReplayOtherKeeps DEF ReplayRemove, r
<1> QED
  BY <1>1, <1>2

LEMMA ReplayPatchKeeps ==
  ASSUME NEW i, NEW diff, Kept, i \in Nat \ {0}, diff \in [Field -> {Keep} \cup Value]
  PROVE  \A w \in ReplayPatch(i, diff) : Stored(w)
<1>1. CASE i > Len(file.image.Rows)
  BY <1>1, StoredEmpty DEF ReplayPatch
<1>2. CASE ~(i > Len(file.image.Rows))
  <2> DEFINE r == file.image.Rows[i]
  <2>1. r \in Row /\ Good(file.image)
    BY <1>2, KeptIs
  <2> HIDE DEF r
  <2>2. \A o \in PatchByRow(file.image, r, diff) : Good(o.col)
    BY <2>1, PatchByRowGood
  <2> QED
    BY <1>2, <2>2, ReplayOtherKeeps DEF ReplayPatch, r
<1> QED
  BY <1>1, <1>2

LEMMA DiffIs ==
  ASSUME NEW doc, NEW new, doc \in Document, new \in Document
  PROVE  /\ Diff(doc, new) \in [Field -> {Keep} \cup Value]
         /\ Merge(doc, Diff(doc, new)) = new
<1>1. Diff(doc, new) \in [Field -> {Keep} \cup Value]
  BY DEF Diff, Document
<1>2. \A f \in Field : new[f] # Keep
  BY InputAssumption DEF Document
<1>3. \A f \in Field : Merge(doc, Diff(doc, new))[f] = new[f]
  BY <1>2 DEF Merge, Diff
<1>4. Merge(doc, Diff(doc, new)) = [f \in Field |-> Merge(doc, Diff(doc, new))[f]]
  BY DEF Merge
<1>5. new = [f \in Field |-> new[f]]
  BY DEF Document
<1> QED
  BY <1>1, <1>3, <1>4, <1>5

LEMMA InitKept == Init => Kept
<1> SUFFICES ASSUME Init PROVE Kept
  OBVIOUS
<1>1. mem = Empty /\ file = Readable(Empty) /\ torn = None /\ status = "open"
  BY DEF Init
<1> QED
  BY <1>1, GoodEmpty, EmptyIsCollected, StoredReadable DEF Kept

LEMMA NextKept == Kept /\ [Next]_vars => Kept'
<1> SUFFICES ASSUME Kept, [Next]_vars PROVE Kept'
  OBVIOUS
<1>1. ASSUME NEW r \in Row, NEW doc \in Documents, Insert(r, doc) PROVE Kept'
  <2>1. PICK o \in AddRow(mem, r, doc) : Settle("insert", o, ReplayInsert(r, doc))
    BY <1>1 DEF Insert
  <2>2. r \notin Reachable(mem) /\ r \notin Reachable(file.image) /\ doc \in Document
    BY <1>1, InputAssumption DEF Insert, Fresh
  <2>3. Good(o.col) /\ o.verdict \in Verdicts
    BY <2>2, KeptIs, AddRowGood
  <2>4. \A w \in ReplayInsert(r, doc) : Stored(w)
    BY <2>2, ReplayInsertKeeps
  <2>5. "insert" \in Ops
    BY DEF Ops
  <2> QED
    BY <2>1, <2>3, <2>4, <2>5, SettleKeeps
<1>2. ASSUME NEW r \in Row, Remove(r) PROVE Kept'
  <2>1. PICK o \in RemoveByRow(mem, r) : Settle("remove", o, ReplayRemove(mem.heap[r].I))
    BY <1>2 DEF Remove
  <2>2. Good(o.col) /\ o.verdict \in Verdicts
    BY KeptIs, RemoveByRowGood
  <2>3. \A w \in ReplayRemove(mem.heap[r].I) : Stored(w)
    BY KeptIs, ReplayRemoveKeeps
  <2>4. "remove" \in Ops
    BY DEF Ops
  <2> QED
    BY <2>1, <2>2, <2>3, <2>4, SettleKeeps
<1>3. ASSUME NEW r \in Row, NEW patch \in Patches, Patch(r, patch) PROVE Kept'
  <2> DEFINE old == mem.heap[r].Payload  diff == Diff(old, Merge(old, patch))
  <2>1. PICK o \in PatchByRow(mem, r, patch) :
          Settle("patch", o, ReplayPatch(mem.heap[r].I, diff))
    BY <1>3 DEF Patch
  <2>2. patch \in [Field -> {Keep} \cup Value] /\ old \in Document
    BY InputAssumption, KeptIs
  <2>3. diff \in [Field -> {Keep} \cup Value]
    BY <2>2, MergeIs, DiffIs
  <2>4. Good(o.col) /\ o.verdict \in Verdicts \cup {"unchanged"}
    BY <2>2, KeptIs, PatchByRowGood
  <2>5. o.verdict = "unchanged" => o.col = mem
    <3>1. Merge(old, patch) # old => o.verdict \in Verdicts
      <4> HIDE DEF old
      <4>1. ASSUME Merge(old, patch) # old
            PROVE  o.verdict \in Verdicts
        <5>1. PICK p \in IndexRemove(mem.Defs, mem.Entries, Names(mem.Defs), old) :
                /\ p.verdict # "ok" => o.verdict = p.verdict
                /\ p.verdict = "ok" =>
                     \E q \in IndexInsert(mem.Defs, p.entries, r, Merge(old, patch)) :
                       o.verdict = q.verdict
          BY <4>1, KeptIs, PatchByRowIs DEF old
        <5>2. Merge(old, patch) \in Document
          BY <2>2, MergeIs
        <5>3. mem.Defs \in DefMap /\ mem.Entries \in EntryMap
          BY KeptIs, ColIs
        <5>4. p.verdict \in Verdicts /\ p.entries \in EntryMap
          BY <2>2, <5>1, <5>3, IndexRemoveIs, RemoveEntries
        <5> QED
          BY <5>1, <5>2, <5>3, <5>4, IndexInsertIs
      <4> QED
        BY <4>1
    <3>2. Merge(old, patch) = old => o.col = mem
      BY KeptIs, PatchByRowIs
    <3> QED
      BY <3>1, <3>2 DEF Verdicts
  <2>6. \A w \in ReplayPatch(mem.heap[r].I, diff) : Stored(w)
    BY <2>3, KeptIs, ReplayPatchKeeps
  <2>7. "patch" \in Ops
    BY DEF Ops
  <2> HIDE DEF diff
  <2> QED
    BY <2>1, <2>4, <2>5, <2>6, <2>7, SettleKeeps
<1>4. ASSUME NEW n \in Name, NEW def \in Definitions, Index(n, def) PROVE Kept'
  <2> DEFINE o == CreateIndexIn(mem, n, def)  p == CreateIndexIn(file.image, n, def)
  <2>1. Settle("index", o, ReplayOther({p}))
    BY <1>4 DEF Index
  <2>2. def \in Definition
    BY InputAssumption
  <2>3. Good(o.col) /\ o.verdict \in Verdicts /\ Good(p.col)
    BY <2>2, KeptIs, CreateIndexGood
  <2> HIDE DEF o, p
  <2>4. \A w \in ReplayOther({p}) : Stored(w)
    BY <2>3, ReplayOtherKeeps
  <2>5. "index" \in Ops
    BY DEF Ops
  <2> QED
    BY <2>1, <2>3, <2>4, <2>5, SettleKeeps
<1>5. ASSUME NEW n \in Name, DropIndex(n) PROVE Kept'
  <2> DEFINE o == DropIndexIn(mem, n)  p == DropIndexIn(file.image, n)
  <2>1. Settle("drop_index", o, ReplayOther({p}))
    BY <1>5 DEF DropIndex
  <2>2. Good(o.col) /\ o.verdict \in Verdicts /\ Good(p.col)
    BY KeptIs, DropIndexGood
  <2> HIDE DEF o, p
  <2>3. \A w \in ReplayOther({p}) : Stored(w)
    BY <2>2, ReplayOtherKeeps
  <2>4. "drop_index" \in Ops
    BY DEF Ops
  <2> QED
    BY <2>1, <2>2, <2>3, <2>4, SettleKeeps
<1>6. CASE Close
  BY <1>6 DEF Close, Kept
<1>7. CASE Open
  BY <1>7 DEF Open, Kept, Stored
<1>8. CASE UNCHANGED vars
  BY <1>8 DEF vars, Kept
<1> QED
  BY <1>1, <1>2, <1>3, <1>4, <1>5, <1>6, <1>7, <1>8 DEF Next

LEMMA SpecKept == Spec => []Kept
  BY InitKept, NextKept, PTL DEF Spec

\* Whatever is inserted, patched, removed and indexed, and however it ends,
\* memory, the journal's collection, the tear and the status of the file keep
\* their types (collection.go:24-43).
THEOREM SpecTypeOK == Spec => []TypeOK
<1>1. Kept => TypeOK
  <2> SUFFICES ASSUME Kept PROVE TypeOK
    OBVIOUS
  <2>1. IsCol(mem) /\ IsCol(file.image)
    BY KeptIs, ColTyped
  <2> QED
    BY <2>1 DEF TypeOK, Kept, Stored, Tears, Ops
<1> QED
  BY <1>1, SpecKept, PTL

\* row.I is the position of the row in the slice, in memory and after any
\* replay, so removeByRow never moves a row into a place that is not free
\* (collection.go:476-510).
THEOREM SpecRowsKnowTheirPlace == Spec => []RowsKnowTheirPlace
<1>1. Kept => RowsKnowTheirPlace
  BY DEF Kept, Stored, Good, RowsKnowTheirPlace
<1> QED
  BY <1>1, SpecKept, PTL

\* An entry of an index is under a key its row has, whatever was refused,
\* rolled back or abandoned before: the deferred rollback of indexInsert leaves
\* no entry of the row it refuses, unless it panics (collection.go:413-453).
THEOREM SpecEntriesMatchTheirRow == Spec => []EntriesMatchTheirRow
<1>1. Kept => EntriesMatchTheirRow
  BY DEF Kept, Stored, Good, EntriesMatchTheirRow
<1> QED
  BY <1>1, SpecKept, PTL

-----------------------------------------------------------------------------
(***************************************************************************)
(* Until the first tear: one index.  docs is the document of every row the *)
(* collection holds.                                                       *)
(***************************************************************************)
Accepted(def, doc) ==
  IF Lacks(def, doc) THEN def.sparse
  ELSE def.kind = "btree" \/ IsStrings(Values(def, doc)[1])

Suit(def, keys1, keys2) ==
  /\ keys1 \cap keys2 = {}
  /\ def.kind = "btree" => \A v \in keys1, w \in keys2 : Comparable(v, w)
Compatible(def, doc1, doc2) == Suit(def, KeysOf(def, doc1), KeysOf(def, doc2))
FirmlyCompatible(def, doc1, doc2) == Suit(def, FirmKeys(def, doc1), FirmKeys(def, doc2))

Docs(docs) == DOMAIN docs \subseteq Row /\ \A r \in DOMAIN docs : docs[r] \in Document

\* Entries lead to documents that have the key, and every document is there
\* under its firm keys; the keys of a btree can be compared.
Indexing(def, e, docs) ==
  /\ \A k \in DOMAIN e : e[k] \in DOMAIN docs /\ k \in KeysOf(def, docs[e[k]])
  /\ \A r \in DOMAIN docs : \A k \in FirmKeys(def, docs[r]) : k \in DOMAIN e /\ e[k] = r
  /\ \A r \in DOMAIN docs : Accepted(def, docs[r])
  /\ def.kind = "btree" => \A k \in DOMAIN e : \A l \in DOMAIN e : Comparable(k, l)

Plus(docs, r, doc) == [s \in DOMAIN docs \cup {r} |-> IF s = r THEN doc ELSE docs[s]]
Minus(docs, r) == [s \in DOMAIN docs \ {r} |-> docs[s]]

LEMMA ComparableBothWays ==
  ASSUME NEW u, NEW v, DOMAIN u = DOMAIN v, Comparable(u, v)
  PROVE  Comparable(v, u)
<1>1. PICK i \in DOMAIN u :
        /\ \A j \in 1 .. i - 1 : u[j] = v[j]
        /\ u = v \/ (u[i] # v[i] /\ IsString(u[i]) /\ IsString(v[i]))
  BY DEF Comparable
<1>2. \A j \in 1 .. i - 1 : v[j] = u[j]
  BY <1>1
<1>3. v = u \/ (v[i] # u[i] /\ IsString(v[i]) /\ IsString(u[i]))
  BY <1>1
<1> QED
  BY <1>2, <1>3 DEF Comparable

LEMMA CompatibleBothWays ==
  ASSUME NEW def, NEW doc1, NEW doc2, def \in Definition, doc1 \in Document,
         doc2 \in Document, Compatible(def, doc1, doc2)
  PROVE  Compatible(def, doc2, doc1)
<1>1. ASSUME def.kind = "btree", NEW v \in KeysOf(def, doc1), NEW w \in KeysOf(def, doc2)
      PROVE  Comparable(w, v)
  <2>1. v = Values(def, doc1) /\ w = Values(def, doc2)
    BY <1>1, KeysAre
  <2>2. DOMAIN v = DOMAIN w
    BY <2>1, ValuesAre
  <2>3. Comparable(v, w)
    BY <1>1 DEF Compatible, Suit
  <2> QED
    BY <2>2, <2>3, ComparableBothWays
<1> QED
  BY <1>1 DEF Compatible, Suit

LEMMA ComparableToItself ==
  ASSUME NEW def \in Definition, NEW doc \in Document
  PROVE  Comparable(Values(def, doc), Values(def, doc))
<1>1. 1 \in DOMAIN Values(def, doc)
  BY FieldsAre, ValuesAre
<1>2. \A j \in 1 .. 1 - 1 : FALSE
  OBVIOUS
<1> QED
  BY <1>1, <1>2 DEF Comparable

\* The documents of an index are unique under their firm keys.
LEMMA IndexedAreCompatible ==
  ASSUME NEW def, NEW e, NEW docs, Indexing(def, e, docs),
         NEW r \in DOMAIN docs, NEW s \in DOMAIN docs, r # s
  PROVE  FirmlyCompatible(def, docs[r], docs[s])
<1>1. /\ \A k \in FirmKeys(def, docs[r]) : k \in DOMAIN e /\ e[k] = r
      /\ \A k \in FirmKeys(def, docs[s]) : k \in DOMAIN e /\ e[k] = s
  BY DEF Indexing
<1> QED
  BY <1>1 DEF FirmlyCompatible, Suit, Indexing

\* AddRow accepts a document that fits in.
LEMMA AcceptsWhatFits ==
  ASSUME NEW def, NEW e, NEW docs, NEW doc, def \in Definition, doc \in Document,
         Docs(docs), Indexing(def, e, docs), Accepted(def, doc),
         \A s \in DOMAIN docs : Compatible(def, doc, docs[s])
  PROVE  AddVerdict(def, e, doc) = "ok"
<1> DEFINE vs == Values(def, doc)
<1>1. def.kind \in {"map", "btree"} /\ def.sparse \in BOOLEAN /\ 1 \in DOMAIN def.fields
  BY FieldsAre
<1>2. KeysOf(def, doc) \cap DOMAIN e = {}
  BY DEF Indexing, Compatible, Suit
<1>3. CASE Lacks(def, doc)
  BY <1>3 DEF AddVerdict, Accepted
<1>4. CASE ~Lacks(def, doc) /\ def.kind = "map"
  <2>1. IsStrings(vs[1]) /\ KeysOf(def, doc) = vs[1]
    BY <1>4, KeysAre DEF Accepted
  <2>2. vs[1] \notin Mixed
    BY <2>1 DEF IsStrings
  <2> QED
    BY <1>2, <1>4, <2>1, <2>2 DEF AddVerdict
<1>5. CASE ~Lacks(def, doc) /\ def.kind = "btree"
  <2>1. KeysOf(def, doc) = {vs}
    BY <1>5, KeysAre
  <2> HIDE DEF vs
  <2>2. \A k \in DOMAIN e : Comparable(vs, k)
    BY <1>5, <2>1 DEF Indexing, Compatible, Suit
  <2>3. ~TreePanics(vs, e) /\ vs \notin DOMAIN e
    BY <1>2, <2>1, <2>2 DEF TreePanics
  <2> QED
    BY <1>5, <2>3 DEF AddVerdict, vs
<1> QED
  BY <1>1, <1>3, <1>4, <1>5

LEMMA PlusIs ==
  ASSUME NEW docs, NEW r, NEW doc, Docs(docs), r \in Row, doc \in Document
  PROVE  /\ Docs(Plus(docs, r, doc))
         /\ DOMAIN Plus(docs, r, doc) = DOMAIN docs \cup {r}
         /\ Plus(docs, r, doc)[r] = doc
         /\ \A s \in DOMAIN docs : s # r => Plus(docs, r, doc)[s] = docs[s]
  BY DEF Plus, Docs

LEMMA MinusIs ==
  ASSUME NEW docs, NEW r, Docs(docs)
  PROVE  /\ Docs(Minus(docs, r))
         /\ DOMAIN Minus(docs, r) = DOMAIN docs \ {r}
         /\ \A s \in DOMAIN docs : s # r => Minus(docs, r)[s] = docs[s]
  BY DEF Minus, Docs

LEMMA AddedStaysIndexing ==
  ASSUME NEW def, NEW e, NEW docs, NEW r, NEW doc, def \in Definition, e \in EntryMaps,
         r \in Row, doc \in Document, Docs(docs), r \notin DOMAIN docs,
         Indexing(def, e, docs), AddVerdict(def, e, doc) = "ok"
  PROVE  Indexing(def, Put(e, KeysOf(def, doc), r), Plus(docs, r, doc))
<1> DEFINE p == Put(e, KeysOf(def, doc), r)  new == Plus(docs, r, doc)
<1>1. /\ DOMAIN p = DOMAIN e \cup KeysOf(def, doc)
      /\ \A k \in KeysOf(def, doc) : p[k] = r
      /\ \A k \in DOMAIN e \ KeysOf(def, doc) : p[k] = e[k]
  BY DEF Put
<1>2. /\ DOMAIN new = DOMAIN docs \cup {r} /\ new[r] = doc
      /\ \A s \in DOMAIN docs : s # r /\ new[s] = docs[s] /\ docs[s] \in Document
  BY DEF Docs, Plus
<1>3. KeysOf(def, doc) \cap DOMAIN e = {}
  BY AcceptedIs
<1>4. Accepted(def, doc)
  BY AcceptedIs, FieldsAre DEF Accepted
<1> HIDE DEF p, new
<1>5. \A k \in DOMAIN p : p[k] \in DOMAIN new /\ k \in KeysOf(def, new[p[k]])
  <2> TAKE k \in DOMAIN p
  <2>1. CASE k \in KeysOf(def, doc)
    BY <1>1, <1>2, <2>1
  <2>2. CASE k \in DOMAIN e /\ k \notin KeysOf(def, doc)
    <3>1. e[k] \in DOMAIN docs /\ k \in KeysOf(def, docs[e[k]]) /\ p[k] = e[k]
      BY <1>1, <2>2 DEF Indexing
    <3> QED
      BY <1>2, <3>1
  <2> QED
    BY <1>1, <2>1, <2>2
<1>6. \A s \in DOMAIN new : \A k \in FirmKeys(def, new[s]) : k \in DOMAIN p /\ p[k] = s
  <2> TAKE s \in DOMAIN new
  <2> TAKE k \in FirmKeys(def, new[s])
  <2>1. CASE s = r
    BY <1>1, <1>2, <2>1 DEF FirmKeys
  <2>2. CASE s \in DOMAIN docs
    <3>1. k \in DOMAIN e /\ e[k] = s
      BY <1>2, <2>2 DEF Indexing
    <3> QED
      BY <1>1, <1>3, <3>1
  <2> QED
    BY <1>2, <2>1, <2>2
<1>7. \A s \in DOMAIN new : Accepted(def, new[s])
  BY <1>2, <1>4 DEF Indexing
<1>8. ASSUME def.kind = "btree", NEW k \in DOMAIN p, NEW l \in DOMAIN p
      PROVE  Comparable(k, l)
  <2> DEFINE v == Values(def, doc)
  <2>1. \A m \in KeysOf(def, doc) : m = v /\ \A n \in DOMAIN e : Comparable(v, n)
    BY <1>8, KeysAre, AcceptedIs
  <2>2. \A n \in DOMAIN e : DOMAIN n = DOMAIN v
    <3> TAKE n \in DOMAIN e
    <3>1. n \in KeysOf(def, docs[e[n]]) /\ docs[e[n]] \in Document
      BY DEF Indexing, Docs
    <3> QED
      BY <1>8, <3>1, KeysAre, ValuesAre
  <2>3. Comparable(v, v)
    BY ComparableToItself
  <2> HIDE DEF v
  <2>4. CASE k \in DOMAIN e /\ l \in DOMAIN e
    BY <1>8, <2>4 DEF Indexing
  <2>5. CASE k \in DOMAIN e /\ l \in KeysOf(def, doc)
    <3>1. l = v /\ Comparable(v, k) /\ DOMAIN v = DOMAIN k
      BY <2>1, <2>2, <2>5
    <3> QED
      BY <3>1, ComparableBothWays
  <2>6. CASE k \in KeysOf(def, doc)
    BY <1>1, <2>1, <2>3, <2>6
  <2> QED
    BY <1>1, <2>4, <2>5, <2>6
<1> QED
  BY <1>5, <1>6, <1>7, <1>8 DEF Indexing, p, new

LEMMA RemovedStaysIndexing ==
  ASSUME NEW def, NEW e, NEW docs, NEW r, def \in Definition, e \in EntryMaps,
         Docs(docs), r \in DOMAIN docs, Indexing(def, e, docs),
         RemoveVerdict(def, e, docs[r]) = "ok"
  PROVE  Indexing(def, Drop(e, FreedKeys(def, docs[r])), Minus(docs, r))
<1> DEFINE d == Drop(e, FreedKeys(def, docs[r]))  new == Minus(docs, r)
           keys == KeysOf(def, docs[r])
<1>0. docs[r] \in Document
  BY DEF Docs
<1>1. /\ DOMAIN d = DOMAIN e \ FreedKeys(def, docs[r])
      /\ \A k \in DOMAIN d : d[k] = e[k]
  BY DEF Drop
<1>2. /\ DOMAIN new = DOMAIN docs \ {r}
      /\ \A s \in DOMAIN new : new[s] = docs[s] /\ docs[s] \in Document
  BY MinusIs DEF Docs
<1>3. ASSUME NEW k \in DOMAIN e
      PROVE  /\ k \in keys => k \in FreedKeys(def, docs[r])
             /\ k \in FreedKeys(def, docs[r]) => k \in keys \/ CanLose(def, k)
  <2>1. Lacks(def, docs[r]) => def.sparse
    BY DEF Indexing, Accepted
  <2> QED
    BY <1>0, <2>1, FreesKeys, FreesNothingElse
<1> HIDE DEF d, new
<1>4. \A k \in DOMAIN d : d[k] \in DOMAIN new /\ k \in KeysOf(def, new[d[k]])
  <2> TAKE k \in DOMAIN d
  <2>1. k \in DOMAIN e /\ k \notin keys /\ d[k] = e[k]
    BY <1>1, <1>3
  <2>2. e[k] \in DOMAIN docs /\ k \in KeysOf(def, docs[e[k]])
    BY <2>1 DEF Indexing
  <2>3. e[k] # r
    BY <2>1, <2>2
  <2> QED
    BY <1>2, <2>1, <2>2, <2>3
<1>5. \A s \in DOMAIN new : \A k \in FirmKeys(def, new[s]) : k \in DOMAIN d /\ d[k] = s
  <2> TAKE s \in DOMAIN new
  <2> TAKE k \in FirmKeys(def, new[s])
  <2>1. s \in DOMAIN docs /\ s # r /\ k \in FirmKeys(def, docs[s])
    BY <1>2
  <2>2. k \in DOMAIN e /\ e[k] = s /\ ~CanLose(def, k)
    BY <2>1 DEF Indexing, FirmKeys
  <2>3. k \notin keys
    <3> SUFFICES ASSUME k \in keys PROVE FALSE
      OBVIOUS
    <3>1. k \in FirmKeys(def, docs[r])
      BY <2>2 DEF FirmKeys
    <3> QED
      BY <2>1, <2>2, <3>1 DEF Indexing
  <2> QED
    BY <1>1, <1>3, <2>2, <2>3
<1>6. \A s \in DOMAIN new : Accepted(def, new[s])
  BY <1>2 DEF Indexing
<1>7. def.kind = "btree" => \A k \in DOMAIN d : \A l \in DOMAIN d : Comparable(k, l)
  BY <1>1 DEF Indexing
<1> QED
  BY <1>4, <1>5, <1>6, <1>7 DEF Indexing, d, new

\* What an index holds it never refuses to let go.
LEMMA HeldIsNotRefused ==
  ASSUME NEW def, NEW e, NEW docs, NEW r, def \in Definition, Docs(docs),
         r \in DOMAIN docs, Indexing(def, e, docs)
  PROVE  RemoveVerdict(def, e, docs[r]) # "refused"
<1> DEFINE v == Values(def, docs[r])[1]
<1>1. docs[r] \in Document /\ Accepted(def, docs[r]) /\ 1 \in DOMAIN def.fields
  BY FieldsAre DEF Docs, Indexing
<1>2. CASE def.kind = "btree"
  BY <1>2 DEF RemoveVerdict
<1>3. CASE def.kind = "map"
  <2>1. v \notin {Null, Number}
    <3>1. CASE Lacks(def, docs[r])
      <4>1. docs[r][def.fields[1].name] = Absent
        BY <1>3, <3>1, FieldsAre DEF Lacks
      <4>2. v = Absent
        BY <1>1, <4>1, ValuesAre
      <4> QED
        BY <4>2, ValueAssumption
    <3>2. CASE ~Lacks(def, docs[r])
      BY <1>1, <1>3, <3>2 DEF Accepted, IsStrings
    <3> QED
      BY <3>1, <3>2
  <2> QED
    BY <1>3, <2>1 DEF RemoveVerdict
<1> QED
  BY <1>1, <1>2, <1>3, FieldsAre

\* The rollback takes the document out again, and at worst an entry the index
\* can lose.
Lost(def, e, d) ==
  LET lost == DOMAIN e \ DOMAIN d IN
  d = Drop(e, lost) /\ \A k \in lost : CanLose(def, k)

LEMMA LostNothing == ASSUME NEW def, NEW e \in EntryMaps PROVE Lost(def, e, e)
<1>1. DOMAIN e \ DOMAIN e = {} /\ DOMAIN e \ {} = DOMAIN e
  OBVIOUS
<1>2. e = [k \in DOMAIN e |-> e[k]]
  BY EntryMapIs
<1>3. Drop(e, {}) = e
  BY <1>1, <1>2 DEF Drop
<1> QED
  BY <1>1, <1>3 DEF Lost

LEMMA RollbackLoses ==
  ASSUME NEW def, NEW e, NEW r, NEW doc, def \in Definition, e \in EntryMaps,
         r \in Row, doc \in Document, AddVerdict(def, e, doc) = "ok",
         RemoveVerdict(def, Put(e, KeysOf(def, doc), r), doc) = "ok"
  PROVE  Lost(def, e, Drop(Put(e, KeysOf(def, doc), r), FreedKeys(def, doc)))
<1> DEFINE keys == KeysOf(def, doc)  freed == FreedKeys(def, doc)  p == Put(e, keys, r)
           d == Drop(p, freed)
<1>1. keys \cap DOMAIN e = {} /\ (Lacks(def, doc) => def.sparse)
  BY AcceptedIs
<1>2. \A k \in keys : k \in freed
  <2>1. DOMAIN p = DOMAIN e \cup keys
    BY DEF Put
  <2> QED
    BY <2>1, FreesKeys
<1>3. \A k \in freed : k \in keys \/ CanLose(def, k)
  BY <1>1, FreesNothingElse
<1> HIDE DEF keys, freed
<1>4. /\ DOMAIN d = DOMAIN e \ freed /\ \A k \in DOMAIN e \ freed : d[k] = e[k]
      /\ d = [k \in DOMAIN d |-> d[k]]
  BY <1>1, <1>2 DEF Drop, Put
<1> HIDE DEF d
<1> DEFINE lost == DOMAIN e \ DOMAIN d
<1>5. lost = DOMAIN e \cap freed /\ DOMAIN e \ lost = DOMAIN e \ freed
  BY <1>4
<1>6. \A k \in lost : CanLose(def, k)
  BY <1>1, <1>3, <1>5
<1>7. d = Drop(e, lost)
  <2>1. Drop(e, lost) = [k \in DOMAIN e \ freed |-> e[k]]
    BY <1>5 DEF Drop
  <2> QED
    BY <1>4, <2>1
<1>8. Lost(def, e, d)
  BY <1>6, <1>7 DEF Lost
<1> QED
  BY <1>8 DEF d, p, keys, freed

LEMMA ContentsAre ==
  ASSUME NEW c, c \in Col
  PROVE  /\ Docs(Contents(c)) /\ DOMAIN Contents(c) = Live(c)
         /\ \A r \in Live(c) : r \in Row /\ Contents(c)[r] = c.heap[r].Payload
         /\ \A r \in Live(c) : \E i \in 1 .. Len(c.Rows) : r = c.Rows[i]
         /\ \A i \in 1 .. Len(c.Rows) : c.Rows[i] \in Live(c)
<1>1. \A r \in Live(c) : r \in Row /\ c.heap[r].Payload \in Document
  BY ReachableIs, ColIs
<1> QED
  BY <1>1, ColIs DEF Docs, Contents, Live

\* createIndex adds the rows one by one, each to an index of the rows before.
LEMMA FilledIsIndexing ==
  ASSUME NEW c, NEW def, c \in Col, Positioned(c), def \in Definition,
         \A i \in DOMAIN c.Rows : Stops(c, def, i) = "ok"
  PROVE  Indexing(def, Filled(c, def, Len(c.Rows)), Contents(c))
<1> DEFINE n == Len(c.Rows)  doc(i) == c.heap[c.Rows[i]].Payload
           e == Filled(c, def, n)  docs == Contents(c)
<1>1. n \in Nat /\ DOMAIN c.Rows = 1 .. n
  BY ColIs
<1>2. \A i \in 1 .. n : c.Rows[i] \in Row /\ doc(i) \in Document /\ c.heap[c.Rows[i]].I = i
  BY <1>1, ColIs DEF Positioned
<1>3. ASSUME NEW i \in 1 .. n
      PROVE  /\ KeysOf(def, doc(i)) \cap DOMAIN Filled(c, def, i - 1) = {}
             /\ Lacks(def, doc(i)) => def.sparse
             /\ ~Lacks(def, doc(i)) /\ def.kind = "map" => IsStrings(Values(def, doc(i))[1])
             /\ ~Lacks(def, doc(i)) /\ def.kind = "btree" =>
                  \A k \in DOMAIN Filled(c, def, i - 1) : Comparable(Values(def, doc(i)), k)
  <2>1. AddVerdict(def, Filled(c, def, i - 1), doc(i)) = "ok"
    BY <1>1 DEF Stops
  <2>2. doc(i) \in Document
    BY <1>2
  <2> HIDE DEF doc
  <2> QED
    BY <2>1, <2>2, AcceptedIs
<1>4. \A i \in 1 .. n : Accepted(def, doc(i))
  <2> TAKE i \in 1 .. n
  <2>1. def.kind \in {"map", "btree"}
    BY FieldsAre
  <2> QED
    BY <1>3, <2>1 DEF Accepted
<1>5. ASSUME NEW i \in 1 .. n, NEW j \in 1 .. n, j < i
      PROVE  Compatible(def, doc(i), doc(j)) /\ Compatible(def, doc(j), doc(i))
  <2>1. DOMAIN Filled(c, def, i - 1) = UNION {RowKeys(c, def, m) : m \in 1 .. i - 1}
    <3>1. i - 1 \in 0 .. Len(c.Rows)
      BY <1>1
    <3> QED
      BY <3>1, FilledIs
  <2>2. KeysOf(def, doc(j)) \subseteq DOMAIN Filled(c, def, i - 1)
    <3>1. j \in 1 .. i - 1 /\ KeysOf(def, doc(j)) = RowKeys(c, def, j)
      BY <1>1, <1>5 DEF RowKeys
    <3> QED
      BY <2>1, <3>1
  <2>3. doc(i) \in Document /\ doc(j) \in Document
    BY <1>2
  <2>4. KeysOf(def, doc(i)) \cap KeysOf(def, doc(j)) = {}
    BY <1>3, <2>2
  <2>5. ASSUME def.kind = "btree", NEW v \in KeysOf(def, doc(i)), NEW w \in KeysOf(def, doc(j))
        PROVE  Comparable(v, w)
    <3>1. ~Lacks(def, doc(i)) /\ v = Values(def, doc(i))
      BY <2>3, <2>5, KeysAre
    <3> QED
      BY <1>3, <2>2, <2>5, <3>1
  <2>6. Compatible(def, doc(i), doc(j))
    BY <2>4, <2>5 DEF Compatible, Suit
  <2> QED
    BY <2>3, <2>6, CompatibleBothWays
<1>6. DOMAIN e = UNION {RowKeys(c, def, i) : i \in 1 .. n}
  <2>1. Len(c.Rows) \in 0 .. Len(c.Rows)
    BY <1>1
  <2> QED
    BY <2>1, FilledIs
<1>7. \A k \in DOMAIN e : \E i \in 1 .. n : k \in KeysOf(def, doc(i)) /\ e[k] = c.Rows[i]
  BY FilledAt DEF RowKeys
<1>8. \A i \in 1 .. n : \A k \in KeysOf(def, doc(i)) : k \in DOMAIN e /\ e[k] = c.Rows[i]
  <2> TAKE i \in 1 .. n
  <2> TAKE k \in KeysOf(def, doc(i))
  <2>1. k \in DOMAIN e
    BY <1>6 DEF RowKeys
  <2>2. PICK j \in 1 .. n : k \in KeysOf(def, doc(j)) /\ e[k] = c.Rows[j]
    BY <1>7, <2>1
  <2>3. i # j => Compatible(def, doc(i), doc(j))
    BY <1>1, <1>5
  <2>4. i = j
    BY <2>2, <2>3 DEF Compatible, Suit
  <2> QED
    BY <2>1, <2>2, <2>4
<1>9. /\ DOMAIN docs = Live(c)
      /\ \A r \in Live(c) : \E i \in 1 .. n : r = c.Rows[i] /\ docs[r] = doc(i)
      /\ \A i \in 1 .. n : c.Rows[i] \in Live(c) /\ docs[c.Rows[i]] = doc(i)
  BY ContentsAre
<1>10. ASSUME def.kind = "btree", NEW k \in DOMAIN e, NEW l \in DOMAIN e
       PROVE  Comparable(k, l)
  <2>1. PICK i \in 1 .. n : k \in KeysOf(def, doc(i))
    BY <1>7
  <2>2. PICK j \in 1 .. n : l \in KeysOf(def, doc(j))
    BY <1>7
  <2>3. CASE i = j
    <3>1. k = Values(def, doc(i)) /\ l = k
      BY <1>2, <1>10, <2>1, <2>2, <2>3, KeysAre
    <3>2. doc(i) \in Document
      BY <1>2
    <3> HIDE DEF doc
    <3> QED
      BY <3>1, <3>2, ComparableToItself
  <2>4. CASE i # j
    <3>1. i < j \/ j < i
      BY <1>1, <2>4
    <3>2. Compatible(def, doc(i), doc(j))
      BY <1>5, <3>1
    <3> HIDE DEF doc
    <3> QED
      BY <1>10, <2>1, <2>2, <3>2 DEF Compatible, Suit
  <2> QED
    BY <2>3, <2>4
<1> HIDE DEF e, docs, doc, n
<1>11. \A k \in DOMAIN e : e[k] \in DOMAIN docs /\ k \in KeysOf(def, docs[e[k]])
  <2> TAKE k \in DOMAIN e
  <2>1. PICK i \in 1 .. n : k \in KeysOf(def, doc(i)) /\ e[k] = c.Rows[i]
    BY <1>7
  <2> QED
    BY <1>9, <2>1
<1>12. \A r \in DOMAIN docs : \A k \in FirmKeys(def, docs[r]) : k \in DOMAIN e /\ e[k] = r
  BY <1>8, <1>9 DEF FirmKeys
<1>13. \A r \in DOMAIN docs : Accepted(def, docs[r])
  BY <1>4, <1>9
<1> QED
  BY <1>10, <1>11, <1>12, <1>13 DEF Indexing, e, docs, n

-----------------------------------------------------------------------------
(***************************************************************************)
(* Until the first tear: one collection, and operations that are answered  *)
(* with no error.                                                          *)
(***************************************************************************)
Sound(c) == \A n \in Names(c.Defs) : Indexing(c.Defs[n], c.Entries[n], Contents(c))

LEMMA SoundReaches ==
  ASSUME NEW c, Good(c), Sound(c)
  PROVE  Reachable(c) = Live(c)
<1>1. c \in Col /\ Matched(c)
  BY DEF Good
<1>2. ASSUME NEW n \in Name, NEW k \in DOMAIN c.Entries[n]
      PROVE  c.Entries[n][k] \in Live(c)
  <2>1. n \in Names(c.Defs)
    BY <1>1 DEF Matched, Names
  <2>2. Indexing(c.Defs[n], c.Entries[n], Contents(c))
    BY <2>1 DEF Sound
  <2>3. c.Entries[n][k] \in DOMAIN Contents(c)
    BY <2>2 DEF Indexing
  <2> QED
    BY <1>1, <2>3, ContentsAre
<1> QED
  BY <1>2 DEF Reachable, Pointed

LEMMA SoundCollected ==
  ASSUME NEW c, c \in Col, Sound(c)
  PROVE  Sound(Collected(c)) /\ Contents(Collected(c)) = Contents(c)
<1>1. /\ Collected(c).Defs = c.Defs /\ Collected(c).Entries = c.Entries
      /\ Live(Collected(c)) = Live(c)
      /\ \A r \in Live(c) : Collected(c).heap[r] = c.heap[r]
  BY CollectedIs, ReachableIs
<1>2. Contents(Collected(c)) = Contents(c)
  BY <1>1 DEF Contents
<1> QED
  BY <1>1, <1>2 DEF Sound

LEMMA SoundExact == ASSUME NEW c, c \in Col, Sound(c) PROVE Exact(c)
<1> SUFFICES ASSUME NEW n \in Names(c.Defs)
             PROVE  LET def == c.Defs[n]  doc(r) == c.heap[r].Payload  e == c.Entries[n] IN
                    /\ \A k \in DOMAIN e : e[k] \in Live(c) /\ k \in KeysOf(def, doc(e[k]))
                    /\ \A r \in Live(c) : \A k \in FirmKeys(def, doc(r)) :
                         k \in DOMAIN e /\ e[k] = r
                    /\ \A r \in Live(c) : Lacks(def, doc(r)) => def.sparse
  BY DEF Exact
<1>1. Indexing(c.Defs[n], c.Entries[n], Contents(c))
  BY DEF Sound
<1>2. DOMAIN Contents(c) = Live(c) /\ \A r \in Live(c) : Contents(c)[r] = c.heap[r].Payload
  BY ContentsAre
<1> QED
  BY <1>1, <1>2 DEF Indexing, Accepted

LEMMA SoundEmpty == Sound(Empty)
  BY DEF Sound, Empty, Names

LEMMA SoundIs ==
  ASSUME NEW c, Good(c), Sound(c)
  PROVE  /\ c \in Col /\ Positioned(c) /\ Docs(Contents(c))
         /\ DOMAIN Contents(c) = Live(c)
         /\ c.Defs \in DefMap /\ c.Entries \in EntryMap
         /\ Names(c.Defs) \in SUBSET Name
         /\ \A n \in Names(c.Defs) :
              /\ n \in Name /\ c.Defs[n] \in Definition /\ c.Entries[n] \in EntryMaps
              /\ Indexing(c.Defs[n], c.Entries[n], Contents(c))
<1>1. c \in Col /\ Positioned(c)
  BY DEF Good
<1>2. c.Defs \in DefMap /\ c.Entries \in EntryMap /\ \A n \in Name : c.Entries[n] \in EntryMaps
  BY <1>1, ColIs
<1>3. \A n \in Names(c.Defs) : n \in Name /\ c.Defs[n] \in Definition
  BY <1>2 DEF Names, DefMap
<1> QED
  BY <1>1, <1>2, <1>3, ContentsAre DEF Sound

\* What is left of c when an insert was rolled back.
Loses(c, d) ==
  /\ d.Rows = c.Rows /\ d.heap = c.heap /\ d.Defs = c.Defs
  /\ \A n \in Name : Lost(c.Defs[n], c.Entries[n], d.Entries[n])

LEMMA LosesCollected ==
  ASSUME NEW c, NEW d, Good(c), Sound(c), c = Collected(c), d \in Col, Loses(c, d)
  PROVE  Loses(c, Collected(d))
<1>1. c \in Col /\ Reachable(c) = Live(c) /\ Live(d) = Live(c)
  BY SoundReaches DEF Good, Loses, Live
<1>2. ASSUME NEW n \in Name, NEW k \in DOMAIN d.Entries[n]
      PROVE  d.Entries[n][k] \in Reachable(c)
  <2>1. k \in DOMAIN c.Entries[n] /\ d.Entries[n][k] = c.Entries[n][k]
    <3> DEFINE e == c.Entries[n]  f == d.Entries[n]  lost == DOMAIN e \ DOMAIN f
    <3>1. f = Drop(e, lost)
      BY DEF Loses, Lost
    <3> HIDE DEF lost, e, f
    <3>2. \A x \in DOMAIN f : x \in DOMAIN e /\ f[x] = e[x]
      BY <3>1 DEF Drop
    <3> QED
      BY <3>2 DEF e, f
  <2> QED
    BY <2>1 DEF Reachable, Pointed
<1>3. Reachable(d) = Reachable(c)
  BY <1>1, <1>2 DEF Reachable, Pointed
<1>4. Collected(d).heap = Collected(c).heap
  <2>1. d.heap = c.heap
    BY DEF Loses
  <2>2. /\ Collected(d).heap = [r \in Row |-> IF r \in Reachable(d) THEN d.heap[r] ELSE Blank]
        /\ Collected(c).heap = [r \in Row |-> IF r \in Reachable(c) THEN c.heap[r] ELSE Blank]
    BY <1>1 DEF Collected, Col
  <2> QED
    BY <1>3, <2>1, <2>2
<1>5. /\ Collected(d).Rows = d.Rows /\ Collected(d).Defs = d.Defs
      /\ Collected(d).Entries = d.Entries
  BY CollectedIs
<1> QED
  BY <1>4, <1>5 DEF Loses

\* An added row is in every index, a refused one in none, and only entries
\* with a null are gone with it.
LEMMA AddRowSound ==
  ASSUME NEW c, NEW r, NEW doc, NEW o, Good(c), Sound(c), r \in Row, r \notin Live(c),
         doc \in Document, o \in AddRow(c, r, doc)
  PROVE  /\ o.verdict \in Verdicts
         /\ o.verdict = "ok" =>
              /\ Sound(o.col) /\ o.col.Defs = c.Defs
              /\ Contents(o.col) = Plus(Contents(c), r, doc)
              /\ \A n \in Names(c.Defs) : AddVerdict(c.Defs[n], c.Entries[n], doc) = "ok"
              /\ AddRow(c, r, doc) = {o}
         /\ o.verdict # "ok" =>
              \E n \in Names(c.Defs) : AddVerdict(c.Defs[n], c.Entries[n], doc) # "ok"
         /\ o.verdict = "refused" => Loses(c, o.col)
<1> DEFINE D == c.Defs  E == c.Entries  docs == Contents(c)
<1>1. /\ c \in Col /\ D \in DefMap /\ E \in EntryMap /\ Docs(docs) /\ DOMAIN docs = Live(c)
      /\ \A n \in Names(D) : /\ n \in Name /\ D[n] \in Definition /\ E[n] \in EntryMaps
                             /\ Indexing(D[n], E[n], docs)
  BY SoundIs
<1>2. PICK p \in IndexInsert(D, E, r, doc) :
        /\ o.verdict = p.verdict
        /\ p.verdict = "ok" =>
             o.col = Made(Append(c.Rows, r), Placed(c.heap, r, Len(c.Rows) + 1, doc), D, p.entries)
        /\ p.verdict \notin {"ok", "panic"} => o.col = Made(c.Rows, c.heap, D, p.entries)
  BY <1>1, AddRowIs
<1>3. /\ p.verdict \in Verdicts
      /\ p.verdict # "ok" => \E n \in Names(D) : AddVerdict(D[n], E[n], doc) # "ok"
      /\ p.verdict = "ok" =>
           /\ \A n \in Names(D) : AddVerdict(D[n], E[n], doc) = "ok"
           /\ p.entries = Enter(D, E, Names(D), r, doc)
           /\ IndexInsert(D, E, r, doc) = {p}
  <2> HIDE DEF D, E
  <2> QED
    BY <1>1, <1>2, IndexInsertIs
<1>4. ASSUME p.verdict = "ok"
      PROVE  /\ Sound(o.col) /\ o.col.Defs = c.Defs
             /\ Contents(o.col) = Plus(Contents(c), r, doc)
  <2> DEFINE rows == Append(c.Rows, r)
             heap == Placed(c.heap, r, Len(c.Rows) + 1, doc)
             F == Enter(D, E, Names(D), r, doc)
  <2>1. o.col = Made(rows, heap, D, F)
    BY <1>2, <1>3, <1>4
  <2>2. o.col.Rows = rows /\ o.col.heap = heap /\ o.col.Defs = D /\ o.col.Entries = F
    BY <2>1 DEF Made
  <2>3. c.Rows \in Seq(Row) /\ c.heap \in [Row -> RowRecord]
    BY <1>1, ColIs
  <2>4. Live(o.col) = Live(c) \cup {r}
    <3>1. \A s : s \in Live(o.col) <=> \E k \in DOMAIN rows : s = rows[k]
      BY <2>2 DEF Live
    <3>2. \A s : s \in Live(c) <=> \E k \in DOMAIN c.Rows : s = c.Rows[k]
      BY DEF Live
    <3>3. /\ DOMAIN rows = 1 .. Len(c.Rows) + 1 /\ DOMAIN c.Rows = 1 .. Len(c.Rows)
          /\ Len(c.Rows) \in Nat /\ rows[Len(c.Rows) + 1] = r
          /\ \A k \in 1 .. Len(c.Rows) : rows[k] = c.Rows[k]
      BY <2>3
    <3> HIDE DEF rows
    <3>4. \A s : s \in Live(o.col) <=> s \in Live(c) \/ s = r
      BY <3>1, <3>2, <3>3
    <3> QED
      BY <3>4
  <2>5. heap[r].Payload = doc /\ \A s \in Row \ {r} : heap[s] = c.heap[s]
    BY <2>3 DEF Placed, NewRow
  <2> HIDE DEF rows, heap, F
  <2>6. Contents(o.col) = Plus(docs, r, doc)
    <3>1. Contents(o.col) = [s \in Live(o.col) |-> heap[s].Payload]
      BY <2>2 DEF Contents
    <3>2. \A s \in Live(c) : s \in Row /\ docs[s] = c.heap[s].Payload
      BY <1>1, ContentsAre
    <3>3. \A s \in Live(c) \cup {r} : heap[s].Payload = IF s = r THEN doc ELSE docs[s]
      BY <2>5, <3>2
    <3> HIDE DEF docs
    <3> QED
      BY <1>1, <2>4, <3>1, <3>3 DEF Plus
  <2>7. ASSUME NEW n \in Names(D)
        PROVE  Indexing(D[n], F[n], Plus(docs, r, doc))
    <3>1. F[n] = Put(E[n], KeysOf(D[n], doc), r)
      BY <1>1, <2>7 DEF F, Enter
    <3>2. AddVerdict(D[n], E[n], doc) = "ok"
      BY <1>3, <1>4
    <3> HIDE DEF D, E, docs
    <3> QED
      BY <1>1, <3>1, <3>2, AddedStaysIndexing
  <2> QED
    BY <2>2, <2>6, <2>7 DEF Sound
<1>5. ASSUME p.verdict = "ok"
      PROVE  AddRow(c, r, doc) = {o}
  <2> DEFINE fresh == [c EXCEPT !.heap[r] = [I |-> 1, Payload |-> doc]]
             Result(q) ==
               Outcome(q.verdict,
                 IF q.verdict = "ok"
                 THEN [fresh EXCEPT !.Rows = Append(c.Rows, r),
                                    !.heap[r] = [I |-> Len(c.Rows) + 1, Payload |-> doc],
                                    !.Entries = q.entries]
                 ELSE IF q.verdict = "panic" THEN [fresh EXCEPT !.Entries = q.entries]
                 ELSE [c EXCEPT !.Entries = q.entries])
  <2>1. AddRow(c, r, doc) = {Result(q) : q \in IndexInsert(D, E, r, doc)}
    BY DEF AddRow
  <2> HIDE DEF Result
  <2>2. AddRow(c, r, doc) = {Result(p)}
    BY <1>3, <1>5, <2>1
  <2> QED
    BY <2>2
<1>6. ASSUME p.verdict = "refused"
      PROVE  Loses(c, o.col)
  <2>1. PICK done \in SUBSET Names(D) :
          /\ \A n \in done : AddVerdict(D[n], E[n], doc) = "ok"
          /\ \A n \in done : RemoveVerdict(D[n], Enter(D, E, done, r, doc)[n], doc) = "ok"
          /\ p.entries = Leave(D, Enter(D, E, done, r, doc), done, doc)
    <3> HIDE DEF D, E
    <3> QED
      BY <1>1, <1>2, <1>6, IndexInsertIs
  <2> DEFINE added == Enter(D, E, done, r, doc)
  <2>2. \A n \in done : added[n] = Put(E[n], KeysOf(D[n], doc), r)
    BY <1>1 DEF Enter
  <2>3. \A n \in Name \ done : added[n] = E[n]
    BY DEF Enter
  <2> HIDE DEF D, E, docs, added
  <2>4. ASSUME NEW n \in Name
        PROVE  Lost(D[n], E[n], Leave(D, added, done, doc)[n])
    <3>1. CASE n \in done
      <4>1. Leave(D, added, done, doc)[n] = Drop(added[n], FreedKeys(D[n], doc))
        BY <3>1 DEF Leave
      <4>2. /\ D[n] \in Definition /\ E[n] \in EntryMaps
            /\ AddVerdict(D[n], E[n], doc) = "ok"
            /\ RemoveVerdict(D[n], Put(E[n], KeysOf(D[n], doc), r), doc) = "ok"
        BY <1>1, <2>1, <2>2, <3>1 DEF added
      <4> QED
        BY <2>2, <3>1, <4>1, <4>2, RollbackLoses
    <3>2. CASE n \notin done
      <4>1. Leave(D, added, done, doc)[n] = E[n] /\ E[n] \in EntryMaps
        BY <1>1, <2>3, <3>2 DEF Leave, EntryMap
      <4> QED
        BY <4>1, LostNothing
    <3> QED
      BY <3>1, <3>2
  <2>5. \A n \in Name : Lost(D[n], E[n], p.entries[n])
    BY <2>1, <2>4 DEF added
  <2>6. o.col = Made(c.Rows, c.heap, c.Defs, p.entries)
    BY <1>2, <1>6 DEF D
  <2> QED
    BY <2>5, <2>6 DEF Made, Loses, D, E
<1> QED
  BY <1>2, <1>3, <1>4, <1>5, <1>6

LEMMA LivePlace ==
  ASSUME NEW c, NEW r, Good(c), r \in Live(c)
  PROVE  /\ r \in Row /\ c.heap[r].I \in 1 .. Len(c.Rows) /\ c.Rows[c.heap[r].I] = r
         /\ Contents(c)[r] = c.heap[r].Payload /\ c.heap[r].Payload \in Document
<1>1. c \in Col /\ Positioned(c)
  BY DEF Good
<1>2. PICK i \in 1 .. Len(c.Rows) : r = c.Rows[i]
  BY <1>1, ContentsAre
<1>3. DOMAIN c.Rows = 1 .. Len(c.Rows) /\ r \in Row
  BY <1>1, <1>2, ColIs
<1> QED
  BY <1>1, <1>2, <1>3, ColIs, ContentsAre DEF Positioned

\* A remove of a row the collection holds frees its keys and no firm key of
\* another row, and no index refuses it.
LEMMA RemoveByRowSound ==
  ASSUME NEW c, NEW r, NEW o, Good(c), Sound(c), r \in Live(c), o \in RemoveByRow(c, r)
  PROVE  /\ o.verdict \in {"ok", "panic"}
         /\ o.verdict = "ok" =>
              /\ Sound(o.col) /\ o.col.Defs = c.Defs
              /\ Contents(o.col) = Minus(Contents(c), r)
              /\ RemoveByRow(c, r) = {o}
<1> DEFINE D == c.Defs  E == c.Entries  docs == Contents(c)
           i == c.heap[r].I  doc == c.heap[r].Payload
<1>1. /\ c \in Col /\ D \in DefMap /\ E \in EntryMap /\ Docs(docs) /\ DOMAIN docs = Live(c)
      /\ Positioned(c) /\ Names(D) \in SUBSET Names(D)
      /\ \A n \in Names(D) : /\ n \in Name /\ D[n] \in Definition /\ E[n] \in EntryMaps
                             /\ Indexing(D[n], E[n], docs)
  BY SoundIs
<1>2. /\ r \in Row /\ i \in 1 .. Len(c.Rows) /\ c.Rows[i] = r
      /\ docs[r] = doc /\ doc \in Document /\ Len(c.Rows) \in Nat
  BY <1>1, LivePlace, ColIs
<1>3. ~(Len(c.Rows) < i)
  BY <1>2
<1>4. PICK p \in IndexRemove(D, E, Names(D), doc) :
        /\ o.verdict = p.verdict
        /\ p.verdict = "ok" =>
             o.col = Made(Hole(c.Rows, i), Moved(c.heap, c.Rows[Len(c.Rows)], i), D, p.entries)
  BY <1>1, <1>2, <1>3, RemoveByRowIs
<1>5. /\ p.verdict \in Verdicts
      /\ p.verdict # "ok" =>
           \E n \in Names(D) : RemoveVerdict(D[n], E[n], doc) = p.verdict
      /\ p.verdict = "ok" =>
           /\ \A n \in Names(D) : RemoveVerdict(D[n], E[n], doc) = "ok"
           /\ p.entries = Leave(D, E, Names(D), doc)
           /\ IndexRemove(D, E, Names(D), doc) = {p}
  <2> HIDE DEF D, E, doc
  <2> QED
    BY <1>1, <1>2, <1>4, IndexRemoveIs
<1>6. p.verdict # "refused"
  <2> HIDE DEF D, E, doc, docs
  <2>1. \A n \in Names(D) : RemoveVerdict(D[n], E[n], docs[r]) # "refused"
    BY <1>1, HeldIsNotRefused
  <2> QED
    BY <1>2, <1>5, <2>1
<1>7. ASSUME p.verdict = "ok"
      PROVE  /\ Sound(o.col) /\ o.col.Defs = c.Defs
             /\ Contents(o.col) = Minus(Contents(c), r)
  <2> DEFINE rows == Hole(c.Rows, i)
             heap == Moved(c.heap, c.Rows[Len(c.Rows)], i)
             F == Leave(D, E, Names(D), doc)
  <2>1. o.col = Made(rows, heap, D, F)
    BY <1>4, <1>5, <1>7
  <2>2. o.col.Rows = rows /\ o.col.heap = heap /\ o.col.Defs = D /\ o.col.Entries = F
    BY <2>1 DEF Made
  <2>3. /\ \A s \in Row : heap[s].Payload = c.heap[s].Payload
        /\ {rows[k] : k \in DOMAIN rows} = Live(c) \ {r}
    <3> HIDE DEF i
    <3> QED
      BY <1>1, <1>2, HoleIs
  <2> HIDE DEF rows, heap, F
  <2>4. Live(o.col) = Live(c) \ {r}
    BY <2>2, <2>3 DEF Live
  <2>5. Contents(o.col) = Minus(docs, r)
    <3>1. Contents(o.col) = [s \in Live(o.col) |-> heap[s].Payload]
      BY <2>2 DEF Contents
    <3>2. \A s \in Live(c) : s \in Row /\ docs[s] = c.heap[s].Payload
      BY <1>1, ContentsAre
    <3>3. \A s \in Live(c) \ {r} : heap[s].Payload = docs[s]
      BY <2>3, <3>2
    <3> HIDE DEF docs
    <3> QED
      BY <1>1, <2>4, <3>1, <3>3 DEF Minus
  <2>6. ASSUME NEW n \in Names(D)
        PROVE  Indexing(D[n], F[n], Minus(docs, r))
    <3>1. F[n] = Drop(E[n], FreedKeys(D[n], docs[r]))
      BY <1>1, <1>2, <2>6 DEF F, Leave
    <3>2. RemoveVerdict(D[n], E[n], docs[r]) = "ok"
      BY <1>2, <1>5, <1>7
    <3> HIDE DEF D, E, docs
    <3> QED
      BY <1>1, <3>1, <3>2, RemovedStaysIndexing
  <2> QED
    BY <2>2, <2>5, <2>6 DEF Sound
<1>8. ASSUME p.verdict = "ok"
      PROVE  RemoveByRow(c, r) = {o}
  <2> DEFINE left(q) == [c EXCEPT !.Entries = q.entries]
             Result(q) ==
               Outcome(q.verdict, IF q.verdict = "ok" THEN SwapOut(left(q), i) ELSE left(q))
  <2>1. RemoveByRow(c, r) = {Result(q) : q \in IndexRemove(D, E, Names(D), doc)}
    BY <1>3 DEF RemoveByRow
  <2> HIDE DEF Result
  <2>2. RemoveByRow(c, r) = {Result(p)}
    BY <1>5, <1>8, <2>1
  <2> QED
    BY <2>2
<1> QED
  BY <1>4, <1>5, <1>6, <1>7, <1>8 DEF Verdicts

\* A patch that succeeds changes one document and frees its old keys.
LEMMA PatchByRowSound ==
  ASSUME NEW c, NEW r, NEW patch, NEW o, Good(c), Sound(c), r \in Live(c),
         patch \in [Field -> {Keep} \cup Value], o \in PatchByRow(c, r, patch)
  PROVE  /\ o.verdict \in Verdicts \cup {"unchanged"}
         /\ o.verdict = "unchanged" => o.col = c
         /\ o.verdict = "ok" =>
              /\ Sound(o.col) /\ o.col.Defs = c.Defs
              /\ Contents(o.col) = Plus(Contents(c), r, Merge(c.heap[r].Payload, patch))
              /\ PatchByRow(c, r, patch) = {o}
<1> DEFINE D == c.Defs  E == c.Entries  docs == Contents(c)
           old == c.heap[r].Payload  new == Merge(old, patch)
           Left == Leave(D, E, Names(D), old)
<1>1. /\ c \in Col /\ D \in DefMap /\ E \in EntryMap /\ Docs(docs) /\ DOMAIN docs = Live(c)
      /\ Names(D) \in SUBSET Names(D)
      /\ \A n \in Names(D) : /\ n \in Name /\ D[n] \in Definition /\ E[n] \in EntryMaps
                             /\ Indexing(D[n], E[n], docs)
  BY SoundIs
<1>2. r \in Row /\ docs[r] = old /\ old \in Document /\ new \in Document
  BY LivePlace, MergeIs
<1>3. /\ new = old => o.verdict = "unchanged" /\ o.col = c
      /\ new # old =>
           \E p \in IndexRemove(D, E, Names(D), old) :
             /\ p.verdict # "ok" => o.verdict = p.verdict
             /\ p.verdict = "ok" =>
                  \E q \in IndexInsert(D, p.entries, r, new) :
                    /\ o.verdict = q.verdict
                    /\ o.col = Made(c.Rows, Repaid(c.heap, r, new), D, q.entries)
  BY <1>1, <1>2, PatchByRowIs
<1> HIDE DEF old, new
<1>4. CASE new = old
  BY <1>3, <1>4
<1>5. CASE new # old
  <2>1. PICK p \in IndexRemove(D, E, Names(D), old) :
          /\ p.verdict # "ok" => o.verdict = p.verdict
          /\ p.verdict = "ok" =>
               \E q \in IndexInsert(D, p.entries, r, new) :
                 /\ o.verdict = q.verdict
                 /\ o.col = Made(c.Rows, Repaid(c.heap, r, new), D, q.entries)
    BY <1>3, <1>5
  <2>2. /\ p.verdict \in Verdicts
        /\ p.verdict = "ok" =>
             /\ \A n \in Names(D) : RemoveVerdict(D[n], E[n], old) = "ok"
             /\ p.entries = Left
             /\ IndexRemove(D, E, Names(D), old) = {p}
    <3> HIDE DEF D, E
    <3> QED
      BY <1>1, <1>2, <2>1, IndexRemoveIs
  <2>3. CASE p.verdict # "ok"
    BY <2>1, <2>2, <2>3 DEF Verdicts
  <2>4. CASE p.verdict = "ok"
    <3>1. PICK q \in IndexInsert(D, Left, r, new) :
            /\ o.verdict = q.verdict
            /\ o.col = Made(c.Rows, Repaid(c.heap, r, new), D, q.entries)
      BY <2>1, <2>2, <2>4
    <3>2. Left \in EntryMap
      BY <1>1, LeaveIs
    <3> DEFINE F == Enter(D, Left, Names(D), r, new)
    <3>3. /\ q.verdict \in Verdicts
          /\ q.verdict = "ok" =>
               /\ \A n \in Names(D) : AddVerdict(D[n], Left[n], new) = "ok"
               /\ q.entries = F
               /\ IndexInsert(D, Left, r, new) = {q}
      <4> HIDE DEF D, Left
      <4> QED
        BY <1>1, <1>2, <3>1, <3>2, IndexInsertIs
    <3>4. ASSUME q.verdict = "ok"
          PROVE  /\ Sound(o.col) /\ o.col.Defs = c.Defs
                 /\ Contents(o.col) = Plus(docs, r, new)
      <4> DEFINE heap == Repaid(c.heap, r, new)
      <4>1. /\ o.col.Rows = c.Rows /\ o.col.heap = heap
            /\ o.col.Defs = D /\ o.col.Entries = F
        BY <3>1, <3>3, <3>4 DEF Made
      <4>2. heap[r].Payload = new /\ \A s \in Row \ {r} : heap[s] = c.heap[s]
        BY <1>1, <1>2, ColIs, RepaidIs
      <4>3. Live(o.col) = Live(c)
        BY <4>1 DEF Live
      <4> HIDE DEF heap, F
      <4>4. Contents(o.col) = Plus(docs, r, new)
        <5>1. Contents(o.col) = [s \in Live(o.col) |-> heap[s].Payload]
          BY <4>1 DEF Contents
        <5>2. \A s \in Live(c) : s \in Row /\ docs[s] = c.heap[s].Payload
          BY <1>1, ContentsAre
        <5>3. \A s \in Live(c) : heap[s].Payload = IF s = r THEN new ELSE docs[s]
          BY <4>2, <5>2
        <5>4. Live(c) = DOMAIN docs \cup {r}
          BY <1>1
        <5> HIDE DEF docs
        <5> QED
          BY <4>3, <5>1, <5>3, <5>4 DEF Plus
      <4>5. ASSUME NEW n \in Names(D)
            PROVE  Indexing(D[n], F[n], Plus(docs, r, new))
        <5>1. Left[n] = Drop(E[n], FreedKeys(D[n], docs[r]))
          BY <1>1, <1>2, <4>5 DEF Leave
        <5>2. RemoveVerdict(D[n], E[n], docs[r]) = "ok"
          BY <1>2, <2>2, <2>4
        <5>3. F[n] = Put(Left[n], KeysOf(D[n], new), r) /\ AddVerdict(D[n], Left[n], new) = "ok"
          BY <1>1, <3>3, <3>4, <4>5 DEF F, Enter
        <5>4. Left[n] \in EntryMaps
          BY <1>1, <3>2 DEF EntryMap
        <5> HIDE DEF D, E, docs, Left
        <5>5. Indexing(D[n], Left[n], Minus(docs, r))
          BY <1>1, <5>1, <5>2, RemovedStaysIndexing
        <5> DEFINE less == Minus(docs, r)
        <5>6. Docs(less) /\ DOMAIN less = DOMAIN docs \ {r} /\ r \notin DOMAIN less
          BY <1>1, MinusIs
        <5>7. Plus(less, r, new) = Plus(docs, r, new)
          <6>1. DOMAIN docs \cup {r} = (DOMAIN docs \ {r}) \cup {r}
            OBVIOUS
          <6> QED
            BY <6>1 DEF Plus, Minus
        <5> HIDE DEF less
        <5>8. Indexing(D[n], Put(Left[n], KeysOf(D[n], new), r), Plus(less, r, new))
          BY <1>1, <1>2, <5>3, <5>4, <5>5, <5>6, AddedStaysIndexing DEF less
        <5> QED
          BY <5>3, <5>7, <5>8
      <4> QED
        BY <4>1, <4>4, <4>5 DEF Sound
    <3>5. ASSUME q.verdict = "ok"
          PROVE  PatchByRow(c, r, patch) = {o}
      <4> DEFINE Result(x) ==
                   Outcome(x.verdict, [c EXCEPT !.heap[r].Payload = new, !.Entries = x.entries])
                 Step(x) ==
                   IF x.verdict = "ok"
                   THEN {Result(y) : y \in IndexInsert(D, x.entries, r, new)}
                   ELSE {Outcome(x.verdict, [c EXCEPT !.Entries = x.entries])}
      <4>1. PatchByRow(c, r, patch) = UNION {Step(x) : x \in IndexRemove(D, E, Names(D), old)}
        BY <1>5 DEF PatchByRow, old, new
      <4> HIDE DEF Result
      <4>2. Step(p) = {Result(y) : y \in IndexInsert(D, Left, r, new)}
        BY <2>2, <2>4
      <4>3. Step(p) = {Result(q)}
        BY <3>3, <3>5, <4>2
      <4> HIDE DEF Step
      <4>4. PatchByRow(c, r, patch) = UNION {Step(p)}
        BY <2>2, <2>4, <4>1
      <4>5. UNION {Step(p)} = Step(p)
        OBVIOUS
      <4>6. PatchByRow(c, r, patch) = {Result(q)}
        BY <4>3, <4>4, <4>5
      <4> QED
        BY <4>6
    <3> QED
      BY <3>1, <3>3, <3>4, <3>5 DEF Verdicts, old, new
  <2> QED
    BY <2>3, <2>4
<1> QED
  BY <1>4, <1>5

\* A created index has the documents the collection holds; the others stay.
LEMMA CreateIndexSound ==
  ASSUME NEW c, NEW n, NEW def, Good(c), Sound(c), n \in Name, def \in Definition
  PROVE  LET o == CreateIndexIn(c, n, def) IN
         /\ o.verdict \in Verdicts
         /\ o.verdict = "refused" => o.col = c
         /\ o.verdict = "ok" =>
              /\ Sound(o.col) /\ Contents(o.col) = Contents(c) /\ c.Defs[n] = NoIndex
              /\ o.col.Defs = [c.Defs EXCEPT ![n] = def]
<1> DEFINE o == CreateIndexIn(c, n, def)
<1>1. c \in Col /\ Positioned(c) /\ c.Defs \in DefMap /\ c.Entries \in EntryMap
  BY SoundIs
<1>2. \/ o.verdict = "refused" /\ o.col = c
      \/ \E j \in 0 .. Len(c.Rows) :
           /\ o.verdict \in {"ok", "panic"} /\ c.Defs[n] = NoIndex
           /\ o.col = Indexed(c, n, def, j)
           /\ o.verdict = "ok" =>
                /\ j = Len(c.Rows)
                /\ \A i \in DOMAIN c.Rows : Stops(c, def, i) = "ok"
  BY <1>1, CreateIndexIs
<1> HIDE DEF o
<1>3. ASSUME o.verdict = "ok"
      PROVE  /\ Sound(o.col) /\ Contents(o.col) = Contents(c) /\ c.Defs[n] = NoIndex
             /\ o.col.Defs = [c.Defs EXCEPT ![n] = def]
  <2>1. /\ o.col = Indexed(c, n, def, Len(c.Rows)) /\ c.Defs[n] = NoIndex
        /\ \A i \in DOMAIN c.Rows : Stops(c, def, i) = "ok"
    BY <1>2, <1>3
  <2> DEFINE fill == Filled(c, def, Len(c.Rows))
             D == [c.Defs EXCEPT ![n] = def]
             E == [c.Entries EXCEPT ![n] = fill]
  <2>2. Indexing(def, fill, Contents(c))
    BY <1>1, <2>1, FilledIsIndexing
  <2> HIDE DEF fill
  <2>3. /\ D[n] = def /\ E[n] = fill
        /\ \A m \in Name \ {n} : D[m] = c.Defs[m] /\ E[m] = c.Entries[m]
    BY <1>1 DEF DefMap, EntryMap
  <2> HIDE DEF D, E
  <2>4. /\ o.col.Rows = c.Rows /\ o.col.heap = c.heap
        /\ o.col.Defs = D /\ o.col.Entries = E
    BY <2>1 DEF Indexed, Made, D, E, fill
  <2>5. Contents(o.col) = Contents(c)
    BY <2>4 DEF Contents, Live
  <2>6. ASSUME NEW m \in Names(D)
        PROVE  Indexing(D[m], E[m], Contents(c))
    <3>1. CASE m = n
      BY <2>2, <2>3, <3>1
    <3>2. CASE m # n
      <4>1. m \in Names(c.Defs)
        BY <2>3, <3>2 DEF Names
      <4> QED
        BY <2>3, <3>2, <4>1 DEF Sound, Names
    <3> QED
      BY <3>1, <3>2
  <2> QED
    BY <2>1, <2>4, <2>5, <2>6 DEF Sound, D
<1> QED
  BY <1>2, <1>3 DEF o, Verdicts

LEMMA DropIndexSound ==
  ASSUME NEW c, NEW n, Good(c), Sound(c), n \in Name
  PROVE  LET o == DropIndexIn(c, n) IN
         /\ o.verdict \in {"ok", "refused"}
         /\ o.verdict = "refused" => o.col = c
         /\ o.verdict = "ok" =>
              /\ Sound(o.col) /\ Contents(o.col) = Contents(c)
              /\ o.col.Defs = [c.Defs EXCEPT ![n] = NoIndex]
<1> DEFINE o == DropIndexIn(c, n)
<1>1. c \in Col /\ c.Defs \in DefMap /\ c.Entries \in EntryMap
  BY SoundIs
<1>2. CASE c.Defs[n] = NoIndex
  BY <1>1, <1>2, DropIndexIs DEF Outcome
<1>3. CASE c.Defs[n] # NoIndex
  <2> DEFINE D == [c.Defs EXCEPT ![n] = NoIndex]
             E == [c.Entries EXCEPT ![n] = NoEntries]
  <2>1. o.verdict = "ok" /\ o.col = Unindexed(c, n)
    BY <1>1, <1>3, DropIndexIs DEF Outcome
  <2>2. D[n] = NoIndex /\ \A m \in Name \ {n} : D[m] = c.Defs[m] /\ E[m] = c.Entries[m]
    BY <1>1 DEF DefMap, EntryMap
  <2> HIDE DEF o, D, E
  <2>3. /\ o.col.Rows = c.Rows /\ o.col.heap = c.heap
        /\ o.col.Defs = D /\ o.col.Entries = E
    BY <2>1 DEF Unindexed, Made, D, E
  <2>4. Contents(o.col) = Contents(c)
    BY <2>3 DEF Contents, Live
  <2>5. ASSUME NEW m \in Names(D)
        PROVE  Indexing(D[m], E[m], Contents(c))
    <3>1. m # n /\ m \in Names(c.Defs) /\ m \in Name
      BY <2>2 DEF Names
    <3> QED
      BY <2>2, <3>1 DEF Sound
  <2> QED
    BY <2>1, <2>3, <2>4, <2>5 DEF Sound, D, o
<1> QED
  BY <1>2, <1>3

-----------------------------------------------------------------------------
(***************************************************************************)
(* Until the first tear: memory and the journal.                           *)
(***************************************************************************)
Whole == Sound(mem) /\ file.readable /\ file.image = mem /\ status # "failed"
Intact == torn = None => Whole
Tearing ==
  torn = None /\ torn' # None /\ torn'.verdict = "refused" =>
    torn'.op = "patch" \/ (torn'.op = "insert" /\ OnlyNullsAreLost)

LEMMA NoTear == None \notin Tears
  BY InputAssumption DEF Tears, Ops

LEMMA SettleStaysIntact ==
  ASSUME NEW op, NEW o, NEW written, Kept, Intact, op \in Ops, Good(o.col),
         o.verdict \in Verdicts \/ (o.verdict = "unchanged" /\ o.col = mem),
         torn = None /\ o.verdict = "ok" => Sound(o.col) /\ written = {Readable(o.col)},
         torn = None /\ o.verdict = "refused" =>
           o.col = mem \/ op = "patch" \/ (op = "insert" /\ Loses(mem, o.col)),
         Settle(op, o, written)
  PROVE  Intact' /\ Tearing
<1>1. /\ mem' = Collected(o.col) /\ o.col \in Col /\ status' = status
      /\ mem = Collected(mem)
  BY DEF Settle, Good, Kept
<1>2. CASE torn = None /\ o.verdict # "ok" /\ mem' # mem
  <2>1. o.col # mem /\ o.verdict \in {"refused", "panic"}
    BY <1>1, <1>2 DEF Verdicts
  <2>2. torn' = [op |-> op, verdict |-> o.verdict]
    BY <1>2 DEF Settle
  <2>3. torn' \in Tears /\ torn'.op = op /\ torn'.verdict = o.verdict
    BY <2>1, <2>2 DEF Tears
  <2>4. ASSUME op = "insert", Loses(mem, o.col) PROVE OnlyNullsAreLost
    <3>1. Good(mem) /\ Sound(mem)
      BY <1>2, KeptIs DEF Intact, Whole
    <3>2. Loses(mem, mem')
      BY <1>1, <2>4, <3>1, LosesCollected
    <3> QED
      BY <3>2 DEF Loses, Lost, OnlyNullsAreLost
  <2> QED
    BY <1>2, <2>1, <2>3, <2>4, NoTear DEF Intact, Tearing
<1>3. CASE torn = None /\ o.verdict # "ok" /\ mem' = mem
  <2>1. torn' = torn /\ file' = file
    BY <1>3 DEF Settle
  <2> QED
    BY <1>1, <1>3, <2>1 DEF Intact, Whole, Tearing
<1>4. CASE torn = None /\ o.verdict = "ok"
  <2>1. torn' = None /\ file' = Readable(o.col)
    BY <1>4 DEF Settle, Intact, Whole
  <2>2. file'.readable /\ file'.image = mem'
    BY <1>1, <2>1 DEF Readable
  <2>3. Sound(mem')
    BY <1>1, <1>4, SoundCollected
  <2> QED
    BY <1>1, <1>4, <2>1, <2>2, <2>3 DEF Intact, Whole, Tearing
<1>5. CASE torn # None
  <2>1. torn' = torn
    BY <1>5 DEF Settle
  <2> QED
    BY <1>5, <2>1 DEF Intact, Tearing
<1> QED
  BY <1>2, <1>3, <1>4, <1>5

LEMMA ReplayOtherOne ==
  ASSUME NEW o, o.verdict # "panic"
  PROVE  ReplayOther({o}) = {Readable(o.col)}
  BY DEF ReplayOther

LEMMA InitIntact == Init => Intact
<1> SUFFICES ASSUME Init PROVE Intact
  OBVIOUS
<1>1. mem = Empty /\ file = Readable(Empty) /\ torn = None /\ status = "open"
  BY DEF Init
<1> QED
  BY <1>1, GoodEmpty, EmptyIsCollected, StoredReadable, SoundEmpty
     DEF Intact, Whole

LEMMA NextIntact == Kept /\ Intact /\ [Next]_vars => Intact' /\ Tearing
<1> SUFFICES ASSUME Kept, Intact, [Next]_vars PROVE Intact' /\ Tearing
  OBVIOUS
<1>1. torn = None => Whole
  BY DEF Intact
<1>2. Good(mem) /\ Good(file.image)
  BY KeptIs
<1>3. ASSUME NEW r \in Row, NEW doc \in Documents, Insert(r, doc) PROVE Intact' /\ Tearing
  <2>1. PICK o \in AddRow(mem, r, doc) : Settle("insert", o, ReplayInsert(r, doc))
    BY <1>3 DEF Insert
  <2>2. r \notin Reachable(mem) /\ r \notin Live(mem) /\ doc \in Document
    BY <1>3, KeptIs, ReachableIs, InputAssumption DEF Insert, Fresh
  <2>3. Good(o.col) /\ o.verdict \in Verdicts
    BY <1>2, <2>2, AddRowGood
  <2>4. torn = None =>
          /\ o.verdict = "ok" => Sound(o.col) /\ AddRow(mem, r, doc) = {o}
          /\ o.verdict = "refused" => Loses(mem, o.col)
    BY <1>1, <1>2, <2>1, <2>2, AddRowSound DEF Whole
  <2>5. ASSUME torn = None, o.verdict = "ok"
        PROVE  ReplayInsert(r, doc) = {Readable(o.col)}
    <3>1. AddRow(file.image, r, doc) = {o}
      BY <1>1, <2>4, <2>5 DEF Whole
    <3> QED
      BY <2>5, <3>1 DEF ReplayInsert
  <2>6. "insert" \in Ops
    BY DEF Ops
  <2> QED
    BY <2>1, <2>3, <2>4, <2>5, <2>6, SettleStaysIntact
<1>4. ASSUME NEW r \in Row, Remove(r) PROVE Intact' /\ Tearing
  <2> DEFINE i == mem.heap[r].I
  <2>1. PICK o \in RemoveByRow(mem, r) : Settle("remove", o, ReplayRemove(i))
    BY <1>4 DEF Remove
  <2>2. Good(o.col) /\ o.verdict \in Verdicts
    BY <1>2, RemoveByRowGood
  <2>3. torn = None => r \in Live(mem)
    BY <1>1, <1>2, <1>4, SoundReaches DEF Whole, Remove
  <2>4. torn = None =>
          /\ o.verdict = "ok" => Sound(o.col) /\ RemoveByRow(mem, r) = {o}
          /\ o.verdict # "refused"
    BY <1>1, <1>2, <2>1, <2>3, RemoveByRowSound DEF Whole
  <2>5. ASSUME torn = None, o.verdict = "ok"
        PROVE  ReplayRemove(i) = {Readable(o.col)}
    <3>1. i \in 1 .. Len(mem.Rows) /\ mem.Rows[i] = r
      BY <1>2, <2>3, <2>5, LivePlace
    <3>2. ~(i > Len(mem.Rows))
      BY <3>1, KeptIs, ColIs
    <3> HIDE DEF i
    <3>3. ReplayRemove(i) = ReplayOther({o})
      BY <1>1, <2>4, <2>5, <3>1, <3>2 DEF ReplayRemove, Whole
    <3> QED
      BY <2>5, <3>3, ReplayOtherOne
  <2>6. "remove" \in Ops
    BY DEF Ops
  <2> HIDE DEF i
  <2> QED
    BY <2>1, <2>2, <2>4, <2>5, <2>6, SettleStaysIntact
<1>5. ASSUME NEW r \in Row, NEW patch \in Patches, Patch(r, patch) PROVE Intact' /\ Tearing
  <2> DEFINE old == mem.heap[r].Payload  new == Merge(old, patch)
             diff == Diff(old, new)  i == mem.heap[r].I
  <2>1. PICK o \in PatchByRow(mem, r, patch) : Settle("patch", o, ReplayPatch(i, diff))
    BY <1>5 DEF Patch
  <2>2. patch \in [Field -> {Keep} \cup Value] /\ old \in Document
    BY InputAssumption, KeptIs
  <2>3. new \in Document /\ Merge(old, diff) = new
    BY <2>2, MergeIs, DiffIs
  <2>4. Good(o.col) /\ o.verdict \in Verdicts \cup {"unchanged"}
    BY <1>2, <2>2, PatchByRowGood
  <2>5. o.verdict = "unchanged" => o.col = mem
    <3>1. new = old => o.col = mem
      BY KeptIs, PatchByRowIs
    <3>2. new # old => o.verdict \in Verdicts
      <4> SUFFICES ASSUME new # old PROVE o.verdict \in Verdicts
        OBVIOUS
      <4>1. PICK p \in IndexRemove(mem.Defs, mem.Entries, Names(mem.Defs), old) :
              /\ p.verdict # "ok" => o.verdict = p.verdict
              /\ p.verdict = "ok" =>
                   \E q \in IndexInsert(mem.Defs, p.entries, r, new) : o.verdict = q.verdict
        BY KeptIs, PatchByRowIs
      <4>2. mem.Defs \in DefMap /\ mem.Entries \in EntryMap
        BY KeptIs, ColIs
      <4> HIDE DEF old, new
      <4>3. p.verdict \in Verdicts /\ p.entries \in EntryMap
        BY <2>2, <4>1, <4>2, IndexRemoveIs, RemoveEntries
      <4> QED
        BY <2>3, <4>1, <4>2, <4>3, IndexInsertIs
    <3> QED
      BY <3>1, <3>2 DEF Verdicts
  <2>6. torn = None => r \in Live(mem)
    BY <1>1, <1>2, <1>5, SoundReaches DEF Whole, Patch
  <2>7. torn = None /\ o.verdict = "ok" => Sound(o.col) /\ PatchByRow(mem, r, patch) = {o}
    <3> HIDE DEF old, new, diff, i
    <3> QED
      BY <1>1, <1>2, <2>1, <2>2, <2>6, PatchByRowSound DEF Whole
  <2>8. ASSUME torn = None, o.verdict = "ok"
        PROVE  ReplayPatch(i, diff) = {Readable(o.col)}
    <3>1. i \in 1 .. Len(mem.Rows) /\ mem.Rows[i] = r
      BY <1>2, <2>6, <2>8, LivePlace
    <3>2. ~(i > Len(mem.Rows))
      BY <3>1, KeptIs, ColIs
    <3>3. PatchByRow(mem, r, diff) = PatchByRow(mem, r, patch)
      <4> DEFINE Result(next, o1) ==
                   Outcome(o1.verdict,
                           [mem EXCEPT !.heap[r].Payload = next, !.Entries = o1.entries])
                 Again(next, left) ==
                   {Result(next, o1) : o1 \in IndexInsert(mem.Defs, left, r, next)}
                 Changed(next) ==
                   IF next = old THEN {Outcome("unchanged", mem)}
                   ELSE UNION {IF o1.verdict = "ok" THEN Again(next, o1.entries)
                               ELSE {Outcome(o1.verdict, [mem EXCEPT !.Entries = o1.entries])} :
                                 o1 \in IndexRemove(mem.Defs, mem.Entries, Names(mem.Defs), old)}
      <4>1. PatchByRow(mem, r, diff) = Changed(Merge(old, diff))
        <5> HIDE DEF diff
        <5> QED
          BY Zenon DEF PatchByRow
      <4>2. PatchByRow(mem, r, patch) = Changed(Merge(old, patch))
        BY Zenon DEF PatchByRow
      <4> HIDE DEF Changed, diff
      <4> QED
        BY <2>3, <4>1, <4>2
    <3> HIDE DEF i, diff
    <3>4. ReplayPatch(i, diff) = ReplayOther({o})
      BY <1>1, <2>7, <2>8, <3>1, <3>2, <3>3 DEF ReplayPatch, Whole
    <3> QED
      BY <2>8, <3>4, ReplayOtherOne
  <2>9. "patch" \in Ops
    BY DEF Ops
  <2> HIDE DEF i, diff
  <2> QED
    BY <2>1, <2>4, <2>5, <2>7, <2>8, <2>9, SettleStaysIntact
<1>6. ASSUME NEW n \in Name, NEW def \in Definitions, Index(n, def) PROVE Intact' /\ Tearing
  <2> DEFINE o == CreateIndexIn(mem, n, def)
  <2>1. Settle("index", o, ReplayOther({CreateIndexIn(file.image, n, def)}))
    BY <1>6 DEF Index
  <2>2. def \in Definition
    BY InputAssumption
  <2>3. Good(o.col) /\ o.verdict \in Verdicts
    BY <1>2, <2>2, CreateIndexGood
  <2>4. torn = None =>
          /\ o.verdict = "ok" => Sound(o.col)
          /\ o.verdict = "refused" => o.col = mem
    BY <1>1, <1>2, <2>2, CreateIndexSound DEF Whole
  <2>5. torn = None => CreateIndexIn(file.image, n, def) = o
    BY <1>1 DEF Whole
  <2> HIDE DEF o
  <2>6. torn = None /\ o.verdict = "ok" =>
          ReplayOther({CreateIndexIn(file.image, n, def)}) = {Readable(o.col)}
    BY <2>5, ReplayOtherOne
  <2>7. "index" \in Ops
    BY DEF Ops
  <2> QED
    BY <2>1, <2>3, <2>4, <2>6, <2>7, SettleStaysIntact
<1>7. ASSUME NEW n \in Name, DropIndex(n) PROVE Intact' /\ Tearing
  <2> DEFINE o == DropIndexIn(mem, n)
  <2>1. Settle("drop_index", o, ReplayOther({DropIndexIn(file.image, n)}))
    BY <1>7 DEF DropIndex
  <2>2. Good(o.col) /\ o.verdict \in Verdicts
    BY <1>2, DropIndexGood
  <2>3. torn = None =>
          /\ o.verdict = "ok" => Sound(o.col)
          /\ o.verdict = "refused" => o.col = mem
    BY <1>1, <1>2, DropIndexSound DEF Whole
  <2>4. torn = None => DropIndexIn(file.image, n) = o
    BY <1>1 DEF Whole
  <2> HIDE DEF o
  <2>5. torn = None /\ o.verdict = "ok" =>
          ReplayOther({DropIndexIn(file.image, n)}) = {Readable(o.col)}
    BY <2>4, ReplayOtherOne
  <2>6. "drop_index" \in Ops
    BY DEF Ops
  <2> QED
    BY <2>1, <2>2, <2>3, <2>5, <2>6, SettleStaysIntact
<1>8. CASE Close
  BY <1>8 DEF Close, Intact, Whole, Tearing
<1>9. CASE Open
  BY <1>9 DEF Open, Intact, Whole, Tearing
<1>10. CASE UNCHANGED vars
  BY <1>10 DEF vars, Intact, Whole, Tearing
<1> QED
  BY <1>3, <1>4, <1>5, <1>6, <1>7, <1>8, <1>9, <1>10 DEF Next

LEMMA SpecIntact == Spec => []Intact
  BY SpecKept, InitIntact, NextIntact, PTL DEF Spec

\* Until the first tear no index has an entry of a row that is gone or has
\* another key, every row is in every index under its firm keys and alone, and
\* no row lacks a mandatory field, whatever documents were inserted, refused,
\* rolled back or looked up as nil on the way (collection.go:413-453,
\* indexInsert and indexRemove; indexbtree.go:24-34).
THEOREM SpecIndexesAreExact == Spec => []IndexesAreExact
<1>1. Kept /\ Intact => IndexesAreExact
  BY KeptIs, SoundExact DEF Intact, Whole, IndexesAreExact
<1> QED
  BY <1>1, SpecKept, SpecIntact, PTL

\* Until the first tear OpenCollection rebuilds what is in memory: the same
\* rows in the same places and the same indexes, so a command that names a
\* row by its position finds the row it was written for (collection.go:45-127).
THEOREM SpecReplayRestoresMemory == Spec => []ReplayRestoresMemory
<1>1. Intact => ReplayRestoresMemory
  BY DEF Intact, Whole, ReplayRestoresMemory
<1> QED
  BY <1>1, SpecIntact, PTL

\* Of the operations that are refused only a patch leaves memory changed, and
\* an insert that a later index refused, which may take entries with a null out
\* of the indexes before it; remove and index never do, however many indexes
\* there are (collection.go:313-362, 413-453).
THEOREM SpecOnlyPatchesTear == Spec => OnlyPatchesTear
<1>1. Kept /\ Intact /\ [Next]_vars =>
        [torn = None /\ torn' # None /\ torn'.verdict = "refused" =>
           \/ torn'.op = "patch"
           \/ torn'.op = "insert" /\ OnlyNullsAreLost]_vars
  BY NextIntact DEF Tearing
<1> QED
  BY <1>1, SpecKept, SpecIntact, PTL DEF Spec, OnlyPatchesTear

-----------------------------------------------------------------------------
(***************************************************************************)
(* The collection implements DocumentStore.                                *)
(***************************************************************************)
LEMMA StoreOperators ==
  /\ Store!Document = Document /\ Store!Definition = Definition
  /\ \A D : Store!Names(D) = Names(D)
  /\ \A docs, r, doc : Store!With(docs, r, doc) = Plus(docs, r, doc)
  /\ \A docs, r : Store!Without(docs, r) = Minus(docs, r)
<1>1. Store!Document = Document
  BY DEF Store!Document, Store!Value, Document, Value
<1>2. Store!Definition = Definition
  BY DEF Store!Definition, Store!Parts, Store!Part, Store!Cardinality, Definition, Parts,
         Part, Cardinality
<1>3. \A D : Store!Names(D) = Names(D)
  BY DEF Store!Names, Names
<1>4. \A docs, r, doc : Store!With(docs, r, doc) = Plus(docs, r, doc)
  BY DEF Store!With, Plus
<1>5. \A docs, r : Store!Without(docs, r) = Minus(docs, r)
  BY DEF Store!Without, Minus
<1> QED
  BY <1>1, <1>2, <1>3, <1>4, <1>5

LEMMA StoreAccepts ==
  ASSUME NEW def, NEW doc
  PROVE  Store!Accepts(def, doc) <=> Accepted(def, doc)
  BY DEF Store!Accepts, Store!Lacks, Store!IsStrings, Store!Values,
         Accepted, Lacks, IsStrings, Values

LEMMA StoreKeys ==
  ASSUME NEW def, NEW doc
  PROVE  Store!KeysOf(def, doc) = KeysOf(def, doc)
  BY DEF Store!KeysOf, Store!Lacks, Store!IsStrings, Store!Values,
         KeysOf, Lacks, IsStrings, Values

LEMMA StoreFits ==
  ASSUME NEW def, NEW keys1, NEW keys2
  PROVE  Store!Fit(def, keys1, keys2) <=> Suit(def, keys1, keys2)
<1>1. \A u, v : Store!Comparable(u, v) <=> Comparable(u, v)
  BY DEF Store!Comparable, Store!IsString, Comparable, IsString
<1> QED
  BY <1>1 DEF Store!Fit, Suit

LEMMA StoreTogether ==
  ASSUME NEW def, NEW doc1, NEW doc2
  PROVE  Store!Together(def, doc1, doc2) <=> FirmlyCompatible(def, doc1, doc2)
<1>1. \A k : Store!CanLose(def, k) <=> CanLose(def, k)
  BY DEF Store!CanLose, CanLose
<1>2. /\ Store!FirmKeys(def, doc1) = FirmKeys(def, doc1)
      /\ Store!FirmKeys(def, doc2) = FirmKeys(def, doc2)
  BY <1>1, StoreKeys DEF Store!FirmKeys, FirmKeys
<1> QED
  BY <1>2, StoreFits DEF Store!Together, FirmlyCompatible

LEMMA StoreAdmissible ==
  ASSUME NEW docs, NEW D
  PROVE  Store!Admissible(docs, D) <=>
           \A n \in Names(D) :
             /\ \A r \in DOMAIN docs : Accepted(D[n], docs[r])
             /\ \A r \in DOMAIN docs : \A s \in DOMAIN docs :
                  r # s => FirmlyCompatible(D[n], docs[r], docs[s])
  BY StoreOperators, StoreAccepts, StoreTogether DEF Store!Admissible

LEMMA SoundIsAdmissible ==
  ASSUME NEW c, Sound(c)
  PROVE  Store!Admissible(Contents(c), c.Defs)
<1>1. \A n \in Names(c.Defs) :
        \A r \in DOMAIN Contents(c) : Accepted(c.Defs[n], Contents(c)[r])
  BY DEF Sound, Indexing
<1>2. \A n \in Names(c.Defs) :
        \A r \in DOMAIN Contents(c) : \A s \in DOMAIN Contents(c) :
          r # s => FirmlyCompatible(c.Defs[n], Contents(c)[r], Contents(c)[s])
  BY IndexedAreCompatible DEF Sound
<1> QED
  BY <1>1, <1>2, StoreAdmissible

\* What an operation leaves when nothing is torn: an error changed nothing.
LEMMA SettledWhole ==
  ASSUME NEW op, NEW o, NEW written, Kept, Good(o.col), torn = None, torn' = None,
         o.verdict \in Verdicts \/ (o.verdict = "unchanged" /\ o.col = mem), op \in Ops,
         Settle(op, o, written)
  PROVE  /\ o.verdict # "ok" => mem' = mem
         /\ Sound(o.col) => Contents(mem') = Contents(o.col)
         /\ mem'.Defs = o.col.Defs
<1>1. mem' = Collected(o.col) /\ o.col \in Col /\ mem = Collected(mem)
  BY DEF Settle, Good, Kept
<1>2. o.verdict # "ok" => mem' = mem
  <2> SUFFICES ASSUME o.verdict # "ok", mem' # mem PROVE FALSE
    OBVIOUS
  <2>1. torn' = [op |-> op, verdict |-> o.verdict]
    BY DEF Settle
  <2>2. o.verdict \in {"refused", "panic"}
    BY <1>1 DEF Verdicts
  <2>3. torn' \in Tears
    BY <2>1, <2>2 DEF Tears
  <2> QED
    BY <2>3, NoTear
<1> QED
  BY <1>1, <1>2, SoundCollected, CollectedIs

LEMMA TearsStay == [Next]_vars /\ torn # None => torn' = torn
  BY DEF Next, vars, Insert, Remove, Patch, Index, DropIndex, Close, Open, Settle

LEMMA NextStore ==
  ASSUME Kept, Intact, Intact', [Next]_vars
  PROVE  [Store!Next]_(Store!vars)
<1>1. CASE torn' # None
  BY <1>1 DEF Store!Next, Store!Tear
<1>2. CASE torn' = None
  <2>1. torn = None
    BY <1>2, TearsStay
  <2>2. Whole /\ Good(mem) /\ Whole'
    BY <1>2, <2>1, KeptIs DEF Intact
  <2>3. Sound(mem) /\ DOMAIN Contents(mem) = Live(mem) /\ mem.Defs \in DefMap
    BY <2>2, SoundIs DEF Whole
  <2>4. Store!Admissible(Contents(mem'), mem'.Defs)
    BY <2>2, SoundIsAdmissible DEF Whole
  <2>5. mem' = mem => UNCHANGED Store!vars
    BY <1>2, <2>1 DEF Store!vars
  <2>6. ASSUME Store!Request PROVE Store!Next
    BY <1>2, <2>1, <2>6 DEF Store!Next
  <2>7. ASSUME NEW r \in Row, NEW doc \in Documents, Insert(r, doc)
        PROVE  mem' = mem \/ Store!Request
    <3>1. PICK o \in AddRow(mem, r, doc) : Settle("insert", o, ReplayInsert(r, doc))
      BY <2>7 DEF Insert
    <3>2. r \notin Reachable(mem) /\ r \notin Live(mem) /\ doc \in Document /\ "insert" \in Ops
      BY <2>7, KeptIs, ReachableIs, InputAssumption DEF Insert, Fresh, Ops
    <3>3. Good(o.col) /\ o.verdict \in Verdicts
      BY <2>2, <3>2, AddRowGood
    <3>4. o.verdict = "ok" =>
            /\ Sound(o.col) /\ o.col.Defs = mem.Defs
            /\ Contents(o.col) = Plus(Contents(mem), r, doc)
      BY <2>2, <2>3, <3>1, <3>2, AddRowSound
    <3>5. o.verdict # "ok" => mem' = mem
      BY <1>2, <2>1, <3>1, <3>2, <3>3, SettledWhole
    <3>6. ASSUME o.verdict = "ok"
          PROVE  Contents(mem') = Plus(Contents(mem), r, doc) /\ mem'.Defs = mem.Defs
      BY <1>2, <2>1, <3>1, <3>2, <3>3, <3>4, <3>6, SettledWhole
    <3>7. ASSUME o.verdict = "ok" PROVE Store!Insert(r, doc)
      BY <2>3, <2>4, <3>2, <3>6, <3>7, StoreOperators DEF Store!Insert
    <3> QED
      BY <3>2, <3>5, <3>7, StoreOperators DEF Store!Request
  <2>8. ASSUME NEW r \in Row, Remove(r)
        PROVE  mem' = mem \/ Store!Request
    <3>1. PICK o \in RemoveByRow(mem, r) : Settle("remove", o, ReplayRemove(mem.heap[r].I))
      BY <2>8 DEF Remove
    <3>2. r \in Live(mem) /\ "remove" \in Ops
      BY <2>2, <2>3, <2>8, SoundReaches DEF Remove, Ops
    <3>3. Good(o.col) /\ o.verdict \in Verdicts
      BY <2>2, RemoveByRowGood
    <3>4. o.verdict = "ok" =>
            /\ Sound(o.col) /\ o.col.Defs = mem.Defs
            /\ Contents(o.col) = Minus(Contents(mem), r)
      BY <2>2, <2>3, <3>1, <3>2, RemoveByRowSound
    <3>5. o.verdict # "ok" => mem' = mem
      BY <1>2, <2>1, <3>1, <3>2, <3>3, SettledWhole
    <3>6. ASSUME o.verdict = "ok"
          PROVE  Contents(mem') = Minus(Contents(mem), r) /\ mem'.Defs = mem.Defs
      BY <1>2, <2>1, <3>1, <3>2, <3>3, <3>4, <3>6, SettledWhole
    <3>7. ASSUME o.verdict = "ok" PROVE Store!Remove(r)
      BY <3>6, <3>7, StoreOperators DEF Store!Remove
    <3> QED
      BY <2>3, <3>2, <3>5, <3>7 DEF Store!Request
  <2>9. ASSUME NEW r \in Row, NEW patch \in Patches, Patch(r, patch)
        PROVE  mem' = mem \/ Store!Request
    <3> DEFINE new == Merge(mem.heap[r].Payload, patch)
    <3>0. PICK o \in PatchByRow(mem, r, patch) :
            Settle("patch", o, ReplayPatch(mem.heap[r].I, Diff(mem.heap[r].Payload, new)))
      BY <2>9 DEF Patch
    <3>1. PICK written : Settle("patch", o, written)
      BY <3>0
    <3>2. r \in Live(mem) /\ "patch" \in Ops
      BY <2>2, <2>3, <2>9, SoundReaches DEF Patch, Ops
    <3>3. patch \in [Field -> {Keep} \cup Value] /\ new \in Document
      BY KeptIs, MergeIs, InputAssumption
    <3> HIDE DEF new
    <3>4. Good(o.col) /\ o.verdict \in Verdicts \cup {"unchanged"}
      BY <2>2, <3>3, PatchByRowGood
    <3>5. /\ o.verdict = "unchanged" => o.col = mem
          /\ o.verdict = "ok" =>
               /\ Sound(o.col) /\ o.col.Defs = mem.Defs
               /\ Contents(o.col) = Plus(Contents(mem), r, new)
      BY <2>2, <2>3, <3>1, <3>2, <3>3, PatchByRowSound DEF new
    <3>6. o.verdict # "ok" => mem' = mem
      BY <1>2, <2>1, <3>1, <3>2, <3>4, <3>5, SettledWhole
    <3>7. ASSUME o.verdict = "ok"
          PROVE  Contents(mem') = Plus(Contents(mem), r, new) /\ mem'.Defs = mem.Defs
      <4>1. o.verdict \in Verdicts
        BY <3>7 DEF Verdicts
      <4> QED
        BY <1>2, <2>1, <3>1, <3>2, <3>4, <3>5, <3>7, <4>1, SettledWhole
    <3>8. ASSUME o.verdict = "ok" PROVE Store!Patch(r, new)
      BY <2>4, <3>7, <3>8, StoreOperators DEF Store!Patch
    <3> QED
      BY <2>3, <3>2, <3>3, <3>6, <3>8, StoreOperators DEF Store!Request
  <2>10. ASSUME NEW n \in Name, NEW def \in Definitions, Index(n, def)
         PROVE  mem' = mem \/ Store!Request
    <3> DEFINE o == CreateIndexIn(mem, n, def)
    <3>1. PICK written : Settle("index", o, written)
      BY <2>10 DEF Index
    <3>2. def \in Definition /\ "index" \in Ops
      BY InputAssumption DEF Ops
    <3>3. Good(o.col) /\ o.verdict \in Verdicts
      BY <2>2, <3>2, CreateIndexGood
    <3>4. o.verdict = "ok" =>
            /\ Sound(o.col) /\ Contents(o.col) = Contents(mem) /\ mem.Defs[n] = NoIndex
            /\ o.col.Defs = [mem.Defs EXCEPT ![n] = def]
      BY <2>2, <2>3, <3>2, CreateIndexSound
    <3> HIDE DEF o
    <3>5. o.verdict # "ok" => mem' = mem
      BY <1>2, <2>1, <3>1, <3>2, <3>3, SettledWhole
    <3>6. ASSUME o.verdict = "ok"
          PROVE  /\ Contents(mem') = Contents(mem) /\ mem.Defs[n] = NoIndex
                 /\ mem'.Defs = [mem.Defs EXCEPT ![n] = def]
      BY <1>2, <2>1, <3>1, <3>2, <3>3, <3>4, <3>6, SettledWhole
    <3>7. ASSUME o.verdict = "ok" PROVE Store!CreateIndex(n, def)
      <4>1. Store!Admissible(Contents(mem), mem'.Defs)
        BY <2>4, <3>6, <3>7
      <4> QED
        BY <3>6, <3>7, <4>1 DEF Store!CreateIndex
    <3> QED
      BY <3>2, <3>5, <3>7, StoreOperators DEF Store!Request
  <2>11. ASSUME NEW n \in Name, DropIndex(n)
         PROVE  mem' = mem \/ Store!Request
    <3> DEFINE o == DropIndexIn(mem, n)
    <3>1. PICK written : Settle("drop_index", o, written)
      BY <2>11 DEF DropIndex
    <3>2. "drop_index" \in Ops
      BY DEF Ops
    <3>3. Good(o.col) /\ o.verdict \in Verdicts
      BY <2>2, DropIndexGood
    <3>4. o.verdict = "ok" =>
            /\ Sound(o.col) /\ Contents(o.col) = Contents(mem)
            /\ o.col.Defs = [mem.Defs EXCEPT ![n] = NoIndex]
      BY <2>2, <2>3, DropIndexSound
    <3> HIDE DEF o
    <3>5. o.verdict # "ok" => mem' = mem
      BY <1>2, <2>1, <3>1, <3>2, <3>3, SettledWhole
    <3>6. ASSUME o.verdict = "ok"
          PROVE  /\ Contents(mem') = Contents(mem)
                 /\ mem'.Defs = [mem.Defs EXCEPT ![n] = NoIndex]
      BY <1>2, <2>1, <3>1, <3>2, <3>3, <3>4, <3>6, SettledWhole
    <3>7. ASSUME o.verdict = "ok" PROVE Store!DropIndex(n)
      BY <3>6, <3>7 DEF Store!DropIndex
    <3> QED
      BY <3>5, <3>7 DEF Store!Request
  <2>12. ASSUME Close \/ Open \/ UNCHANGED vars
         PROVE  mem' = mem
    BY <2>2, <2>12 DEF Close, Open, vars, Whole
  <2> QED
    BY <2>5, <2>6, <2>7, <2>8, <2>9, <2>10, <2>11, <2>12 DEF Next
<1> QED
  BY <1>1, <1>2

\* Until the first request that is answered with an error after it changed
\* something, or panics, a caller cannot tell the collection, with its rows,
\* positions, indexes, journal and restarts, from a set of documents that are
\* complete under every index and unique under every firm key, changed by one
\* request at a time.
THEOREM SpecImplementsStore == Spec => ImplementsStore
<1>1. Init => Store!Init
  <2> SUFFICES ASSUME Init PROVE Store!Init
    OBVIOUS
  <2>1. mem = Empty /\ torn = None
    BY DEF Init
  <2>2. Contents(mem) = [r \in {} |-> {}] /\ mem.Defs = [n \in Name |-> NoIndex]
    BY <2>1 DEF Contents, Live, Empty
  <2> QED
    BY <2>1, <2>2 DEF Store!Init
<1>2. Kept /\ Intact /\ Intact' /\ [Next]_vars => [Store!Next]_(Store!vars)
  BY NextStore
<1> QED
  BY <1>1, <1>2, SpecKept, SpecIntact, PTL DEF Spec, ImplementsStore, Store!Spec

LEMMA AddRowAnswers ==
  ASSUME NEW c, NEW r, NEW doc
  PROVE  AddRow(c, r, doc) # {}
<1> DEFINE D == c.Defs  E == c.Entries
<1>1. IndexInsert(D, E, r, doc) # {}
  <2> DEFINE stops == {n \in Names(D) : AddVerdict(D[n], E[n], doc) # "ok"}
             added(done) == Enter(D, E, done, r, doc)
             Undone(done) ==
               {[verdict |-> IF o.verdict = "ok" THEN "refused" ELSE "panic",
                 entries |-> o.entries] : o \in IndexRemove(D, added(done), done, doc)}
             After(n, done) ==
               IF AddVerdict(D[n], E[n], doc) = "panic"
               THEN {[verdict |-> "panic", entries |-> added(done)]}
               ELSE Undone(done)
  <2>1. IndexInsert(D, E, r, doc) =
          IF stops = {} THEN {[verdict |-> "ok", entries |-> Enter(D, E, Names(D), r, doc)]}
          ELSE UNION {After(n, done) : n \in stops, done \in SUBSET (Names(D) \ stops)}
    BY DEF IndexInsert
  <2>2. CASE stops = {}
    <3> DEFINE all == [verdict |-> "ok", entries |-> Enter(D, E, Names(D), r, doc)]
    <3>1. IndexInsert(D, E, r, doc) = {all}
      <4> HIDE DEF stops, After
      <4> QED
        BY <2>1, <2>2
    <3> HIDE DEF all, D, E
    <3> QED
      BY <3>1
  <2>3. CASE stops # {}
    <3>1. PICK n \in stops : TRUE
      BY <2>3
    <3>2. {} \in SUBSET (Names(D) \ stops)
      OBVIOUS
    <3>3. IndexRemove(D, added({}), {}, doc) # {}
      <4> DEFINE first == added({})
                 none == [verdict |-> "ok", entries |-> Leave(D, first, {}, doc)]
                 failing == {m \in {} : RemoveVerdict(D[m], first[m], doc) # "ok"}
      <4>1. failing = {}
        OBVIOUS
      <4>2. IndexRemove(D, first, {}, doc) =
              IF failing = {} THEN {none}
              ELSE {[verdict |-> RemoveVerdict(D[m], first[m], doc),
                     entries |-> Leave(D, first, done, doc)] :
                      m \in failing, done \in SUBSET ({} \ failing)}
        BY DEF IndexRemove
      <4> HIDE DEF first, failing, none
      <4>3. IndexRemove(D, first, {}, doc) = {none}
        BY <4>1, <4>2
      <4> HIDE DEF none, D
      <4> QED
        BY <4>3 DEF first
    <3> HIDE DEF added, stops
    <3>4. Undone({}) # {}
      BY <3>3
    <3> HIDE DEF Undone
    <3>5. After(n, {}) # {}
      BY <3>4
    <3> HIDE DEF After
    <3>6. UNION {After(m, done) : m \in stops, done \in SUBSET (Names(D) \ stops)} # {}
      BY <3>1, <3>2, <3>5
    <3> QED
      BY <2>1, <2>3, <3>6
  <2> QED
    BY <2>2, <2>3
<1> QED
  BY <1>1 DEF AddRow

\* Until the first tear addRow accepts every document that fits, and no
\* document that does not leave the indexes unique, complete and of one type:
\* no entry a former row left behind makes it refuse one, and no entry but one
\* with a null is missing (collection.go:120-145, indexbtree.go:41-69,
\* indexsyncmap.go:59-118).
THEOREM SpecAdmissionIsExact == Spec => []AdmissionIsExact
<1>1. ASSUME Kept, Intact PROVE AdmissionIsExact
  <2> SUFFICES ASSUME torn = None, NEW r \in Fresh, NEW doc \in Documents
               PROVE  LET accepted == \A o \in AddRow(mem, r, doc) : o.verdict = "ok" IN
                      /\ Fits(doc) => accepted
                      /\ accepted =>
                           Store!Admissible(Store!With(Contents(mem), r, doc), mem.Defs)
    BY DEF AdmissionIsExact
  <2> DEFINE docs == Contents(mem)
  <2>1. /\ Good(mem) /\ Sound(mem) /\ Docs(docs) /\ DOMAIN docs = Live(mem)
        /\ \A n \in Names(mem.Defs) :
             /\ mem.Defs[n] \in Definition
             /\ Indexing(mem.Defs[n], mem.Entries[n], docs)
    BY <1>1, KeptIs, SoundIs DEF Intact, Whole
  <2>2. r \in Row /\ r \notin Live(mem) /\ doc \in Document
    BY <1>1, KeptIs, ReachableIs, InputAssumption DEF Fresh
  <2>3. Store!With(docs, r, doc) = Plus(docs, r, doc)
    BY StoreOperators
  <2>4. \A s \in Live(mem) : docs[s] = mem.heap[s].Payload
    BY <2>1, ContentsAre DEF Good
  <2> HIDE DEF docs
  <2>5. ASSUME \A o \in AddRow(mem, r, doc) : o.verdict = "ok"
        PROVE  Store!Admissible(Plus(docs, r, doc), mem.Defs)
    <3>1. PICK o \in AddRow(mem, r, doc) : o.verdict = "ok"
      BY <2>5, AddRowAnswers
    <3>2. Sound(o.col) /\ o.col.Defs = mem.Defs /\ Contents(o.col) = Plus(docs, r, doc)
      BY <2>1, <2>2, <3>1, AddRowSound DEF docs
    <3> QED
      BY <3>2, SoundIsAdmissible
  <2>6. ASSUME Fits(doc), NEW o \in AddRow(mem, r, doc)
        PROVE  o.verdict = "ok"
    <3>1. ASSUME NEW n \in Names(mem.Defs)
          PROVE  /\ Accepted(mem.Defs[n], doc)
                 /\ \A s \in DOMAIN docs : Compatible(mem.Defs[n], doc, docs[s])
      <4>1. Accepted(mem.Defs[n], doc)
        BY <2>6, StoreAccepts DEF Fits
      <4>2. \A s \in DOMAIN docs :
              Suit(mem.Defs[n], KeysOf(mem.Defs[n], doc), KeysOf(mem.Defs[n], docs[s]))
        BY <2>1, <2>4, <2>6, StoreFits DEF Fits
      <4> QED
        BY <4>1, <4>2 DEF Compatible
    <3>2. \A n \in Names(mem.Defs) : AddVerdict(mem.Defs[n], mem.Entries[n], doc) = "ok"
      BY <2>1, <2>2, <3>1, AcceptsWhatFits
    <3> QED
      BY <2>1, <2>2, <3>2, AddRowSound
  <2> QED
    BY <2>3, <2>5, <2>6 DEF docs
<1> QED
  BY <1>1, SpecKept, SpecIntact, PTL
=============================================================================

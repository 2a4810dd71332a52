---------------------------- MODULE DocumentStore ----------------------------
(***************************************************************************)
(* What a collection promises its callers: a set of documents, unique and  *)
(* complete under every index, changed by one request at a time, and the   *)
(* same after any restart.  There are no positions, no index entries, no   *)
(* journal and no restart here.  Nothing is promised of the keys with a    *)
(* null of a btree that is sparse or has a reversed field: the code may    *)
(* lose those.  The promise ends with the first request that is abandoned  *)
(* half way (intact = FALSE): from then on anything may happen.            *)
(***************************************************************************)
EXTENDS Indexes

VARIABLES docs, defs, intact
vars == <<docs, defs, intact>>

\* What an index with definition def takes.
Accepts(def, doc) ==
  IF Lacks(def, doc) THEN def.sparse
  ELSE def.kind = "btree" \/ IsStrings(Values(def, doc)[1])

\* Two documents with these keys fit into one index.
Fit(def, keys1, keys2) ==
  /\ keys1 \cap keys2 = {}
  /\ def.kind = "btree" => \A v \in keys1, w \in keys2 : Comparable(v, w)

Together(def, doc1, doc2) == Fit(def, FirmKeys(def, doc1), FirmKeys(def, doc2))

Admissible(D, ix) ==
  \A n \in Names(ix) :
    /\ \A r \in DOMAIN D : Accepts(ix[n], D[r])
    /\ \A r, s \in DOMAIN D : r # s => Together(ix[n], D[r], D[s])

With(D, r, doc) == [s \in DOMAIN D \cup {r} |-> IF s = r THEN doc ELSE D[s]]
Without(D, r) == [s \in DOMAIN D \ {r} |-> D[s]]

-----------------------------------------------------------------------------
Init ==
  /\ docs = [r \in {} |-> {}]
  /\ defs = [n \in Name |-> NoIndex]
  /\ intact = TRUE

Insert(r, doc) ==
  /\ r \notin DOMAIN docs
  /\ docs' = With(docs, r, doc)
  /\ Admissible(docs', defs)
  /\ UNCHANGED defs

Remove(r) ==
  /\ docs' = Without(docs, r)
  /\ UNCHANGED defs

Patch(r, doc) ==
  /\ docs' = With(docs, r, doc)
  /\ Admissible(docs', defs)
  /\ UNCHANGED defs

CreateIndex(n, def) ==
  /\ defs[n] = NoIndex
  /\ defs' = [defs EXCEPT ![n] = def]
  /\ Admissible(docs, defs')
  /\ UNCHANGED docs

DropIndex(n) ==
  /\ defs' = [defs EXCEPT ![n] = NoIndex]
  /\ UNCHANGED docs

Request ==
  \/ \E r \in Row, doc \in Document : Insert(r, doc)
  \/ \E r \in DOMAIN docs : Remove(r)
  \/ \E r \in DOMAIN docs, doc \in Document : Patch(r, doc)
  \/ \E n \in Name, def \in Definition : CreateIndex(n, def)
  \/ \E n \in Name : DropIndex(n)

Tear == intact' = FALSE

Next ==
  \/ intact /\ Request /\ UNCHANGED intact
  \/ Tear

Spec == Init /\ [][Next]_vars
=============================================================================

----------------------------- MODULE MergePatch -----------------------------
(***************************************************************************)
(* What a patch does to one document and to its journal, over nested JSON: *)
(* applyMergePatchValue, createMergeDiff and patchByRow of collection.go,  *)
(* and the replay of "patch" commands in OpenCollection.  The collection   *)
(* has no index here (Collection has them, over flat documents).           *)
(*                                                                         *)
(* An object is a function from some of Key to values; every other value   *)
(* is one of Leaf, an array being as opaque to both functions as a string. *)
(* Values are decoded ones: a number is the float64 it decodes to, so two  *)
(* integers above 2^53 may be one scalar, and that any patch of a document *)
(* rewrites such an integer (collection.go:518, 589) does not show here.   *)
(*                                                                         *)
(*   payload    row.Payload, decoded                                       *)
(*   replayed   the payload that the commands in the journal give          *)
(***************************************************************************)
EXTENDS Integers, FiniteSets

CONSTANTS
  Key, Scalar, Array, Null,
  Depth                            \* bound of the levels below a document

Leaf == Scalar \cup Array \cup {Null}

Empty == [k \in {} |-> Null]
Objects(S) == UNION {[D -> S] : D \in SUBSET Key}

\* The leaves, and the objects with at most n levels of objects below them,
\* the empty ones not counted.
Level[n \in 0 .. Depth] == Leaf \cup (IF n = 0 THEN {Empty} ELSE Objects(Level[n - 1]))

\* The values of an instance, and those of them that are objects.
Value == Level[Depth]
Document == Value \ Leaf

ASSUME MergePatchAssumption ==
  /\ Depth \in Nat
  /\ Null \notin Scalar \cup Array
  /\ Leaf \cap Objects(Value) = {}

VARIABLES payload, replayed
vars == <<payload, replayed>>

IsObject(v) == v \notin Leaf
Fields(v) == IF IsObject(v) THEN DOMAIN v ELSE {}
At(v, k) == IF k \in Fields(v) THEN v[k] ELSE Null

-----------------------------------------------------------------------------
\* Recursion is by functions on the values: each step operator has the
\* function as its first argument, and applies it to the fields of a value.

Removes(patch) == {k \in DOMAIN patch : patch[k] = Null}
Sets(patch) == DOMAIN patch \ Removes(patch)
MergedFields(original, patch, sub) ==
  [k \in (Fields(original) \ Removes(patch)) \cup Sets(patch) |->
     IF k \in Sets(patch) THEN sub[k].value ELSE original[k]]

\* Mutant: a value that the document does not have is taken as it is.
MergeTakesNew(merge, original, patch) ==
  IF ~IsObject(patch) THEN [value |-> patch, changed |-> patch # original]
  ELSE LET sub == [k \in Sets(patch) |->
                     IF k \in Fields(original) THEN merge[patch[k]][original[k]]
                     ELSE [value |-> patch[k], changed |-> TRUE]] IN
       [value |-> MergedFields(original, patch, sub),
        changed |-> \/ Removes(patch) \cap Fields(original) # {}
                    \/ \E k \in Sets(patch) : sub[k].changed]

\* Mutant: deleting a field does not count as a change.
MergeMissesDeletions(merge, original, patch) ==
  IF ~IsObject(patch) THEN [value |-> patch, changed |-> patch # original]
  ELSE LET sub == [k \in Sets(patch) |-> merge[patch[k]][At(original, k)]] IN
       [value |-> MergedFields(original, patch, sub),
        changed |-> \E k \in Sets(patch) : k \notin Fields(original) \/ sub[k].changed]

\* applyMergePatchValue: the new value, and whether it is said to be new.
MergeOf(merge, original, patch) ==
  IF ~IsObject(patch) THEN [value |-> patch, changed |-> patch # original]
  ELSE LET sub == [k \in Sets(patch) |-> merge[patch[k]][At(original, k)]] IN
       [value |-> MergedFields(original, patch, sub),
        changed |-> \/ Removes(patch) \cap Fields(original) # {}
                    \/ \E k \in Sets(patch) : k \notin Fields(original) \/ sub[k].changed]

Merging[patch \in Value] == [original \in Value |-> MergeOf(Merging, original, patch)]
Merge(original, patch) == Merging[patch][original]

\* Mutant: the fields that are gone are not in the diff.
DiffOfPresent(diff, original, modified) ==
  IF ~IsObject(original) \/ ~IsObject(modified)
  THEN [diff |-> modified, has |-> original # modified]
  ELSE LET sub == [k \in DOMAIN original \cap DOMAIN modified |->
                     diff[original[k]][modified[k]]]
           edited == {k \in DOMAIN sub : sub[k].has}
           added == DOMAIN modified \ DOMAIN original IN
       [diff |-> [k \in edited \cup added |-> IF k \in edited THEN sub[k].diff ELSE modified[k]],
        has |-> edited \cup added # {}]

\* createMergeDiff: null for what is gone, the diff of what is an object in
\* both, the new value of everything else that differs.
DiffOf(diff, original, modified) ==
  IF ~IsObject(original) \/ ~IsObject(modified)
  THEN [diff |-> modified, has |-> original # modified]
  ELSE LET sub == [k \in DOMAIN original \cap DOMAIN modified |->
                     diff[original[k]][modified[k]]]
           edited == {k \in DOMAIN sub : sub[k].has}
           added == DOMAIN modified \ DOMAIN original
           gone == DOMAIN original \ DOMAIN modified IN
       [diff |-> [k \in edited \cup added \cup gone |->
                    IF k \in gone THEN Null
                    ELSE IF k \in edited THEN sub[k].diff ELSE modified[k]],
        has |-> edited \cup added \cup gone # {}]

Differing[original \in Value] == [modified \in Value |-> DiffOf(Differing, original, modified)]
Diff(original, modified) == Differing[original][modified]

\* The payload after patchByRow: a patch that changes nothing is dropped.
Patched(v, patch) ==
  LET m == Merge(v, patch) IN IF m.changed THEN m.value ELSE v

\* Mutant: the diff of a command may be any value.
ReplayAny(v, diff) == Patched(v, diff)

\* OpenCollection decodes the diff into a map: it stays nil if the diff is no
\* object, and a nil map patches nothing.
Replay(v, diff) == Patched(v, IF IsObject(diff) THEN diff ELSE Empty)

-----------------------------------------------------------------------------
Init == payload \in Document /\ replayed = payload

\* Patch.  Bound: a payload that is no object is not patched again before the
\* next restart (the patches of later objects would be replayed over the old one).
Patch(patch) ==
  LET new == Patched(payload, patch)
      d == Diff(payload, new) IN
  /\ IsObject(payload)
  /\ payload' = new
  /\ replayed' = IF d.has THEN Replay(replayed, d.diff) ELSE replayed

\* The process starts again: the payload is the replayed one.
Restart == payload' = replayed /\ UNCHANGED replayed

Next == Restart \/ \E patch \in Value : Patch(patch)

Spec == Init /\ [][Next]_vars

-----------------------------------------------------------------------------
\* The replayed payload is always a document, whatever values are patched in.
TypeOK == payload \in Value /\ replayed \in Document

\* The merge of RFC 7386, as the RFC writes it.
ReferenceOf(reference, target, patch) ==
  IF ~IsObject(patch) THEN patch
  ELSE LET kept == {k \in Fields(target) \cup DOMAIN patch :
                      IF k \in DOMAIN patch THEN patch[k] # Null ELSE TRUE} IN
       [k \in kept |-> IF k \in DOMAIN patch THEN reference[patch[k]][At(target, k)]
                       ELSE target[k]]
Referring[patch \in Value] == [target \in Value |-> ReferenceOf(Referring, target, patch)]
Reference(target, patch) == Referring[patch][target]

\* applyMergePatchValue computes the merge of RFC 7386, whatever the payload
\* and the patch are.
MergeFollowsTheRFC ==
  \A patch \in Value : Merge(payload, patch).value = Reference(payload, patch)

\* v and w differ only where w has an empty object and v a scalar, array or null.
AlikeOf(alike, v, w) ==
  \/ v = w
  \/ ~IsObject(v) /\ w = Empty
  \/ /\ IsObject(v) /\ IsObject(w) /\ DOMAIN v = DOMAIN w
     /\ \A k \in DOMAIN v : alike[v[k]][w[k]]
Liking[v \in Value] == [w \in Value |-> AlikeOf(Liking, v, w)]
Alike(v, w) == Liking[v][w]

\* A patch is dropped as changing nothing only if it does, or if all it does
\* is to turn values that are no objects into empty objects; and one that is
\* sent again is dropped, with nothing written.
OnlyWhatChangesIsWritten ==
  \A patch \in Value :
    LET new == Patched(payload, patch) IN
    /\ new = payload => Alike(payload, Reference(payload, patch))
    /\ ~Merge(new, patch).changed

\* The diffs in the journal add up to the payload in memory, as long as the
\* document has not been replaced by a value that is no object.
ReplayRestoresPayload == IsObject(payload) => replayed = payload
=============================================================================

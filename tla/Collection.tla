----------------------------- MODULE Collection -----------------------------
(***************************************************************************)
(* One collection (collection/collection.go), used by one caller at a      *)
(* time: every operation of the Go type is one action that does all of     *)
(* the handler, and the journal is carried as the collection that          *)
(* OpenCollection would build from it.                                     *)
(*                                                                         *)
(*   mem    the collection in memory.                                      *)
(*   file   the collection OpenCollection builds from the journal written  *)
(*          so far, or not readable if it would return an error or panic.  *)
(*   torn   the first operation that was answered with an error (or that   *)
(*          panicked) after it had already changed memory; None before.    *)
(*   status whether the file is open, closed, or could not be opened.      *)
(*                                                                         *)
(* Positions are numbered from 1 (row.I from 0 in the code).  Documents    *)
(* are taken after the defaults are filled in, patches are JSON objects    *)
(* over top-level fields.  Go's map order shows as a choice of outcome.    *)
(***************************************************************************)
EXTENDS Indexes

CONSTANTS
  Documents,    \* the documents callers insert
  Patches,      \* the merge patches callers send (a null there is Absent)
  Definitions,  \* the index options callers ask for
  Keep, None

ASSUME InputAssumption ==
  /\ Documents \subseteq Document
  /\ Patches \subseteq [Field -> {Keep} \cup (Value \ {Null})]
  /\ Definitions \subseteq Definition
  /\ \A v \in Value : v # Keep
  /\ None \notin [op: {"insert", "remove", "patch", "index", "drop_index"},
                  verdict: {"refused", "panic"}]

VARIABLES mem, file, torn, status
vars == <<mem, file, torn, status>>

-----------------------------------------------------------------------------
\* The Go structs.  A Row no slice and no index points at is collected.
RowRecord == [I: Nat \ {0}, Payload: Document]
Blank == [I |-> 1, Payload |-> [f \in Field |-> Absent]]

IsCol(c) ==
  /\ c.Rows \in Seq(Row)
  /\ c.heap \in [Row -> RowRecord]
  /\ c.Defs \in [Name -> Definition \cup {NoIndex}]
  /\ \A n \in Name : IsEntryMap(c.Entries[n])

Empty == [Rows |-> << >>, heap |-> [r \in Row |-> Blank],
          Defs |-> [n \in Name |-> NoIndex], Entries |-> [n \in Name |-> NoEntries]]

Live(c) == {c.Rows[k] : k \in DOMAIN c.Rows}
Pointed(c) == UNION {{c.Entries[n][k] : k \in DOMAIN c.Entries[n]} : n \in Name}
Reachable(c) == Live(c) \cup Pointed(c)

Collected(c) ==
  [c EXCEPT !.heap = [r \in Row |-> IF r \in Reachable(c) THEN c.heap[r] ELSE Blank]]

Outcome(v, c) == [verdict |-> v, col |-> c]

-----------------------------------------------------------------------------
\* Mutant: the position is counted from zero.
AddRowFromZero(c, r, doc) ==
  {Outcome(o.verdict,
           IF o.verdict = "ok"
           THEN [c EXCEPT !.Rows = Append(c.Rows, r),
                          !.heap[r] = [I |-> Len(c.Rows), Payload |-> doc],
                          !.Entries = o.entries]
           ELSE [c EXCEPT !.heap[r] = Blank, !.Entries = o.entries]) :
     o \in IndexInsert(c.Defs, c.Entries, r, doc)}

\* addRow: a new row enters the indexes and then the slice.
AddRow(c, r, doc) ==
  LET fresh == [c EXCEPT !.heap[r] = [I |-> 1, Payload |-> doc]] IN
  {Outcome(o.verdict,
           IF o.verdict = "ok"
           THEN [fresh EXCEPT !.Rows = Append(c.Rows, r),
                              !.heap[r] = [I |-> Len(c.Rows) + 1, Payload |-> doc],
                              !.Entries = o.entries]
           ELSE IF o.verdict = "panic" THEN [fresh EXCEPT !.Entries = o.entries]
           ELSE [c EXCEPT !.Entries = o.entries]) :
     o \in IndexInsert(c.Defs, c.Entries, r, doc)}

\* Mutant: the row that moves keeps its old row.I.
SwapOutKeepsI(c, i) ==
  LET last == Len(c.Rows) IN
  [c EXCEPT !.Rows = [k \in 1 .. last - 1 |-> IF k = i THEN c.Rows[last] ELSE c.Rows[k]]]

\* Mutant: the last row is dropped instead of the removed one.
SwapOutDropsLast(c, i) == [c EXCEPT !.Rows = SubSeq(c.Rows, 1, Len(c.Rows) - 1)]

\* removeByRow: free the index entries, move the last row into the hole.
SwapOut(c, i) ==
  LET last == Len(c.Rows) IN
  [c EXCEPT !.Rows = [k \in 1 .. last - 1 |-> IF k = i THEN c.Rows[last] ELSE c.Rows[k]],
            !.heap[c.Rows[last]].I = i]

RemoveByRow(c, r) ==
  LET i == c.heap[r].I IN
  IF Len(c.Rows) < i THEN {Outcome("refused", c)}
  ELSE {LET left == [c EXCEPT !.Entries = o.entries] IN
        Outcome(o.verdict, IF o.verdict = "ok" THEN SwapOut(left, i) ELSE left) :
          o \in IndexRemove(c.Defs, c.Entries, Names(c.Defs), c.heap[r].Payload)}

Merge(doc, patch) == [f \in Field |-> IF patch[f] = Keep THEN doc[f] ELSE patch[f]]
\* Mutant: a removed field is missing from the diff.
DiffOfPresent(doc, new) ==
  [f \in Field |-> IF new[f] = doc[f] \/ new[f] = Absent THEN Keep ELSE new[f]]

Diff(doc, new) == [f \in Field |-> IF new[f] = doc[f] THEN Keep ELSE new[f]]

\* Mutant: the old keys are not taken out of the indexes.
PatchByRowLeavesKeys(c, r, patch) ==
  LET new == Merge(c.heap[r].Payload, patch) IN
  IF new = c.heap[r].Payload THEN {Outcome("unchanged", c)}
  ELSE {Outcome(o.verdict, [c EXCEPT !.heap[r].Payload = new, !.Entries = o.entries]) :
          o \in IndexInsert(c.Defs, c.Entries, r, new)}

\* patchByRow: out of the indexes, the new payload, into the indexes again.
PatchByRow(c, r, patch) ==
  LET old == c.heap[r].Payload
      new == Merge(old, patch)
      Again(left) ==
        {Outcome(o.verdict, [c EXCEPT !.heap[r].Payload = new, !.Entries = o.entries]) :
           o \in IndexInsert(c.Defs, left, r, new)}
  IN IF new = old THEN {Outcome("unchanged", c)}
     ELSE UNION {IF o.verdict = "ok" THEN Again(o.entries)
                 ELSE {Outcome(o.verdict, [c EXCEPT !.Entries = o.entries])} :
                   o \in IndexRemove(c.Defs, c.Entries, Names(c.Defs), old)}

\* createIndex: the entries after the first j rows, all of them accepted;
\* the first row that is not accepted deletes the index, or panics and
\* leaves it half built.
Filled(c, def, j) ==
  LET keys(i) == KeysOf(def, c.heap[c.Rows[i]].Payload) IN
  [k \in UNION {keys(i) : i \in 1 .. j} |-> c.Rows[CHOOSE i \in 1 .. j : k \in keys(i)]]
Stops(c, def, i) == AddVerdict(def, Filled(c, def, i - 1), c.heap[c.Rows[i]].Payload)

CreateIndexIn(c, n, def) ==
  LET With(j) == [c EXCEPT !.Defs[n] = def, !.Entries[n] = Filled(c, def, j)]
      bad == {i \in DOMAIN c.Rows : Stops(c, def, i) # "ok"}
      first == CHOOSE i \in bad : \A j \in bad : i <= j
  IN IF c.Defs[n] # NoIndex THEN Outcome("refused", c)
     ELSE IF bad = {} THEN Outcome("ok", With(Len(c.Rows)))
     ELSE IF Stops(c, def, first) = "panic" THEN Outcome("panic", With(first - 1))
     ELSE Outcome("refused", c)

DropIndexIn(c, n) ==
  IF c.Defs[n] = NoIndex THEN Outcome("refused", c)
  ELSE Outcome("ok", [c EXCEPT !.Defs[n] = NoIndex, !.Entries[n] = NoEntries])

-----------------------------------------------------------------------------
\* The replay loop of OpenCollection, one command: an insert that fails ends
\* the opening, any other error is a warning, a panic ends the process.
Unreadable == [readable |-> FALSE, image |-> Empty]
Readable(c) == [readable |-> TRUE, image |-> Collected(c)]

ReplayInsert(r, doc) ==
  {IF o.verdict = "ok" THEN Readable(o.col) ELSE Unreadable : o \in AddRow(file.image, r, doc)}
ReplayOther(outcomes) ==
  {IF o.verdict = "panic" THEN Unreadable ELSE Readable(o.col) : o \in outcomes}
ReplayRemove(i) ==
  IF i > Len(file.image.Rows) THEN {Unreadable}
  ELSE ReplayOther(RemoveByRow(file.image, file.image.Rows[i]))
ReplayPatch(i, diff) ==
  IF i > Len(file.image.Rows) THEN {Unreadable}
  ELSE ReplayOther(PatchByRow(file.image, file.image.Rows[i], diff))

\* What an operation leaves: memory, the journal if it succeeded, the tear.
Settle(op, o, written) ==
  /\ mem' = Collected(o.col)
  /\ IF o.verdict = "ok" /\ file.readable THEN file' \in written ELSE file' = file
  /\ torn' = IF torn = None /\ o.verdict # "ok" /\ mem' # mem
             THEN [op |-> op, verdict |-> o.verdict] ELSE torn
  /\ UNCHANGED status

-----------------------------------------------------------------------------
Init ==
  /\ mem = Empty
  /\ file = Readable(Empty)
  /\ torn = None
  /\ status = "open"

Fresh == Row \ (Reachable(mem) \cup Reachable(file.image))

Insert(r, doc) ==
  /\ status = "open"
  /\ r \in Fresh
  /\ \E o \in AddRow(mem, r, doc) : Settle("insert", o, ReplayInsert(r, doc))

\* Callers hold the rows a traversal gave them: of the slice or of an index.
Remove(r) ==
  /\ status = "open"
  /\ r \in Reachable(mem)
  /\ \E o \in RemoveByRow(mem, r) :
       Settle("remove", o, ReplayRemove(mem.heap[r].I))

Patch(r, patch) ==
  /\ status = "open"
  /\ r \in Reachable(mem)
  /\ LET old == mem.heap[r].Payload
         diff == Diff(old, Merge(old, patch)) IN
     \E o \in PatchByRow(mem, r, patch) :
       Settle("patch", o, ReplayPatch(mem.heap[r].I, diff))

Index(n, def) ==
  /\ status = "open"
  /\ Settle("index", CreateIndexIn(mem, n, def), ReplayOther({CreateIndexIn(file.image, n, def)}))

DropIndex(n) ==
  /\ status = "open"
  /\ Settle("drop_index", DropIndexIn(mem, n), ReplayOther({DropIndexIn(file.image, n)}))

Close ==
  /\ status = "open"
  /\ status' = "closed"
  /\ UNCHANGED <<mem, file, torn>>

\* OpenCollection in the next run of the program; one that fails is tried
\* again at each start.
Open ==
  /\ status # "open"
  /\ status' = IF file.readable THEN "open" ELSE "failed"
  /\ mem' = file.image
  /\ UNCHANGED <<file, torn>>

Next ==
  \/ \E r \in Row, doc \in Documents : Insert(r, doc)
  \/ \E r \in Row : Remove(r)
  \/ \E r \in Row, patch \in Patches : Patch(r, patch)
  \/ \E n \in Name, def \in Definitions : Index(n, def)
  \/ \E n \in Name : DropIndex(n)
  \/ Close
  \/ Open

Spec == Init /\ [][Next]_vars

-----------------------------------------------------------------------------
\* Every variable has its type; a tear is an error or a panic of an operation.
TypeOK ==
  /\ IsCol(mem)
  /\ file.readable \in BOOLEAN /\ IsCol(file.image)
  /\ torn \in {None} \cup [op: {"insert", "remove", "patch", "index", "drop_index"},
                          verdict: {"refused", "panic"}]
  /\ status \in {"open", "closed", "failed"}

Positioned(c) == \A k \in DOMAIN c.Rows : c.heap[c.Rows[k]].I = k

\* row.I is the position of the row in Rows, in memory and after any replay:
\* removeByRow trusts it without looking at Rows[i].  It survives every tear.
RowsKnowTheirPlace == Positioned(mem) /\ Positioned(file.image)

Matched(c) ==
  \A n \in Name : \A k \in DOMAIN c.Entries[n] :
    /\ c.Defs[n] # NoIndex
    /\ k \in KeysOf(c.Defs[n], c.heap[c.Entries[n][k]].Payload)

\* A row found by an index under a key has that key, whatever was refused,
\* abandoned or rolled back before (IndexSyncMap.Traverse hands it out
\* without looking at the payload).
EntriesMatchTheirRow == Matched(mem) /\ Matched(file.image)

\* An entry leads to a live row that has the key, every live row is in every
\* index under all of its keys that are firm, and none lacks a field.
Exact(c) ==
  \A n \in Names(c.Defs) :
    LET def == c.Defs[n]  doc(r) == c.heap[r].Payload  e == c.Entries[n] IN
    /\ \A k \in DOMAIN e : e[k] \in Live(c) /\ k \in KeysOf(def, doc(e[k]))
    /\ \A r \in Live(c) : \A k \in FirmKeys(def, doc(r)) : k \in DOMAIN e /\ e[k] = r
    /\ \A r \in Live(c) : Lacks(def, doc(r)) => def.sparse

\* As long as no operation was abandoned half way, the indexes are without
\* stale entries, complete and unique, up to entries with a null of a sparse
\* or reversed btree, and no mandatory field is missing.
IndexesAreExact == torn = None => Exact(mem)

\* As long as no operation was abandoned half way, the journal can be read
\* and OpenCollection builds the collection that is in memory: the same rows
\* in the same places, with the same indexes (swap-removal, diff instead of
\* patch, refused operations that leave no command).
ReplayRestoresMemory ==
  torn = None => file.readable /\ (status # "failed" => file.image = mem)

\* What a rollback may lose: entries with a null, and nothing else.
OnlyNullsAreLost ==
  /\ mem'.Rows = mem.Rows /\ mem'.heap = mem.heap /\ mem'.Defs = mem.Defs
  /\ \A n \in Name :
       LET e == mem.Entries[n]
           lost == DOMAIN e \ DOMAIN mem'.Entries[n] IN
       /\ mem'.Entries[n] = Drop(e, lost)
       /\ \A k \in lost : CanLose(mem.Defs[n], k)

\* Without a panic only a patch can start a tear: an insert the last of
\* several indexes refuses is rolled back from the others, where it takes at
\* worst entries with a null along, a refused index is withdrawn, and no
\* remove is refused half way.
OnlyPatchesTear ==
  [][torn = None /\ torn' # None /\ torn'.verdict = "refused" =>
       \/ torn'.op = "patch"
       \/ torn'.op = "insert" /\ OnlyNullsAreLost]_vars

\* Until the first tear the collection implements DocumentStore.
Contents(c) == [r \in Live(c) |-> c.heap[r].Payload]
Store == INSTANCE DocumentStore WITH
           docs <- Contents(mem), defs <- mem.Defs, intact <- (torn = None)
ImplementsStore == Store!Spec

\* Nothing that is in the collection keeps a document out.
Fits(doc) ==
  \A n \in Names(mem.Defs) :
    LET def == mem.Defs[n] IN
    /\ Store!Accepts(def, doc)
    /\ \A r \in Live(mem) :
         Store!Fit(def, KeysOf(def, doc), KeysOf(def, mem.heap[r].Payload))

\* Until the first tear a document is accepted if it fits, and only if it
\* keeps every index unique, complete and of one type: no stale entry causes
\* a conflict and no missing one hides it, unless it is one with a null of a
\* sparse or reversed btree.  (For all other documents the two are the same.)
AdmissionIsExact ==
  torn = None =>
    \A r \in Fresh, doc \in Documents :
      LET accepted == \A o \in AddRow(mem, r, doc) : o.verdict = "ok" IN
      /\ Fits(doc) => accepted
      /\ accepted => Store!Admissible(Store!With(Contents(mem), r, doc), mem.Defs)

\* README.md:44, "the journal is read and applied to recreate the last
\* valid state in memory": the journal of this collection can be read.
JournalIsReadable == file.readable
=============================================================================

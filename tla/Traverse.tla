------------------------------ MODULE Traverse ------------------------------
(***************************************************************************)
(* One request that walks over a collection (find, remove, get) while      *)
(* other handlers insert, remove and patch rows: traverse and its iterator *)
(* (api/apicollectionv1/0_traverse.go) over the slice Rows, an             *)
(* IndexBtree or an IndexSyncMap, with swap-removal under the walk, and    *)
(* findRowByID (getDocument.go), which looks an id up in the IndexSyncMap  *)
(* and then, if it is not there, scans Rows.                               *)
(*                                                                         *)
(* A full scan ranges over the slice header it read first: its array and   *)
(* its length, while removals move cells of that array and appends write   *)
(* behind the new end of Rows, which may still be within the scan.         *)
(* A walk over a btree of up to 63 entries is a loop over the entries of   *)
(* one node (vendor/github.com/google/btree), which a removal in the       *)
(* iterator shifts under it.  Such a walk takes no lock: when another      *)
(* handler changes the btree meanwhile the outcome is undefined, and is    *)
(* left out here (see Others).                                             *)
(*                                                                         *)
(*   array, len  the array under Rows up to its capacity, and len(Rows)    *)
(*   I           row.I of every row, from 1                                *)
(*   indexed     the rows in the indexes; a row is its own key             *)
(*   unborn      rows not inserted yet (each is inserted once)             *)
(*   patching    the row another handler's patch has taken out of the      *)
(*               indexes and not put back yet                              *)
(*   walk        the request and where it is (by: what it walks over now), *)
(*               Idle between requests                                     *)
(*   held        the array a scan goes on with when Rows has moved to a    *)
(*               larger one                                                *)
(*   handed      the rows given to the handler, in this order              *)
(* History, read by the properties only:                                   *)
(*   before      the rows in the collection when the request began         *)
(*   source      the rows it walks over, from that state                   *)
(*   stayed      those of before that were never removed since             *)
(*   inserted, removed   another handler has done so during some request   *)
(***************************************************************************)
EXTENDS Integers, Sequences, FiniteSets

CONSTANTS
  Row,        \* rows; their order is the order of their keys in the btree
  Request,    \* the requests clients send: filter has the rows the filter
              \* matches, fails those on which matching it ends in an error
  NoRow, NoArray, Idle

All == -1     \* the limit of a request that sets a negative one

ASSUME TraverseAssumption ==
  /\ Row \subseteq Nat /\ IsFiniteSet(Row)
  /\ NoRow \notin Row
  /\ Request \subseteq
       [op : {"find", "remove", "get"}, by : {"scan", "btree", "map"}, reverse : BOOLEAN,
        from : Row \cup {NoRow}, to : Row \cup {NoRow},
        filter : SUBSET Row, fails : SUBSET Row, skip : Nat, limit : Nat \cup {All}]
  /\ \A q \in Request : q.op = "get" =>
       q.by = "map" /\ q.filter = {q.from} /\ q.fails = {} /\ q.skip = 0 /\ q.limit = 1
  /\ Idle \notin Request

VARIABLES array, len, I, indexed, unborn, patching, walk, held, handed,
          before, source, stayed, inserted, removed
rows == <<array, len, I, indexed, unborn>>
history == <<before, source, stayed, inserted, removed>>
vars == <<rows, patching, walk, held, handed, history>>

ToSet(s) == {s[k] : k \in DOMAIN s}

\* The entries of the node: rows in the order of their keys.
Sorted(S) ==
  [k \in 1 .. Cardinality(S) |->
     CHOOSE r \in S : Cardinality({x \in S : x < r}) = k - 1]

Reversed(s) == [k \in 1 .. Len(s) |-> s[Len(s) + 1 - k]]

Contents == {array[k] : k \in 1 .. len}

-----------------------------------------------------------------------------
(***************************************************************************)
(* What a request asks for, without the code's loops: the rows in Rows, or *)
(* the keys from <= k < to upwards or from < k <= to downwards, or the row *)
(* of a key; of those before the first on which the filter ends in an      *)
(* error the ones it matches, without the first skip and at most limit of  *)
(* them.                                                                   *)
(***************************************************************************)
InRange(q, r) ==
  IF q.reverse THEN (q.from = NoRow \/ q.from < r) /\ (q.to = NoRow \/ r <= q.to)
               ELSE (q.from = NoRow \/ q.from <= r) /\ (q.to = NoRow \/ r < q.to)

Source(q) ==
  CASE q.by = "scan" \/ q.op = "get" -> SubSeq(array, 1, len)
    [] q.by = "map" /\ q.op # "get" -> IF q.from \in indexed THEN <<q.from>> ELSE << >>
    [] q.by = "btree" ->
         LET range == Sorted({r \in indexed : InRange(q, r)})
         IN IF q.reverse THEN Reversed(range) ELSE range

\* The rows among the first k of s that a filter matches.
Matching(s, filter) ==
  LET m[k \in 0 .. Len(s)] ==
        IF k = 0 THEN << >>
        ELSE IF s[k] \in filter THEN Append(m[k - 1], s[k]) ELSE m[k - 1]
  IN m

\* How many rows of s come before the first on which a filter ends in an error.
Readable(s, fails) ==
  CHOOSE k \in 0 .. Len(s) :
    /\ \A i \in 1 .. k : s[i] \notin fails
    /\ k < Len(s) => s[k + 1] \in fails

AskedFor(q, s) ==
  LET rest == Matching(s, q.filter)[Readable(s, q.fails)]
      last == IF q.limit = All \/ q.skip + q.limit > Len(rest)
              THEN Len(rest) ELSE q.skip + q.limit
  IN SubSeq(rest, q.skip + 1, last)

-----------------------------------------------------------------------------
Init ==
  /\ array = << >>
  /\ len = 0
  /\ I = [r \in Row |-> 0]
  /\ indexed = {}
  /\ unborn = Row
  /\ patching = NoRow
  /\ walk = Idle
  /\ held = NoArray
  /\ handed = << >>
  /\ before = {} /\ source = << >> /\ stayed = {}
  /\ inserted = FALSE /\ removed = FALSE

Walking == walk # Idle

\* Other handlers run between any two steps of a scan or a get; of a walk over
\* an index only those that leave the index alone, which change no row here.
Others == Walking => walk.by = "scan" \/ walk.request.op = "get"

-----------------------------------------------------------------------------
\* append: behind the last row, in a larger array when there is no room.
Insert(r) ==
  /\ Others /\ r \in unborn
  /\ IF len < Len(array)
     THEN array' = [array EXCEPT ![len + 1] = r] /\ UNCHANGED held
     ELSE /\ array' = [k \in 1 .. (IF len = 0 THEN 1 ELSE 2 * len) |->
                         CASE k <= len -> array[k] [] k = len + 1 -> r [] OTHER -> NoRow]
          /\ held' = IF Walking /\ held = NoArray THEN array ELSE held
  /\ len' = len + 1
  /\ I' = [I EXCEPT ![r] = len + 1]
  /\ indexed' = indexed \cup {r}
  /\ unborn' = unborn \ {r}
  /\ inserted' = (inserted \/ Walking)
  /\ UNCHANGED <<patching, walk, handed, before, source, stayed, removed>>

\* The last row takes the place of the removed one; its old cell stays as it is.
SwapOut(r) ==
  /\ array' = [array EXCEPT ![I[r]] = array[len]]
  /\ I' = [I EXCEPT ![array[len]] = I[r]]
  /\ len' = len - 1

\* removeByRow under rowsMutex: it removes whatever row is at r.I.
RemoveByRow(r) ==
  /\ I[r] <= len
  /\ indexed' = indexed \ {r}
  /\ SwapOut(r)
  /\ stayed' = stayed \ {array[I[r]]}
  /\ UNCHANGED unborn

\* Another handler removes a row of the collection (one that is not being
\* patched: ConcurrentCollection has that race).
Remove(r) ==
  /\ Others /\ r \in Contents \ {patching}
  /\ RemoveByRow(r)
  /\ removed' = (removed \/ Walking)
  /\ UNCHANGED <<patching, walk, held, handed, before, source, inserted>>

Getting == Walking /\ walk.request.op = "get"

\* Under a get another handler's patchByRow takes a row out of the indexes ...
Unindex(r) ==
  /\ Getting /\ patching = NoRow /\ r \in Contents
  /\ indexed' = indexed \ {r}
  /\ patching' = r
  /\ UNCHANGED <<array, len, I, unborn, walk, held, handed, history>>

\* ... and puts it back, under the same key.
Reindex ==
  /\ patching # NoRow
  /\ indexed' = indexed \cup {patching}
  /\ patching' = NoRow
  /\ UNCHANGED <<array, len, I, unborn, walk, held, handed, history>>

-----------------------------------------------------------------------------
Below(bound) == Cardinality({r \in indexed : r < bound})
UpTo(bound) == Cardinality({r \in indexed : r <= bound})

\* The place a walk starts at: the first cell of the slice header, the first
\* entry not below from, or the last entry not above to.
First(q) ==
  IF q.by = "btree" /\ q.reverse
  THEN IF q.to = NoRow THEN Cardinality(indexed) ELSE UpTo(q.to)
  ELSE IF q.by = "btree" /\ q.from # NoRow THEN 1 + Below(q.from) ELSE 1

\* traverse: options are read, the index is looked up, the loop begins.
Start(q) ==
  /\ walk = Idle
  /\ patching = NoRow \/ q.op = "get"
  /\ walk' = [request |-> q, by |-> q.by, at |-> First(q),
              bound |-> CASE q.by = "scan" -> len
                          [] q.by = "map" -> IF q.from \in indexed THEN 1 ELSE 0
                          [] q.by = "btree" -> 0,
              skip |-> q.skip, limit |-> q.limit]
  /\ held' = NoArray
  /\ handed' = << >>
  /\ before' = Contents /\ source' = Source(q) /\ stayed' = Contents
  /\ UNCHANGED <<rows, patching, inserted, removed>>

\* Mutant: the loop runs to the length Rows has now.
ScannedLive ==
  IF walk.at > len THEN NoRow ELSE array[walk.at]

\* for _, row := range c.Rows; NoRow when the loop is over.
Scanned ==
  IF walk.at > walk.bound THEN NoRow
  ELSE IF held = NoArray THEN array[walk.at] ELSE held[walk.at]

\* iterate, with its stop conditions.
Entry ==
  LET q == walk.request
  IN IF walk.at \notin 1 .. Cardinality(indexed) THEN NoRow
     ELSE LET r == Sorted(indexed)[walk.at]
          IN IF \/ ~q.reverse /\ q.to # NoRow /\ ~(r < q.to)
                \/ q.reverse /\ q.from # NoRow /\ ~(q.from < r)
             THEN NoRow ELSE r

\* Entries.Load, handed to the iterator once.
Loaded == IF walk.at > walk.bound THEN NoRow ELSE walk.request.from

Current ==
  CASE walk.by = "scan" -> Scanned
    [] walk.by = "btree" -> Entry
    [] walk.by = "map" -> Loaded

Advanced ==
  IF walk.by = "btree" /\ walk.request.reverse THEN walk.at - 1 ELSE walk.at + 1

-----------------------------------------------------------------------------
\* Mutant: an id the index does not have is not looked for in Rows.
MissesNever == FALSE

\* findRowByID: the id is not in the map index (found is nil) ...
Misses == Getting /\ walk.by = "map" /\ walk.limit # 0 /\ Current = NoRow

\* ... so Rows is scanned for it.
FallThrough ==
  /\ Misses
  /\ walk' = [walk EXCEPT !.by = "scan", !.at = 1, !.bound = len]
  /\ held' = NoArray
  /\ UNCHANGED <<rows, patching, handed, history>>

\* The rows are read, or the iterator stops: at its limit, or with an error of
\* the filter, which nobody is told of.
Over ==
  /\ Walking /\ ~Misses
  /\ Current = NoRow \/ walk.limit = 0 \/ Current \in walk.request.fails
Looping == Walking /\ ~Misses /\ ~Over

\* The request is answered.
Finish ==
  /\ Over
  /\ walk' = Idle
  /\ held' = NoArray
  /\ handed' = << >>
  /\ before' = {} /\ source' = << >> /\ stayed' = {}
  /\ UNCHANGED <<rows, patching, inserted, removed>>

\* The filter does not match.
Pass ==
  /\ Looping
  /\ Current \notin walk.request.filter
  /\ walk' = [walk EXCEPT !.at = Advanced]
  /\ UNCHANGED <<rows, patching, held, handed, history>>

\* Mutant: skip-- without its condition.
SkipAlways ==
  /\ Looping
  /\ Current \in walk.request.filter
  /\ walk' = [walk EXCEPT !.at = Advanced, !.skip = @ - 1]
  /\ UNCHANGED <<rows, patching, held, handed, history>>

Skip ==
  /\ Looping
  /\ Current \in walk.request.filter /\ walk.skip > 0
  /\ walk' = [walk EXCEPT !.at = Advanced, !.skip = @ - 1]
  /\ UNCHANGED <<rows, patching, held, handed, history>>

\* limit-- and f(r); a negative limit is never reached.
Chosen ==
  /\ Looping
  /\ Current \in walk.request.filter /\ walk.skip = 0

Left == IF walk.limit = All THEN All ELSE walk.limit - 1

\* find writes the row; get takes it.
Find ==
  /\ Chosen /\ walk.request.op \in {"find", "get"}
  /\ handed' = Append(handed, Current)
  /\ walk' = [walk EXCEPT !.at = Advanced, !.limit = Left]
  /\ UNCHANGED <<rows, patching, held, history>>

\* remove removes the row and writes it.
RemoveCurrent ==
  /\ Chosen /\ walk.request.op = "remove"
  /\ RemoveByRow(Current)
  /\ handed' = Append(handed, Current)
  /\ walk' = [walk EXCEPT !.at = Advanced, !.limit = Left]
  /\ UNCHANGED <<patching, held, before, source, inserted, removed>>

\* "row does not exist": remove stops and answers with the error.
RemoveFails ==
  /\ Chosen /\ walk.request.op = "remove"
  /\ I[Current] > len
  /\ walk' = [walk EXCEPT !.limit = 0]
  /\ UNCHANGED <<rows, patching, held, handed, history>>

Step == FallThrough \/ Finish \/ Pass \/ Skip \/ Find \/ RemoveCurrent \/ RemoveFails

Next ==
  \/ \E r \in Row : Insert(r) \/ Remove(r) \/ Unindex(r)
  \/ Reindex
  \/ \E q \in Request : Start(q)
  \/ Step

Spec == Init /\ [][Next]_vars

-----------------------------------------------------------------------------
Cells == Seq(Row \cup {NoRow})

TypeOK ==
  /\ array \in Cells /\ len \in 0 .. Len(array)
  /\ I \in [Row -> Nat]
  /\ Contents \subseteq Row /\ indexed \subseteq Row /\ unborn \subseteq Row
  /\ Contents \cap unborn = {}
  /\ patching \in Row \cup {NoRow}
  /\ held \in Cells \cup {NoArray}
  /\ handed \in Seq(Row)
  /\ walk # Idle =>
       /\ walk.request \in Request
       /\ walk.skip \in 0 .. walk.request.skip
       /\ walk.limit \in Nat \cup {All}

\* No handler has interfered with another one's request.
Alone == ~inserted /\ ~removed

\* The removals that a walk upwards over a btree makes under itself.
Ascending(q) == q.op = "remove" /\ q.by = "btree" /\ ~q.reverse

\* A request no other handler interferes with hands out exactly what it asks
\* for, in this order, also when it removes what it walks over: swap-removal
\* puts into the cells of the range loop, and leaves behind its end, just the
\* rows it has still to see.  And it removes those and nothing else.
\* Removing upwards through a btree is left out.
HandsOutWhatIsAsked ==
  Over /\ Alone =>
    /\ Ascending(walk.request) \/ handed = AskedFor(walk.request, source)
    /\ Contents = IF walk.request.op = "remove" THEN before \ ToSet(handed) ELSE before

\* Other handlers may remove rows under a scan without limit, and patch and
\* remove rows under a get: a row that stays in the collection is not missed,
\* wherever it is moved to and also while a patch has taken it out of the
\* index, unless the scan stops before its end, because a removal or the
\* filter fails.
NothingThatStaysIsMissed ==
  /\ Over /\ ~inserted
  /\ \/ walk.request.op = "get"
     \/ walk.by = "scan" /\ Current = NoRow /\ walk.limit = All /\ walk.request.skip = 0
  => stayed \cap walk.request.filter \subseteq ToSet(handed)
=============================================================================

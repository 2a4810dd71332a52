# InceptionDB in TLA+

InceptionDB is a JSON document database in one Go process.  Every collection
lives in memory as a slice of rows with its indexes, and every change is
appended to a journal file that is replayed at the next start.  This directory
holds TLA+ models of that core, the TLC configurations that check them, and
TLAPS proofs of their most important invariants.

    tlc -workers 2 -config MCJournal.cfg MCJournal      (any run below)
    tlapm JournalProofs.tla                             (any proof module)

- [The system](#the-system): components, state, operations, what is hard
- [The modules](#the-modules): which one models what, and how
- [The runs](#the-runs): what each shows, its bounds, fairness
- [Where the code and its documents disagree](#where-the-code-and-its-documents-disagree)
- [The proofs](#the-proofs)
- [What is not modelled](#what-is-not-modelled), [The plan](#the-plan)

## The system

Paths are under `src/`.  HTTP requests enter through `api/`, every one on a
goroutine of its own; nothing but the locks named below keeps them apart.

| component | state | operations | correct when |
|---|---|---|---|
| **Collection** `collection/collection.go` | `Rows []*Row` (each `Row` has its position `I`, a `Payload`, a `PatchMutex`), `Indexes`, `Defaults`, `Count`, `rowsMutex`, `encoderMutex`, the journal file and its buffer | `Insert`, `Remove`, `Patch`, `Index`, `DropIndex`, `SetDefaults`, `Close`, `OpenCollection` (replay) | rows know their position; indexes lead to the live rows that have the key; replay builds what was in memory; a request is refused exactly when an index would break |
| **Indexes** `indexsyncmap.go`, `indexbtree.go` | a `sync.Map` from string to row; a btree of rows ordered by field values | `AddRow`, `RemoveRow`, `Traverse`; `indexInsert` and `indexRemove` over all of them | an entry leads to a row that has the key; a refused insert leaves no entry behind |
| **Handlers** `api/apicollectionv1/` | the request; a local copy of what it read | `insert`, `remove`, `patch`, `find` and the index and collection requests | answered requests took effect once, on the document they name; all are answered |
| **Index requests** `createIndex.go`, `dropIndex.go`, `Collection.Index`, `DropIndex` | the map `Indexes`, the place in the slice that is filled in | publish the empty index, fill it, withdraw it if a row is refused, journal it; delete and journal | a built index has every row and no other; the journal has the indexes memory has |
| **Traversal** `0_traverse.go`, `getDocument.go` | the place in `Rows` or in an index, skip, limit | hand row after row to `find`, `remove` or `patch`; look one document up | the rows handed out are the rows asked for; a document that is there is found |
| **Journal** `EncodeCommand`, the tick goroutine and `Close` in `collection.go` | a `bufio.Writer` of 512 KiB, two counters, the file | write a command; flush every ten seconds if the counters differ; flush and close | the file is what was written, in order, up to a point; nothing acknowledged is lost by a clean stop |
| **Merge patch** `applyMergePatchValue`, `createMergeDiff` | none | merge a patch into a payload; compute the diff that is journaled | the merge is the one of RFC 7386; diffs add up to the payload |
| **Database, service, bootstrap** `database/`, `service/`, `bootstrap/` | `Collections` (a map without a lock), the status, the directory | `Load`, `Start`, `Stop`, `CreateCollection`, `DropCollection`, signals, exit | the map is the directory; what was stored is served after a restart; a signal ends the process |
| **Defaults** `setDefaults.go`, `createCollection.go`, `Insert` | the live map `col.Defaults`, `Count` | decode into the map, clean, publish, journal; number and fill in a document | changes one after another add up, also after a restart; a document is filled in by one whole set of defaults; numbers differ |

How they interact: a handler asks the service for the collection (a look-up in
the shared map, or `CreateCollection`), then calls the collection directly or
through `traverse`, which calls back into the handler for every row.  The
collection calls its indexes one by one in Go's map order, then `EncodeCommand`.
The tick goroutine and `Stop` meet the handlers at the buffer and at the map.

What is hard here:

- *Nothing is undone.*  `Patch` takes the row out of the indexes and replaces
  the payload before it knows that the indexes accept it; `indexRemove` stops
  half way; `AddRow` may panic and the HTTP layer recovers.
- *Positions.*  Removal moves the last row into the hole, and the journal names
  rows by position, so everything depends on every swap being repeated exactly.
- *Locks cover parts.*  `rowsMutex` covers the append and the removal, not the
  index look-up before an append nor the journal write after it.  `PatchMutex`
  covers a filtered patch, not a removal.  `encoderMutex` covers `Write`, not
  `Flush`.  The map of collections has no lock at all.
- *Walking over what one changes.*  `remove` deletes rows inside the loop over
  `Rows` or over the btree.
- *A map that is read while a request is decoded into it* (`Defaults`).
- *An index that is visible before it is filled*, and filled under no lock.
- *A crash at any moment*, with half a command in the file because the buffer
  spilled.

## The modules

A definition is translated from the lines that `PROJECT.json` names under
`map`; mutated definitions ("Mutant:") stand before the definition they mutate.

| module | models | kind |
|---|---|---|
| `Indexes` | both kinds of index as functions over documents, a btree over any fields upwards or downwards: verdict and effect of `AddRow`, `RemoveRow`, `indexInsert`, `indexRemove` | operators |
| `Collection` (extends `Indexes`) | one collection with one caller: each operation of the Go type is one action, the journal is carried as the collection its replay builds | state machine |
| `DocumentStore` | what a collection promises: a set of documents, unique under every key that an index cannot lose | abstract specification, implemented by `Collection` |
| `ConcurrentCollection` | insert, remove and filtered patch of several handlers, step by step between the locks | state machine |
| `IndexBuild` | createIndex and dropIndex step by step, between inserts and removals of other handlers | state machine |
| `Traverse` | one request that walks over rows or an index or looks an id up, and others that insert, remove and patch meanwhile | state machine |
| `Journal` | the way of a command through buffer, tick, `Close`, crash and restart | state machine |
| `Database` | the registry of collections, load, requests, stop, crash and restart | state machine |
| `Defaults` | the map of defaults under requests that change it and inserts that read it, auto numbers, restarts | state machine |
| `MergePatch` | merge, diff, one patch, and replay over nested JSON | recursive functions, state machine |
| `CollectionProofs`, `ConcurrentCollectionProofs`, `IndexBuildProofs`, `JournalProofs`, `DatabaseProofs`, `DefaultsProofs`, `MergePatchProofs`, `TraverseProofs` | theorems about the module they extend | proofs |
| `MC...` | constants for TLC | |

**Indexes and Collection.**  A document is a function from fields to values,
and a value is absent, null, a number, a set of strings (a string or an array of
strings: the strings an `IndexSyncMap` would file it under), or an array that is
not all strings, of which the model keeps the strings before the first other
element (`Leading`).  That is all the indexes tell apart.  `AddVerdict` and
`RemoveVerdict` say for each index and value whether the code accepts, refuses
or panics; `IndexInsert` gives the outcomes of the loop over the map of indexes
in every order, with the deferred rollback, which does nothing after a panic.  A
panic of `RemoveRow` over a map index comes after the leading strings are deleted
(`FreedKeys`).  A definition is a list of fields, each upwards or downwards; the
key of a btree is the tuple of their values, and `Comparable` says when the less
function returns.  The order itself is left to `Traverse`.

`RemoveRow` of a btree looks nil up for every field that is missing or reversed
(`Looked`), and deletes what it finds, whose ever it is.  So a removal, a patch
or the rollback of an insert of a document that a sparse btree left out takes
away the entry of a document whose field is null, without an error.  `CanLose`
names these keys: a tuple with a null, in a btree that is sparse or has a
reversed field.  All other keys of a document are its firm keys (`FirmKeys`): the
exactness of the indexes, admission, and the promise of `DocumentStore` are
about these, and what the code does with the others is in the model and in the
run `collection_null`.

In `Collection` the variable `mem` is the Go value, `file` is what
`OpenCollection` would build from the journal written so far (or unreadable), so
a restart is `mem' = file.image`; `torn` remembers the first operation that was
abandoned half way.  `Settle` is the tail that all operations share: the command
is written when, and only when, memory was changed without an error.

**ConcurrentCollection.**  A handler takes the steps the code takes between two
accesses to shared state, e.g. `StartInsert` (look the key up), `InsertStore`
(store it), `InsertAppend` (append under `rowsMutex`), `InsertEncode` (journal).
`pc` is the step, `row` and `at` are the local variables.  Removals and patches
get their row from a traversal, which hands out the rows of the slice and those
of the index (`HandedOut`): an inserted row is in the index before it is in the
slice.  A patch claims a free document or frees one, as the client in
`cmd/bench/test_patch.go` does.

**IndexBuild.**  There is one index name and every index object that
`createIndex` makes is told apart, so that a handler can hold one that is no
longer registered.  `Publish` puts the empty object into the map `Indexes`,
`Header` is the slice header `range` takes; `ReadCell`, `AddCell` and `StoreCell`
are one turn of its loop.  Inserts and removals of other handlers run between any
two of them and move cells of the slice under the fill (`AppendInPlace`,
`AppendElsewhere`, `RemoveSwap`).  `AddRow` is two steps, of an insert
(`InsertEnter`, `InsertStore`) as of a fill: Load and Store of the `sync.Map`.
A removal takes its row from the slice (`StartRemove`) or from the index
(`StartFind`, `Find`), and any number of handlers remove at once.  `disk` is what
replay makes of the journal.  Patches are left to `ConcurrentCollection`.

**Traverse.**  A full scan holds the array and the length that Rows had at its
beginning; removals move cells of that array, an append may write behind the new
end, or leave for a larger array.  A walk over a btree is the loop of
`google/btree` over the entries of one node (up to 63), which a removal shifts
under it.  `find` also stands for a patch that leaves the indexed fields alone. A
row on which the filter ends in an error (`fails`) ends the walk, and the
request is answered with what it had until then.  A get is a look-up in the map
index that goes on with a scan when it finds nothing (`FallThrough`); under it
another handler's patch takes a row out of the index and puts it back
(`Unindex`, `Reindex`).

**Journal.**  A command is a run of units; buffer and file are sequences of
units; `Decodes` says that a file is made of whole commands.  Each caller of
`Flush` takes two steps (write to the file, set `b.n`), and a `Write` in between
is a data race whose outcomes are both left open; `raced` remembers it.  A write
to the file that fails may have written any part of its bytes before
(`Spill`, `Buffered`, `Fails`).  Of the requests only inserts look at `c.file`
first (`Inserts`).

**Database.**  A collection is a set of documents with a buffer, a file a set
of documents.  The steps are those between two accesses to the map, to the
directory or to a file.  The Go runtime ends the process when it sees two
unlocked accesses to a map, and a second signal closes a closed channel: both
are outcomes of `Crash`.  `Stop` ranges over the map (`StopOne`): it comes to each
entry that stays in it; one that is added meanwhile, also under a name it has
visited, may be visited or not.

**Defaults.**  Maps are objects that the collection and the handlers point at,
as in Go: `StartSet` takes a pointer to the live map, or a new map if there is
none, and every field of the request is stored, and every null deleted, in a
step of its own; then come `Publish`, `Marshal` and `Encode`.  A body that is
JSON null makes the map nil (`StartClear`).  The command waits in the buffer
until `Flush`, and a restart finds the last one that is in the file
(`durable`).  An insert takes its number, then a pointer to the map of that
moment, and looks at its fields in any order.  A default is `auto()` or any other
value; a document is what each field has: given, null, absent, a default, a
number.  Requests that create the collection first (`insert`, `setDefaults`, the
index requests) are a `Create` followed by the request.

**MergePatch.**  An object is a function from some keys to values, everything
else is a leaf.  `Merge` and `Diff` are translated from the Go code, with its
`changed` result; `Reference` is the text of RFC 7386.  Each is a recursive
function on the values, made of one step (`MergeOf`, `DiffOf`) that applies the
function to the fields.  `Depth`, any natural number, bounds how deep values nest.
Values are decoded ones.  Go decodes every number into a float64
(collection.go:518, 589), so an integer above 2^53, such as a `unixnano()`
default, is rewritten by any patch of its document; that is below what the model
tells apart.  A payload that a patch has made no object of is not patched again
before the restart (the guard `IsObject` of `Patch`, a bound and not a check of
the code): replay would apply a later patch to the object before it.

### History variables and conditions

Some guarantees hold only until the code has given them up, and the models say
when: `torn` (an operation abandoned half way), `raced` and `lagged` (Journal),
`stray` (ConcurrentCollection: a removal went through for a row that is not in
`Rows`, because another removal took it out or because the index handed it out
before it was appended) and `moved` (an insert or a removal was started),
`crossed` (two requests change the registry under one name at once, or the
defaults of one collection), `mixed` (an insert overlapped with a change of the
defaults), `inserted` and `removed` (Traverse: other handlers have), `marred`
(IndexBuild: indexes published while an insert or a removal was between two
steps, whose fill met a removal, to which two AddRows of one key were added at
once, or that were there when a removal took a row that is not in `Rows`) and
`apart` (inserts have run alone, removals one after another, requests about the
index one after another, no fill has met a removal, and no removal took a row
that is not in `Rows`).  They are written by the actions and read by the
properties only.  Every run starts with them unset, and each is set by few and
named steps of the code.

## The runs

| run | question | size |
|---|---|---|
| `collection_clean` | Does a collection implement `DocumentStore` as long as nothing is abandoned half way? `IndexesAreExact`, `ReplayRestoresMemory`, `AdmissionIsExact`, `ImplementsStore`; `OnlyPatchesTear`: which operations change memory and then answer with an error? | 3 rows, 2 index names, 5 documents, 4 patches, 5 index definitions, one over both fields, one downwards; 20,270 states |
| `collection_torn` | What survives refused patches, panics and restarts after them? `RowsKnowTheirPlace`, `EntriesMatchTheirRow`, and the types | 2 rows, 2 index names, 4 documents, 3 index definitions, no constraint; 438,006 states |
| `concurrent` | Two handlers step by step: `RowsKnowTheirPlace`, `ClaimedOnce`, `PatchesAreReplayed`, `RowsLeaveByTheirOwnRemoval` | 2 workers, 3 rows with 2 keys, 2 loaded; 3,374,941 states |
| `concurrent_answers` | `RequestsAreAnswered`: can a handler be stuck? | 2 workers of every kind, 2 rows of one key, 1 loaded; 56,929 states |
| `traverse` | Does a walk hand out, and remove, exactly what was asked for (`HandsOutWhatIsAsked`), and what can a scan or a look-up rely on when others remove and patch (`NothingThatStaysIsMissed`)? | 4 rows, filters, one that fails on a row too, skip 0 and 1, limit -1, 0 and 2, all eight kinds of btree walk, gets; 6,873,393 states |
| `index_build` | `NothingIsMissing`, `EntriesAreLive`: is an index exact that was built while others insert and remove? `JournalFollows`: does the journal have it? | 3 workers (one inserts and removes, one removes, one changes the index), 3 rows with 2 keys, 3 index objects; 3,540,540 states up to symmetry |
| `index_overlap` | `NothingIsMissing`, `EntriesAreLive`: also when inserts of one key, and requests about the index, run at once? | 3 workers, two of them of each kind, 2 rows of one key, 3 index objects; 1,308,811 states up to symmetry |
| `journal` | `FileIsPrefix`, `NothingIsLost`, `CloseKeepsWhatIsDue`, `UnlaggedWritesReachTheFile` | 2 writers, commands of 2, 5 and 2 units, two of them inserts, a buffer of 3; 425,904 states |
| `database` | `RegisteredIsOpen`, `RegistryMirrorsDirectory`, `AckedIsServed`, `StopKeepsWhatIsDue`, `StopEndsTheProcess` | 2 handlers, 1 name, 2 documents, 2 inodes, 2 objects; 573,302 states |
| `defaults` | `DefaultsAddUp`, `InsertsAreFilledIn` | 2 handlers, 2 fields, 3 maps, 3 bodies and null, 2 documents, one insert of each process; 4,125,883 states up to symmetry |
| `defaults_numbers` | `NumbersDiffer` | the same, with 2 bodies that number or do not, and 3 inserts of each process; 911,488 states up to symmetry |
| `mergepatch` | `MergeFollowsTheRFC`, `OnlyWhatChangesIsWritten`, `ReplayRestoresPayload` | 2 keys, 3 leaves, three levels, every pair of document and patch; 3,364 states |
| `collection_unreadable`, `collection_null`, `concurrent_unique`, `concurrent_removed`, `concurrent_early`, `concurrent_order`, `concurrent_position` | one documented claim each, which the code does not keep | |

Why the bounds are enough.  *collection*: three rows are the fewest with a
removal that moves a row over another one, and a second removal that hits the
moved row; two names are the fewest for a rollback and a half-done removal.  The
documents meet in an index, in two or in none, leave a field out or have a null
there, and hold a value no map index takes; one btree is over two fields, and in
`collection_torn` the second of them downwards.  A sparse btree over both fields,
a document with a null and one that is left out are what takes a null entry
away. `collection_clean` checks every state up to and including the first tear
and does not go on from there (`BeforeTheFirstTear`): its properties claim
nothing afterwards, and `collection_torn`, without the constraint, is about what
follows.  Rows are symmetric.  *concurrent*: two removals and one insert are
enough for a stale `row.I` to hit another row, and two keys over three rows for
a conflict.  One worker inserts and both remove and patch, every row being handed
out by the slice or the index; `concurrent_answers`, which needs no more than a
conflict and a wait for each lock, and `concurrent_unique` let both
insert.  *traverse*: with four rows a removal moves a row across the position of
the scan in every way, the array grows three times while a scan may hold the old
one, and the bounds of a btree walk have entries on both sides.  Rows are
inserted in any order. *index_build*: two rows of one key make a fill be
refused, the third has the other key, and three rows give a removal every place
before, at and behind the cell the fill has reached; two removers journal in
either order. *index_overlap* has what two inserts of one key, and two requests
about the index, do to each other, which needs two rows of one key only.  Three
index objects are one that is registered, one that is being filled and one an
insert still holds; an object nobody points at is used again, and what it holds
is left out of the state (`Relevant`).  *journal*: the small commands together
spill the buffer in the middle of a command, the large one passes it, and a
spill can end at every unit.  *database*: names do not interact, the map and the
directory are used entry by entry; two inodes and two objects allow a dropped
and a re-created collection of one name, or one file opened twice.  *defaults*:
with two fields a map can be half changed; the bodies set one field, clear it
and number the other, and clear that, and null clears both; three maps are one
for the collection, one for the other handler and a new one.  What an insert
stores depends on no other insert, so one of each process is enough for
`InsertsAreFilledIn`; that numbers differ needs a third insert while two are
under way or done, and no more of the defaults than whether they number
(*defaults_numbers*).  Handlers and maps are symmetric, and what a map holds that
nothing points at is left out of the state (`View`).  *mergepatch*: neither
function looks across keys, and both recurse on one value of a key at a time;
three levels reach each branch of the recursion below an object that is new,
kept, removed or replaced.  A payload that is no object is not patched again
before the restart.

Every run checks for deadlock.

### Fairness

- `Journal`: weak fairness of every writer, of the ticker (a `time.Ticker` that
  fires again and again) and of `Close`.  Once enabled these steps stay enabled.
  Nothing forces a new request, `Close`, a crash or a restart to happen.
- `ConcurrentCollection`: strong fairness of the steps of a started request.  A
  step that waits for a mutex is enabled again and again; `sync.Mutex` hands the
  lock to a waiter that has starved for a millisecond, which is what strong
  fairness says.  Requests themselves are never forced.
- `Database`: weak fairness of `Load`, of the end of `Stop`, of its visit to each
  entry, and of every handler's steps: a range over a map comes to every entry
  that stays in it, and ends.  Signals, crashes, starts and requests are never
  forced; I/O ends.

## Where the code and its documents disagree

Each is a run whose one property is the documented claim, and TLC's shortest
counterexample shows the steps.

- `JournalIsReadable` (README.md:44): a patch refused by an index leaves the
  document in no index, with its new payload in memory only.  Its old key can be
  inserted again, and then the journal has two inserts of one key, which
  `OpenCollection` refuses: the database does not start.
- `IndexIsUnique` (collection.go:351): two inserts of one key both look it up
  before either stores it; both are accepted.
- `OnlyRequestedRemovals` (README.md:13): two requests remove one document; the
  second removes the document that was moved into its place
  (`concurrent_removed`).  And a removal that finds a document by an index before
  it is appended, with `row.I` still 0, removes the first document of the
  collection (`concurrent_early`).
- `JournalRecreatesMemory` (README.md:44): journal entries are written after
  `rowsMutex` is released.  An insert that reuses a key can be journaled before
  the removal that freed it, and the journal is refused (`concurrent_order`); a
  patch can be journaled with the position its document had before a removal, and
  is replayed on another document (`concurrent_position`).
- `TuplesAreUnique` (README.md:54, "`unique` only unique tuples are indexed"): the
  removal of a document that a sparse btree left out deletes the entry of a
  document with a null, and a second document with its tuple is accepted
  (`collection_null`).

Seen while modelling, and part of the models, with no run of their own:

- a write is counted before it is in the buffer; a tick in between marks it as
  flushed, and it stays in memory until some other write comes
  (`UnlaggedWritesReachTheFile` leaves these writes out by `lagged`; README.md:42
  says there is always a copy on disk);
- `Count` is not restored: after a restart `auto()` gives the numbers again that
  it gave before, where doc/examples/set_defaults.md:103 speaks of a counter
  "starting from the first insertion" (`Defaults!Restart`);
- while `setDefaults` takes a default away, its null is in the live map, and an
  insert at that moment stores a null that no setting ever had; an insert that
  overlaps with a change may also use half of it (`InsertsAreFilledIn` leaves
  these inserts out by `mixed`);
- a null in the defaults of `createCollection` stays, and fills documents in,
  until the next `setDefaults` cleans the map (`Defaults!Create`, `CleanField`);
- a document that a sparse btree left out cannot be removed or patched while all
  entries are of strings or numbers: `RemoveRow` compares nil with a key and
  panics (`TreePanics`, `RemoveVerdict`);
- an insert that is refused may, in its rollback, take the null entry of another
  document out of a sparse btree (`IndexInsert`): the one request besides a
  patch that changes memory and then answers with an error (`OnlyPatchesTear`);
- the removal of an array with an element that is no string frees the strings
  before it and panics (`FreedKeys`);
- `RemoveRow` of a btree over `-field` looks the value up under the name with
  the `-`, finds nil and panics in the less function, or deletes the entry of a
  document with a null there (`Looked`, `RemoveVerdict`);
- the option `unique` of a btree (README.md:54) is read by nobody: `AddRow`
  refuses an equal key always;
- removing upwards through a btree skips the entry after each removed one;
  downwards and in a full scan every row is removed (`Ascending`,
  `HandsOutWhatIsAsked`).  The test at service/acceptance.go:536-558 that expects
  four documents posts to `:find`, so nothing tests the other;
- an insert that read `Indexes` before `createIndex` published its index, and
  appends after the fill has taken the slice, is in no index for good;
  collection.go:380 says "Add all rows to the index".  A removal under a fill can
  leave a row out, or leave the removed one in; an insert and a fill, or two
  inserts, that look one key up together overwrite each other's entry (`marred`);
- a fill that is refused, also because of an entry a concurrent insert has just
  made, deletes the index by its name (`Withdraw`): with other requests about the
  index in between it is another one's index, and an index whose creation was
  acknowledged is gone;
- `dropIndex` deletes before it journals and `createIndex` fills before it
  journals: when they overlap the journal can have an index that memory has not,
  and an insert between the two steps of a drop can leave a journal that replay
  refuses, as can two removals that are journaled in the other order
  (`JournalFollows` leaves these out by `apart`);
- a crash after a spill leaves half a command, and `OpenCollection` then fails
  instead of stopping at the last whole command (`Journal!Open`,
  `Database!LoadOne`); the process keeps listening and refuses every request;
- a patch that is no object (also a request without `patch`) replaces the
  payload in memory, and replay ignores it (`ReplayRestoresPayload`);
- a patch that only turns a value into an empty object is dropped as "no change"
  (`OnlyWhatChangesIsWritten`);
- a scan misses a row whose last cell a concurrent append has overwritten, and
  hands a row out twice when another handler's removal moved it behind the scan
  (`NothingThatStaysIsMissed` has these conditions).

## The proofs

TLAPS proves these for every value of the constants that satisfies the named
assumptions: any number of workers, rows, keys, commands, any capacity.

`CollectionProofs` (assumptions `IndexAssumption` and `ValueAssumption`: there are
finitely many fields, and the kinds of value, null among them, are apart;
`InputAssumption`: callers send documents, patches and options of the types in the
model, `Keep` and `None` are sentinels)

- `SpecTypeOK`, `SpecRowsKnowTheirPlace`, `SpecEntriesMatchTheirRow` hold in every
  state, torn or not.  Their invariant `Kept` has both properties for memory and
  for the replayed collection, and that neither keeps a payload nobody points at.
  `EntriesMatchTheirRow` needs it: without a rollback an old entry would lead to a
  row that is inserted again.  The lemmas follow the code: what one index does
  (`AcceptedIs`, `FreesKeys`, `FreesNothingElse`), what the loops leave in
  whatever order they visit the indexes (`InsertEntries`, `RemoveEntries`), and
  one `...Good` lemma for each operation, which memory and replay share.
- `SpecIndexesAreExact`, `SpecReplayRestoresMemory`, `SpecOnlyPatchesTear`.
  `Intact` says that until the first tear the replayed collection is the one in
  memory and `Sound`: every entry is a key of its row, every document has its firm
  keys and what is mandatory, and the keys of a btree go together pair by pair
  (`Indexing`).  That the pairs go together has to be in the invariant, since it
  is what keeps the less function of a btree from a panic.  What `RemoveRow` frees
  is a key of the document, or one the index can lose (`FreesNothingElse`), so no
  firm key of another row is gone.  A refused insert therefore loses such
  entries at most, as `RemoveRow` undoes an `AddRow` it follows (`RollbackLoses`),
  and a remove is never refused.  `SpecOnlyPatchesTear` is an action property,
  for it compares memory before and after the step that tears.  Replay gives
  the same collection because a row is at the place its command names, merging a
  diff gives the payload it was taken from (`DiffIs`), and an operation that
  succeeds has one outcome whatever the order of the indexes.
- `SpecAdmissionIsExact`: what fits beside all other documents is accepted
  (`AcceptsWhatFits`), and what is accepted leaves the documents as `DocumentStore`
  wants them.  The two conditions are the same but for keys with a null that an
  index can lose.
- `SpecImplementsStore`: under the mapping of `Store` each step of `Collection` is a
  request, a tear, or a stutter; a step that ends in no tear and is not answered
  with success leaves memory as it is (`SettledWhole`).

`ConcurrentCollectionProofs` (assumption `ConcurrentAssumption`: what
`OpenCollection` has loaded has no two rows of one key, sentinels are distinct)

- `SpecTypeOK`.
- `SpecRowsKnowTheirPlace`.  The property is not inductive: between reading
  `row.I` and the swap a worker relies on nobody else moving rows, and an append
  relies on its row not being in `Rows` yet.  The invariant therefore adds who
  holds `rowsMutex`, that the worker inside a removal holds a position that is
  still within `Rows`, and that a row still to be appended belongs to one worker
  and to no position.
- `SpecClaimedOnce`.  The invariant adds that a worker past the second match of
  `patch` holds the `PatchMutex` of its row, that its filter still matches until
  it sets the payload, and that the payload stays as it set it until it answers.
- `SpecRowsLeaveByTheirOwnRemoval`.  `LeaveInv` adds that, unless a removal went
  astray, a row in a removal was in `Rows` once, so that no insert is about to
  append it (`OnceInRows`), that the position a removal has read is still that of
  its row at the swap (`SwapsItsRow`), and that the row is out when the removal
  journals (`SwappedIsOut`).  `Known` bounds what the index can hand out: rows
  that were inserted, though they may not be in `Rows` yet.
- `SpecPatchesAreReplayed`.  `ReplayInv` adds that memory and journal have the
  same claims but for the patches between payload and journal (`SameClaims`), and
  that each of these comes to its journal write: the key it has freed stays free
  (`Unindexed`; no other row has it, and no other patch of this row runs), and
  the position it has read is the one of its row (`NamesItsRow`).

`JournalProofs` (assumption `JournalAssumption`: sizes and capacity are positive)

- `SpecTypeOK`, `SpecFileIsPrefix`, `SpecNothingIsLost`.  The invariant `FileInv`
  relates file, buffer and `stream` in each phase of a flush: while nobody
  flushes, file and buffer together are the stream; between the write of a flush
  and the reset of `b.n` the file alone is (`Kept`).  It needs that at most one
  flush writes at a time unless `raced` is set (`OneFlush`), that the stream goes
  on from the file (`Behind`), and that a writer has a command (`Working`).
- `SpecCloseKeepsWhatIsDue`.  `CloseInv` adds that every acknowledged command
  stands whole in the stream, and from the end of `Close`'s flush on, those that
  were due stand in the file; it rests on lemmas about the positions of a
  command in a sequence that is extended or cut.

`IndexBuildProofs` (assumption `IndexBuildAssumption`: every document has a key,
sentinels are distinct)

- `SpecTypeOK`, `SpecNothingIsMissing`, `SpecEntriesAreLive`.  The invariant has
  two parts.  `GroundInv` holds whatever happens: rows know their place, a row
  that is to be appended belongs to one worker, one removal at a time is between
  read and swap (`PlaceInv`), an index object has one fill (`OneFills`), the cells
  a fill has still to read go upwards from its cursor (`FillGoesUp`), an entry is
  filed under the key of its row (`KeysMatch`).  `CleanInv` holds while the
  registered index is not `marred`: the handlers that use an index use this one, a
  row about to be appended has its entry, a row about to be swapped out has none
  and is the one at the position that was read (`Handlers`); a key between Load
  and Store is free and nobody else is about to store it (`StoringIsFree`); the
  fill meets no removal, visits rows only, and misses nothing: each row it has not
  entered is in a cell ahead of it, or its insert has entered it.  Neither
  property is inductive, because the step that breaks it is an append, a store or
  a swap, several steps after the look at `Indexes` or at the key that caused it.
- `SpecJournalFollows`.  `FollowInv` speaks of the runs that keep apart, with
  `marred` empty: who runs beside whom (`Alone`), what a request about the index
  knows of the registered one (`KnowsIndex`), that an index in the journal is in
  memory until its end is about to be written (`IndexFollows`), that the journal
  has the keys of `Rows` but for the one change that is to be written
  (`KeysFollow`), and that the replay accepts what memory accepted (`Admitted`).
  The last one needs `GroundInv` and `CleanInv`: an insert that found no entry
  of its key in an exact index has a key no row has.

`DefaultsProofs` (assumption `DefaultsAssumption`: the values are distinct, none
is a number that `auto()` hands out)

- `SpecTypeOK`.
- `SpecNumbersDiffer`.  The invariant `NumbersInv` adds that the numbers used and
  those of the inserts under way are at most `Count`, that no two inserts under
  way have one number and none of them has a used one, and that an insert writes
  its own number only.
- `SpecDefaultsAddUp`.  `AddUpInv` says that while requests do not overlap there
  is one of them at most, and at each field of its loops what the map has, or
  will have from the body and after the nulls, is what the requests add up to
  (`Remaining`, `Promised`).
- `SpecInsertsAreFilledIn`.  `FillInv` says that while an insert is not `mixed`
  nobody changes a map, that its loop is over the map published, and that each
  field is still as the client gave it or already as it will be stored.

`DatabaseProofs` (assumption `DatabaseAssumption`: the sentinel is no name, file
or collection)

- `SpecTypeOK`.
- `SpecRegisteredIsOpen`.  A drop closes the collection it has looked up some
  steps earlier, and a create registers the one it has opened some steps earlier.
  The invariant `ServedInv` therefore adds that a collection is in the map under
  one name (`OneName`), that one still to be registered is open, in no map and of
  one handler (`NewIsOwn`), that one being dropped is in the map under the name
  of its request only, and no more when it is closed (`DropIsOwn`), and that a
  process begins with an empty map (`DownIsEmpty`).
- `SpecRegistryMirrorsDirectory`, `SpecAckedIsServed`.  `AllInv` has three parts.
  `FilesInv` always holds: two names have two files, an open collection has one.
  `PhaseInv` follows the life of the process: between two processes what was
  stored is in the files (`DownIsRestored`); until `Load` has ended no request is
  let in (`StatusFollows`) and the names the walk has behind it are served
  (`Loaded`).  `MirrorInv` holds until Stop and while no two requests create or
  drop one name at once: a request between its look at the map and its change of
  it is alone at its name (`BusyApart`) and will find there what it found
  (`Place`), every other name mirrors its file (`Mirrored`), and no file is opened
  twice (`OneOpens`), so that what a request stores in the file of its name is in
  the collection of the map.
- `SpecStopKeepsWhatIsDue`.  `StopInv` adds, on top of these, what goes on during
  a stop, when the map need not mirror the directory any more: an open collection
  has in its file or its buffer all it has in memory (`DocsKept`); no request runs
  while `Load` still walks (`WalkInv`); a creation finds no entry to overwrite and
  a drop none of another (`FindsInv`); and what is due is in its file, or in the
  buffer of a registered, open collection that the range has still to visit
  (`DueInv`).  Every step either opens a file, removes one, or loses nothing it
  does not write (`StepSaves`).

`MergePatchProofs` (assumption `MergePatchAssumption`: `Depth` is a natural
number, no leaf is an object, null is no scalar and no array)

- The library's induction theorems cannot be used by the provers, so the module
  makes its own from the well-foundedness of the natural numbers: every set that
  has 0 and, with a level, the next one has all levels (`Upwards`); a set that
  has the leaves, and an object if it has its fields, has all values (`ByFields`).
  With the first, `Level`, `Merging`, `Differing`, `Referring` and `Liking` are
  shown to exist, each level from the one below (`LevelExists`, `MergeExists`,
  `DiffExists`, `ReferenceExists`, `AlikeExists`), and merges and diffs to nest no
  deeper than what they are made of (`MergeStays`, `DiffStays`).
- `SpecMergeFollowsTheRFC`, by `ByFields` on the patch (`MergeIsReference`).
- `SpecOnlyWhatChangesIsWritten`, by three inductions on the patch: what is said
  to change something does (`ChangedIsNew`), what is not turns leaves into empty
  objects at most (`UnchangedIsAlike`), a patch sent again changes nothing
  (`TwiceIsOnce`).
- `SpecTypeOK` and `SpecReplayRestoresPayload`, which need each other: the replay of
  a diff is a document because it is the payload.  A null in a diff deletes, so
  the diff between two documents does not lead from one to the other in general;
  it does if the second is the first with a patch merged in (`DiffRestores`),
  because what a merge adds has no null at any level (`MergedIntoLeafIsNew`), and
  the replay does not drop it as changing nothing.

`TraverseProofs` (assumption `TraverseAssumption`: rows are finitely many numbers,
which stand for the order of their keys, requests have their fields)

- `SpecTypeOK`.  The invariant adds that a cell, an index entry, a held array and
  the key of a look-up name only rows that were inserted, so that `row.I` of what
  a removal is given is a place (with `I = 0` the length of `Rows` would fall below
  zero).  For a btree it rests on a lemma about the order (`SortedRank`): each
  place has one row, because the numbers of smaller rows all differ.
- `SpecNothingThatStaysIsMissed`.  `NoneIsMissed` says that a row that stays is
  handed out already or in a cell the scan has still to read, and of a get that
  it has the row or the row is ahead.  A removal preserves it since it overwrites
  the one cell of a row that leaves and only copies the last one
  (`RemoveByRowProperties`): a row never loses a cell ahead of the scan.
- `SpecHandsOutWhatIsAsked`, by the invariant `AloneInv` on top of `Inv`.  `Ground`
  has every row in its place and in the index, but for the one that is being
  patched.  `Following` gives a walk a number p of rows of `source` that it has
  read: `Progress` says what skip, limit and `handed` are after these, in terms of
  how many of them match (`Matching`), and `Reads` that what the walk will read
  from here on are the others.  The second is what a removal could break.  In a
  scan it overwrites a cell that is not ahead of the scan, the row's own, and
  changes no other cell of the array (`ReadsScan`).  Downwards over a btree it takes a place
  away and leaves the places before it as they are (`SortedWithout`, `DownFrom`);
  the walk upwards under its own removals is excepted by the property, since there
  the next row slips under it.  A row on which the filter fails ends
  the walk where `AskedFor` cuts it (`Readable`).  That the rows in range are a run
  of neighbours in
  the order is `RangeShift` and `InitialPlaces`.  A get that finds its row in the
  map has found the only row that matches (`FoundInMap`); one that does not starts
  over at p = 0.  With nobody else about, a removal does not fail
  (`RemoveSucceeds`), so nothing cuts the walk short.  `Matching`, a recursive
  function, is shown to exist by the induction over the natural numbers used for
  `MergePatch`.

Each proof has one step per action of `Next` and one lemma for each helper that
several actions use.

Every safety property of a passing run is a theorem.  Only model-checked: liveness
(`RequestsAreAnswered`, `UnlaggedWritesReachTheFile`, `StopEndsTheProcess`), which
is out of the prover's reach.

## What is not modelled

- *Data races inside libraries*: a btree used by several handlers at once, and
  the torn read of a slice header while `Rows` is appended to.  `Traverse` keeps
  other handlers away from a walk over an index, and reads a header in one step.
- *A walk over a btree of more than one node*; a patch that moves a row within
  the btree it is walking over.  The order of compound keys is, for a walk, any
  total order of the rows.  Bounds that leave a field of a compound btree out
  make the less function panic before the first row.
- *Streaming inserts* (`insertStream.go`, `insertFullduplex.go`): the calls of
  `insert`, once per document, over another transport.  The first goes on after a
  document that is refused, the second stops.
- *Read-only requests* apart from `find` and `getDocument` (list, size, indexes):
  one look-up or the copy of a map.
- `indexmap.go`, which is not used any more; HTTP, compression, access log,
  configuration, benchmarks: no state of the database.
- *The JavaScript under `statics/`*: the browser libraries Vue and Vue Router,
  and the scripts mdBook generates for the documentation.  They are vendored or
  generated, they are served as files, and no part of the database runs in them.
  The database itself is Go.
- *I/O errors* other than those of the journal file (in `Journal`): a directory
  that cannot be read or a file that cannot be removed.

## The plan

1. `Traverse`: patches that move rows within the btree they walk over.
2. `Database` with two names, should a property about two collections turn up.
3. Proofs: lemmas for what either of these adds; no safety property is left over.

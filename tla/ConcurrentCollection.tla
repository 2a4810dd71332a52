------------------------ MODULE ConcurrentCollection ------------------------
(***************************************************************************)
(* One open collection used by several HTTP handlers at the same time:     *)
(* insert, remove and filtered patch of apicollectionv1 over               *)
(* Collection.Insert, Remove and Patch, step by step as the goroutines     *)
(* interleave.  rowsMutex covers the append and the whole of the removal,  *)
(* PatchMutex of a row covers the filter check and the patch; the index    *)
(* (a sync.Map, safe key by key) is under neither.                         *)
(*                                                                         *)
(* There is one unique map index, on a field no patch changes: row r is    *)
(* the document whose key is KeyOf[r].  A patch claims a free document for *)
(* a worker, {filter: {claim: free}, patch: {claim: w}}, or frees one that *)
(* is not free.  Reads and writes of one Go variable are single steps.     *)
(*                                                                         *)
(*   Rows, I, claim  the slice, row.I and the claim field of the payload   *)
(*   Entries         the sync.Map                                          *)
(*   disk            what OpenCollection would build from the journal      *)
(*   pc, row, at     the step of a worker, its row, and the local i        *)
(*   value           the claim its patch sets; its filter asks for a free  *)
(*                   document to claim it, for a claimed one to free it    *)
(* History, read by the properties only:                                   *)
(*   gone    rows whose removal was answered without error                 *)
(*   winners workers whose claim of the row, since it was last freed, was  *)
(*           answered without error                                        *)
(*   stray   a removal went through for a row not in Rows: already out of  *)
(*           it, or in the index and not yet appended                      *)
(*   moved   an insert or a removal was started                            *)
(***************************************************************************)
EXTENDS Naturals, Sequences, FiniteSets

CONSTANTS
  Worker, Row, Key, KeyOf,
  Loaded,        \* the rows OpenCollection put in Rows
  Inserters, Removers, Patchers,   \* the requests each worker may send
  Free, NoRow, Nobody

ASSUME ConcurrentAssumption ==
  /\ KeyOf \in [Row -> Key]
  /\ Loaded \in Seq(Row)
  /\ \A j, k \in DOMAIN Loaded : KeyOf[Loaded[j]] = KeyOf[Loaded[k]] => j = k
  /\ NoRow \notin Row /\ Nobody \notin Worker /\ Free \notin Worker

VARIABLES Rows, I, claim, Entries, rowsMutex, PatchMutex, disk, born,
          pc, row, at, value, gone, winners, stray, moved

shared == <<Rows, I, claim, Entries, rowsMutex, PatchMutex, disk, born>>
local == <<pc, row, at, value>>
history == <<gone, winners, stray, moved>>
vars == <<Rows, I, claim, Entries, rowsMutex, PatchMutex, disk, born,
          pc, row, at, value, gone, winners, stray, moved>>

In(s) == {s[k] : k \in DOMAIN s}

-----------------------------------------------------------------------------
\* The journal: append, swap-remove and patch by position, as replayed.  An
\* insert that conflicts or a position out of range make it unreadable.
Image == [ok: BOOLEAN, Rows: Seq(Row), claim: [Row -> Worker \cup {Free}]]
Unreadable == [ok |-> FALSE, Rows |-> << >>, claim |-> [r \in Row |-> Free]]

\* Mutant: the last row is dropped and not moved into the hole.
SwappedOutLast(s, i) == [k \in 1 .. Len(s) - 1 |-> s[k]]

SwappedOut(s, i) ==
  [k \in 1 .. Len(s) - 1 |-> IF k = i THEN s[Len(s)] ELSE s[k]]

WriteInsert(r) ==
  disk' = IF ~disk.ok \/ \E x \in In(disk.Rows) : KeyOf[x] = KeyOf[r] THEN Unreadable
          ELSE [disk EXCEPT !.Rows = Append(@, r)]
WriteRemove(i) ==
  disk' = IF ~disk.ok \/ i > Len(disk.Rows) THEN Unreadable
          ELSE [disk EXCEPT !.Rows = SwappedOut(@, i), !.claim[disk.Rows[i]] = Free]
WritePatch(i, v) ==
  disk' = IF ~disk.ok \/ i > Len(disk.Rows) THEN Unreadable
          ELSE [disk EXCEPT !.claim[disk.Rows[i]] = v]

Goto(w, label) == pc' = [pc EXCEPT ![w] = label]
At(w, label) == pc[w] = label

\* The handler answers; its variables are gone.
Answer(w) ==
  /\ pc' = [pc EXCEPT ![w] = "idle"]
  /\ row' = [row EXCEPT ![w] = NoRow]
  /\ at' = [at EXCEPT ![w] = 1]
  /\ value' = [value EXCEPT ![w] = Free]

-----------------------------------------------------------------------------
Init ==
  /\ Rows = Loaded
  /\ I = [r \in Row |-> IF r \in In(Loaded) THEN CHOOSE k \in DOMAIN Loaded : Loaded[k] = r ELSE 1]
  /\ claim = [r \in Row |-> Free]
  /\ Entries = [k \in Key |-> IF \E r \in In(Loaded) : KeyOf[r] = k
                              THEN CHOOSE r \in In(Loaded) : KeyOf[r] = k ELSE NoRow]
  /\ rowsMutex = Nobody
  /\ PatchMutex = [r \in Row |-> Nobody]
  /\ disk = [ok |-> TRUE, Rows |-> Loaded, claim |-> [r \in Row |-> Free]]
  /\ born = In(Loaded)
  /\ pc = [w \in Worker |-> "idle"]
  /\ row = [w \in Worker |-> NoRow]
  /\ at = [w \in Worker |-> 1]
  /\ value = [w \in Worker |-> Free]
  /\ gone = {}
  /\ winners = [r \in Row |-> {}]
  /\ stray = FALSE
  /\ moved = FALSE

\* Insert: AddRow looks the key up ...
StartInsert(w, r) ==
  /\ At(w, "idle") /\ w \in Inserters
  /\ r \in Row \ born
  /\ moved' = TRUE
  /\ IF Entries[KeyOf[r]] # NoRow THEN UNCHANGED <<born, local>>
     ELSE /\ born' = born \cup {r}
          /\ row' = [row EXCEPT ![w] = r]
          /\ Goto(w, "store") /\ UNCHANGED <<at, value>>
  /\ UNCHANGED <<Rows, I, claim, Entries, rowsMutex, PatchMutex, disk, gone, winners, stray>>

\* ... and stores the row, as two calls of the sync.Map ...
InsertStore(w) ==
  /\ At(w, "store")
  /\ Entries' = [Entries EXCEPT ![KeyOf[row[w]]] = row[w]]
  /\ Goto(w, "append")
  /\ UNCHANGED <<Rows, I, claim, rowsMutex, PatchMutex, disk, born, row, at, value, history>>

\* Mutant: the position is counted from zero.
InsertAppendFromZero(w) ==
  /\ At(w, "append")
  /\ rowsMutex = Nobody
  /\ Rows' = Append(Rows, row[w])
  /\ I' = [I EXCEPT ![row[w]] = Len(Rows)]
  /\ Goto(w, "encode insert")
  /\ UNCHANGED <<claim, Entries, rowsMutex, PatchMutex, disk, born, row, at, value, history>>

\* ... addRow appends under rowsMutex ...
InsertAppend(w) ==
  /\ At(w, "append")
  /\ rowsMutex = Nobody
  /\ Rows' = Append(Rows, row[w])
  /\ I' = [I EXCEPT ![row[w]] = Len(Rows) + 1]
  /\ Goto(w, "encode insert")
  /\ UNCHANGED <<claim, Entries, rowsMutex, PatchMutex, disk, born, row, at, value, history>>

\* ... and Insert journals it after the lock is gone.
InsertEncode(w) ==
  /\ At(w, "encode insert")
  /\ WriteInsert(row[w])
  /\ Answer(w)
  /\ UNCHANGED <<Rows, I, claim, Entries, rowsMutex, PatchMutex, born, history>>

\* What a traversal hands out, under no lock: a scan the rows of the slice, a
\* look-up any row of the index, one that is not yet appended included.
HandedOut == In(Rows) \cup In(Entries)

\* Remove: the traversal hands out a row ...
StartRemove(w, r) ==
  /\ At(w, "idle") /\ w \in Removers
  /\ r \in HandedOut
  /\ row' = [row EXCEPT ![w] = r]
  /\ moved' = TRUE
  /\ Goto(w, "free")
  /\ UNCHANGED <<shared, at, value, gone, winners, stray>>

\* Mutant: the early return does not unlock.
RemoveFreeKeepsLock(w) ==
  /\ At(w, "free")
  /\ rowsMutex = Nobody
  /\ rowsMutex' = w
  /\ IF Len(Rows) < I[row[w]] THEN Answer(w) /\ UNCHANGED Entries
     ELSE /\ at' = [at EXCEPT ![w] = I[row[w]]]
          /\ Entries' = [Entries EXCEPT ![KeyOf[row[w]]] = NoRow]
          /\ Goto(w, "swap") /\ UNCHANGED <<row, value>>
  /\ UNCHANGED <<Rows, I, claim, PatchMutex, disk, born, history>>

\* ... removeByRow locks, reads row.I and frees the key ...
RemoveFree(w) ==
  /\ At(w, "free")
  /\ rowsMutex = Nobody
  /\ IF Len(Rows) < I[row[w]] THEN Answer(w) /\ UNCHANGED <<rowsMutex, Entries>>
     ELSE /\ rowsMutex' = w
          /\ at' = [at EXCEPT ![w] = I[row[w]]]
          /\ Entries' = [Entries EXCEPT ![KeyOf[row[w]]] = NoRow]
          /\ Goto(w, "swap") /\ UNCHANGED <<row, value>>
  /\ UNCHANGED <<Rows, I, claim, PatchMutex, disk, born, history>>

\* ... moves the last row to that position, whatever row is there ...
RemoveSwap(w) ==
  /\ At(w, "swap")
  /\ stray' = (stray \/ row[w] \notin In(Rows))
  /\ I' = [I EXCEPT ![Rows[Len(Rows)]] = at[w]]
  /\ Rows' = SwappedOut(Rows, at[w])
  /\ rowsMutex' = Nobody
  /\ Goto(w, "encode remove")
  /\ UNCHANGED <<claim, Entries, PatchMutex, disk, born, row, at, value, gone, winners, moved>>

\* ... and journals the position after the unlock.
RemoveEncode(w) ==
  /\ At(w, "encode remove")
  /\ WriteRemove(at[w])
  /\ gone' = gone \cup {row[w]}
  /\ Answer(w)
  /\ UNCHANGED <<Rows, I, claim, Entries, rowsMutex, PatchMutex, born, winners, stray, moved>>

\* The filter of a patch, which claims a free row or frees a claimed one.
Matches(r, v) == (claim[r] = Free) <=> (v # Free)

\* Patch: the traversal's filter matches a row it hands out ...
StartPatch(w, r) ==
  /\ At(w, "idle") /\ w \in Patchers
  /\ r \in HandedOut
  /\ row' = [row EXCEPT ![w] = r]
  /\ \E v \in {w, Free} : Matches(r, v) /\ value' = [value EXCEPT ![w] = v]
  /\ Goto(w, "lock")
  /\ UNCHANGED <<shared, at, history>>

\* Mutant: the filter is not matched again.
PatchLockOnly(w) ==
  /\ At(w, "lock")
  /\ PatchMutex[row[w]] = Nobody
  /\ PatchMutex' = [PatchMutex EXCEPT ![row[w]] = w]
  /\ Goto(w, "unindex")
  /\ UNCHANGED <<Rows, I, claim, Entries, rowsMutex, disk, born, row, at, value, history>>

\* ... the handler takes PatchMutex and matches the filter again ...
PatchLock(w) ==
  /\ At(w, "lock")
  /\ PatchMutex[row[w]] = Nobody
  /\ IF Matches(row[w], value[w])
     THEN /\ PatchMutex' = [PatchMutex EXCEPT ![row[w]] = w]
          /\ Goto(w, "unindex") /\ UNCHANGED <<row, at, value>>
     ELSE UNCHANGED PatchMutex /\ Answer(w)
  /\ UNCHANGED <<Rows, I, claim, Entries, rowsMutex, disk, born, history>>

\* ... patchByRow takes the row out of the index ...
PatchUnindex(w) ==
  /\ At(w, "unindex")
  /\ Entries' = [Entries EXCEPT ![KeyOf[row[w]]] = NoRow]
  /\ Goto(w, "reindex")
  /\ UNCHANGED <<Rows, I, claim, rowsMutex, PatchMutex, disk, born, row, at, value, history>>

\* ... sets the payload and looks the key up, gone if another row took it ...
PatchReindex(w) ==
  LET r == row[w] IN
  /\ At(w, "reindex")
  /\ claim' = [claim EXCEPT ![r] = value[w]]
  /\ winners' = IF value[w] = Free THEN [winners EXCEPT ![r] = {}] ELSE winners
  /\ IF Entries[KeyOf[r]] = NoRow
     THEN Goto(w, "restore") /\ UNCHANGED <<PatchMutex, row, at, value>>
     ELSE Answer(w) /\ PatchMutex' = [PatchMutex EXCEPT ![r] = Nobody]
  /\ UNCHANGED <<Rows, I, Entries, rowsMutex, disk, born, gone, stray, moved>>

\* ... stores it again and reads row.I under no lock ...
PatchRestore(w) ==
  /\ At(w, "restore")
  /\ Entries' = [Entries EXCEPT ![KeyOf[row[w]]] = row[w]]
  /\ Goto(w, "read I")
  /\ UNCHANGED <<Rows, I, claim, rowsMutex, PatchMutex, disk, born, row, at, value, history>>

\* Mutant: PatchMutex is unlocked before the diff is journaled.
PatchReadIUnlocked(w) ==
  /\ At(w, "read I")
  /\ at' = [at EXCEPT ![w] = I[row[w]]]
  /\ PatchMutex' = [PatchMutex EXCEPT ![row[w]] = Nobody]
  /\ Goto(w, "encode patch")
  /\ UNCHANGED <<Rows, I, claim, Entries, rowsMutex, disk, born, row, value, history>>

PatchReadI(w) ==
  /\ At(w, "read I")
  /\ at' = [at EXCEPT ![w] = I[row[w]]]
  /\ Goto(w, "encode patch")
  /\ UNCHANGED <<shared, row, value, history>>

\* ... journals the diff, and the handler unlocks PatchMutex and answers.
PatchEncode(w) ==
  /\ At(w, "encode patch")
  /\ WritePatch(at[w], value[w])
  /\ PatchMutex' = [PatchMutex EXCEPT ![row[w]] = Nobody]
  /\ winners' = IF value[w] = w THEN [winners EXCEPT ![row[w]] = @ \cup {w}] ELSE winners
  /\ Answer(w)
  /\ UNCHANGED <<Rows, I, claim, Entries, rowsMutex, born, gone, stray, moved>>

-----------------------------------------------------------------------------
Step(w) ==
  \/ InsertStore(w) \/ InsertAppend(w) \/ InsertEncode(w)
  \/ RemoveFree(w) \/ RemoveSwap(w) \/ RemoveEncode(w)
  \/ PatchLock(w) \/ PatchUnindex(w) \/ PatchReindex(w)
  \/ PatchRestore(w) \/ PatchReadI(w) \/ PatchEncode(w)

Request(w) == \E r \in Row : StartInsert(w, r) \/ StartRemove(w, r) \/ StartPatch(w, r)

Quiet == \A w \in Worker : pc[w] = "idle"

\* Between requests nothing has to happen.
Rest == Quiet /\ UNCHANGED vars

Next ==
  \/ \E w \in Worker : Step(w) \/ Request(w)
  \/ Rest

Spec == Init /\ [][Next]_vars

\* The Go scheduler runs every goroutine that can run, and sync.Mutex hands
\* the lock to a waiter that starves: a step that can be taken again and
\* again is taken.
Fairness == \A w \in Worker : SF_vars(Step(w))
FairSpec == Spec /\ Fairness

-----------------------------------------------------------------------------
TypeOK ==
  /\ Rows \in Seq(Row)
  /\ I \in [Row -> Nat \ {0}]
  /\ claim \in [Row -> Worker \cup {Free}]
  /\ Entries \in [Key -> Row \cup {NoRow}]
  /\ rowsMutex \in Worker \cup {Nobody}
  /\ PatchMutex \in [Row -> Worker \cup {Nobody}]
  /\ disk \in Image
  /\ born \in SUBSET Row
  /\ pc \in [Worker -> {"idle", "store", "append", "encode insert", "free", "swap",
                        "encode remove", "lock", "unindex", "reindex", "restore",
                        "read I", "encode patch"}]
  /\ row \in [Worker -> Row \cup {NoRow}]
  /\ at \in [Worker -> Nat \ {0}]
  /\ value \in [Worker -> Worker \cup {Free}]
  /\ gone \in SUBSET Row
  /\ winners \in [Row -> SUBSET Worker]
  /\ stray \in BOOLEAN
  /\ moved \in BOOLEAN

\* However inserts and removals interleave, double removals included, every
\* row in Rows holds its own position: swap-removal under rowsMutex never
\* puts a row into the slice twice or leaves a row.I behind.
RowsKnowTheirPlace == \A k \in DOMAIN Rows : I[Rows[k]] = k

\* Of the workers that race for a free document at most one is answered that
\* it has it, and it has it until a patch frees it (patch.go:39-57 matches
\* the filter again under PatchMutex).
ClaimedOnce ==
  \A r \in Row : \A w \in winners[r] : claim[r] = w /\ winners[r] = {w}

\* Patches alone, in any interleaving, are replayed to what is in memory:
\* PatchMutex covers the journal write, so the order per row is the same.
PatchesAreReplayed == Quiet /\ ~moved => disk.ok /\ disk.Rows = Rows /\ disk.claim = claim

\* Unless a removal has gone through for a row that is not in Rows, a row leaves
\* Rows only through its own removal: the swap never drops another row, and no
\* answered insert is lost.
RowsLeaveByTheirOwnRemoval ==
  ~stray =>
    /\ \A r \in gone : r \notin In(Rows)
    /\ \A r \in born \ In(Rows) :
         r \in gone \/ \E w \in Worker :
           row[w] = r /\ pc[w] \in {"store", "append", "encode remove"}

\* Every request that was started is answered: the two mutexes are never
\* taken in a cycle, and the scheduler and sync.Mutex are fair.
RequestsAreAnswered == \A w \in Worker : pc[w] # "idle" ~> pc[w] = "idle"

\* collection.go:351, "IndexMap create a unique index with a name": no two
\* rows have the same key in the index.
IndexIsUnique ==
  \A j, k \in DOMAIN Rows : KeyOf[Rows[j]] = KeyOf[Rows[k]] => j = k

\* README.md:13, "Operations are strongly consistent (atomic) at document
\* level": a document leaves the collection only if it was asked to.
OnlyRequestedRemovals ==
  \A r \in born \ In(Rows) :
    r \in gone \/ \E w \in Worker :
      row[w] = r /\ pc[w] \in {"store", "append", "encode remove"}

\* README.md:44, "the journal is read and applied to recreate the last valid
\* state in memory": when no request is under way the journal holds the
\* documents that are in Rows, with the claims they have in memory.
JournalRecreatesMemory ==
  Quiet => /\ disk.ok /\ In(disk.Rows) = In(Rows)
           /\ \A r \in In(Rows) : disk.claim[r] = claim[r]
=============================================================================

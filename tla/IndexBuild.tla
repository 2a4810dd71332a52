----------------------------- MODULE IndexBuild -----------------------------
(***************************************************************************)
(* createIndex and dropIndex of one open collection (collection/           *)
(* collection.go), step by step, while other handlers insert and remove    *)
(* documents.  A new index is put into the map Indexes first and filled    *)
(* then, from the slice header that range takes of Rows; nothing of this   *)
(* is under a lock, and removals move cells under the fill.                *)
(*                                                                         *)
(* There is one index name.  Its index is a map index on a field every     *)
(* document has: row r has the key KeyOf[r].  Reads and writes of one Go   *)
(* variable are single steps, so AddRow is two: Load and Store of the      *)
(* sync.Map.  Patches, which no swap and no fill waits for either, are in  *)
(* ConcurrentCollection.                                                   *)
(* (The Go runtime may also stop the process at a concurrent use of the    *)
(* map Indexes: the behaviour then ends there.)                            *)
(*                                                                         *)
(*   Rows, I, registered  the slice, row.I and Indexes[name]               *)
(*   entries           the sync.Map of every index object                  *)
(*   disk              what OpenCollection would build from the journal    *)
(*   pc, row, index, at  the step of a worker, its row, the index object   *)
(*                     it has read or made, and the local i of a removal   *)
(*                     or of the loop of a fill, while it needs them       *)
(*   cells             the cells a fill has still to visit                 *)
(*   shared            its slice is still the array of Rows                *)
(* History, read by the properties only:                                   *)
(*   marred   indexes published while an insert was under way, whose fill  *)
(*            met a removal, to which two rows of one key were added at    *)
(*            once, or that were there when a removal took a row that is   *)
(*            not in Rows: gone already, or not yet appended               *)
(*   apart    so far inserts have run alone, removals and requests about   *)
(*            the index one after another, no fill has met a removal, and  *)
(*            no removal took a row that is not in Rows                    *)
(***************************************************************************)
EXTENDS Naturals, Sequences, FiniteSets

CONSTANTS
  Worker, Row, Key, KeyOf,
  Index,                           \* index objects, used again when free
  Inserters, Removers, Indexers,   \* the requests each worker may send
  NoRow, NoIndex, Nobody

ASSUME IndexBuildAssumption ==
  /\ KeyOf \in [Row -> Key]
  /\ NoRow \notin Row /\ NoIndex \notin Index /\ Nobody \notin Worker

VARIABLES Rows, I, registered, entries, rowsMutex, disk,
          pc, row, index, at, cells, shared, marred, apart

data == <<Rows, I, rowsMutex>>
local == <<pc, row, index, at>>
fill == <<cells, shared>>
history == <<marred, apart>>
vars == <<Rows, I, registered, entries, rowsMutex, disk,
          pc, row, index, at, cells, shared, marred, apart>>

In(s) == {s[k] : k \in DOMAIN s}

NoEntries == [k \in Key |-> NoRow]
NoCells == [k \in {} |-> NoRow]

At(w, labels) == pc[w] \in labels
Goto(w, label) == pc' = [pc EXCEPT ![w] = label]

Answer(w) ==
  /\ pc' = [pc EXCEPT ![w] = "idle"]
  /\ row' = [row EXCEPT ![w] = NoRow]
  /\ index' = [index EXCEPT ![w] = NoIndex]
  /\ at' = [at EXCEPT ![w] = 1]

\* The steps of each request, and of a fill from publishing to the last row.
Inserting == {"enter", "store", "append", "encode insert"}
Removing == {"find", "lock", "free", "swap", "encode remove"}
Visiting == {"read cell", "add row", "store row"}
Filling == Visiting \cup {"header", "withdraw"}
Creating == Filling \cup {"publish", "encode index"}
Dropping == {"delete", "encode drop"}

Quiet == \A w \in Worker : pc[w] = "idle"
Some(labels) == \E w \in Worker : At(w, labels)

-----------------------------------------------------------------------------
\* The journal as replayed: an insert that conflicts or a position out of
\* range make it unreadable, an index that cannot be made is a warning.
Image == [ok: BOOLEAN, keys: Seq(Key), indexed: BOOLEAN]
Unreadable == [ok |-> FALSE, keys |-> << >>, indexed |-> FALSE]

SwappedOut(s, i) ==
  [k \in 1 .. Len(s) - 1 |-> IF k = i THEN s[Len(s)] ELSE s[k]]

Unique(s) == \A j, k \in DOMAIN s : s[j] = s[k] => j = k

WriteInsert(r) ==
  disk' = IF ~disk.ok \/ (disk.indexed /\ KeyOf[r] \in In(disk.keys)) THEN Unreadable
          ELSE [disk EXCEPT !.keys = Append(@, KeyOf[r])]
WriteRemove(i) ==
  disk' = IF ~disk.ok \/ i > Len(disk.keys) THEN Unreadable
          ELSE [disk EXCEPT !.keys = SwappedOut(@, i)]
WriteIndex ==
  disk' = [disk EXCEPT !.indexed = disk.ok /\ (@ \/ Unique(disk.keys))]
WriteDrop == disk' = [disk EXCEPT !.indexed = FALSE]

-----------------------------------------------------------------------------
Init ==
  /\ Rows = << >> /\ I = [r \in Row |-> 1]
  /\ registered = NoIndex
  /\ entries = [x \in Index |-> NoEntries]
  /\ rowsMutex = Nobody
  /\ disk = [ok |-> TRUE, keys |-> << >>, indexed |-> FALSE]
  /\ pc = [w \in Worker |-> "idle"]
  /\ row = [w \in Worker |-> NoRow]
  /\ index = [w \in Worker |-> NoIndex]
  /\ at = [w \in Worker |-> 1]
  /\ cells = [w \in Worker |-> NoCells]
  /\ shared = [w \in Worker |-> FALSE]
  /\ marred = {} /\ apart = TRUE

\* An index object or a row nothing points at any more.
FreshIndex(x) == x # registered /\ \A w \in Worker : index[w] # x
FreshRow(r) ==
  /\ r \notin In(Rows)
  /\ \A w \in Worker : row[w] # r /\ r \notin {cells[w][k] : k \in DOMAIN cells[w]}
  /\ \A x \in Index : FreshIndex(x) \/ \A k \in Key : entries[x][k] # r

\* AddRow looks the key up, and marks the index if another AddRow has found the
\* same key free and has not yet stored its row.
Taken(x, r) == entries[x][KeyOf[r]] # NoRow
Races(w, x, r) ==
  \E v \in Worker \ {w} :
    At(v, {"store", "store row"}) /\ index[v] = x /\ KeyOf[row[v]] = KeyOf[r]
LookUp(w, x, r) ==
  marred' = IF ~Taken(x, r) /\ Races(w, x, r) THEN marred \cup {x} ELSE marred
Store(x, r) == entries' = [entries EXCEPT ![x][KeyOf[r]] = r]

\* Insert: indexInsert reads the map Indexes ...
StartInsert(w, r) ==
  /\ At(w, {"idle"}) /\ w \in Inserters
  /\ FreshRow(r)
  /\ row' = [row EXCEPT ![w] = r]
  /\ I' = [I EXCEPT ![r] = 1]
  /\ index' = [index EXCEPT ![w] = registered]
  /\ Goto(w, IF registered = NoIndex THEN "append" ELSE "enter")
  /\ apart' = (apart /\ Quiet)
  /\ UNCHANGED <<Rows, rowsMutex, registered, entries, disk, at, fill, marred>>

\* ... AddRow refuses a key that is taken ...
InsertEnter(w) ==
  LET x == index[w]  r == row[w] IN
  /\ At(w, {"enter"})
  /\ LookUp(w, x, r)
  /\ IF Taken(x, r) THEN Answer(w) ELSE Goto(w, "store") /\ UNCHANGED <<row, index, at>>
  /\ UNCHANGED <<data, registered, entries, disk, fill, apart>>

\* ... or stores the row ...
InsertStore(w) ==
  /\ At(w, {"store"})
  /\ Store(index[w], row[w])
  /\ index' = [index EXCEPT ![w] = NoIndex]
  /\ Goto(w, "append")
  /\ UNCHANGED <<data, registered, disk, row, at, fill, history>>

\* append in place also writes the cell behind Rows of a fill that started
\* when Rows was longer ...
AppendInPlace(r) ==
  LET n == Len(Rows) + 1 IN
  /\ cells' = [w \in Worker |-> [k \in DOMAIN cells[w] |->
                                   IF shared[w] /\ k = n THEN r ELSE cells[w][k]]]
  /\ UNCHANGED shared

\* ... and otherwise there may be no room, and Rows moves to another array.
AppendElsewhere ==
  /\ \A w \in Worker : shared[w] => Len(Rows) + 1 \notin DOMAIN cells[w]
  /\ shared' = [w \in Worker |-> FALSE]
  /\ UNCHANGED cells

\* Mutant: row.I is the position of the row before.
InsertAppendOneLow(w) ==
  /\ At(w, {"append"})
  /\ rowsMutex = Nobody
  /\ Rows' = Append(Rows, row[w])
  /\ I' = [I EXCEPT ![row[w]] = Len(Rows)]
  /\ AppendInPlace(row[w]) \/ AppendElsewhere
  /\ Goto(w, "encode insert")
  /\ UNCHANGED <<registered, entries, rowsMutex, disk, row, index, at, history>>

\* ... addRow appends under rowsMutex ...
InsertAppend(w) ==
  /\ At(w, {"append"})
  /\ rowsMutex = Nobody
  /\ Rows' = Append(Rows, row[w])
  /\ I' = [I EXCEPT ![row[w]] = Len(Rows) + 1]
  /\ AppendInPlace(row[w]) \/ AppendElsewhere
  /\ Goto(w, "encode insert")
  /\ UNCHANGED <<registered, entries, rowsMutex, disk, row, index, at, history>>

\* ... and Insert journals the document.
InsertEncode(w) ==
  /\ At(w, {"encode insert"})
  /\ WriteInsert(row[w])
  /\ Answer(w)
  /\ UNCHANGED <<data, registered, entries, fill, history>>

-----------------------------------------------------------------------------
\* Remove: a scan hands out a row of the slice ...
StartRemove(w, r) ==
  /\ At(w, {"idle"}) /\ w \in Removers
  /\ r \in In(Rows)
  /\ row' = [row EXCEPT ![w] = r]
  /\ Goto(w, "lock")
  /\ apart' = (apart /\ ~Some(Inserting \cup Removing))
  /\ UNCHANGED <<data, registered, entries, disk, index, at, fill, marred>>

\* ... a traversal by the index reads the map Indexes ...
StartFind(w) ==
  /\ At(w, {"idle"}) /\ w \in Removers
  /\ registered # NoIndex
  /\ index' = [index EXCEPT ![w] = registered]
  /\ Goto(w, "find")
  /\ apart' = (apart /\ ~Some(Inserting \cup Removing))
  /\ UNCHANGED <<data, registered, entries, disk, row, at, fill, marred>>

\* ... and hands out the row of a key, be it in the slice or not ...
Find(w) ==
  /\ At(w, {"find"})
  /\ \E k \in Key :
       LET r == entries[index[w]][k] IN
       IF r = NoRow THEN Answer(w)
       ELSE /\ row' = [row EXCEPT ![w] = r]
            /\ index' = [index EXCEPT ![w] = NoIndex]
            /\ Goto(w, "lock") /\ UNCHANGED at
  /\ UNCHANGED <<data, registered, entries, disk, fill, history>>

\* ... removeByRow locks, reads row.I and the map Indexes ...
RemoveLock(w) ==
  LET r == row[w]  stray == r \notin In(Rows) IN
  /\ At(w, {"lock"})
  /\ rowsMutex = Nobody
  /\ IF Len(Rows) < I[r] THEN Answer(w) /\ UNCHANGED <<rowsMutex, history>>
     ELSE /\ rowsMutex' = w
          /\ at' = [at EXCEPT ![w] = I[r]]
          /\ index' = [index EXCEPT ![w] = registered]
          /\ marred' = IF stray THEN Index
                       ELSE marred \cup {index[v] : v \in {u \in Worker : At(u, Filling)}}
          /\ apart' = (apart /\ ~Some(Filling) /\ ~stray)
          /\ Goto(w, "free") /\ UNCHANGED row
  /\ UNCHANGED <<Rows, I, registered, entries, disk, fill>>

\* Mutant: the key stays in the index.
RemoveFreeNothing(w) ==
  /\ At(w, {"free"})
  /\ Goto(w, "swap")
  /\ UNCHANGED <<data, registered, entries, disk, row, index, at, fill, history>>

\* ... RemoveRow deletes the key, whatever row it leads to ...
RemoveFree(w) ==
  /\ At(w, {"free"})
  /\ entries' = [x \in Index |-> [k \in Key |->
                   IF x = index[w] /\ k = KeyOf[row[w]] THEN NoRow ELSE entries[x][k]]]
  /\ index' = [index EXCEPT ![w] = NoIndex]
  /\ Goto(w, "swap")
  /\ UNCHANGED <<data, registered, disk, row, at, fill, history>>

\* ... the last row takes its place, also in the cells of a fill ...
RemoveSwap(w) ==
  /\ At(w, {"swap"})
  /\ Rows' = SwappedOut(Rows, at[w])
  /\ I' = [I EXCEPT ![Rows[Len(Rows)]] = at[w]]
  /\ cells' = [v \in Worker |-> [k \in DOMAIN cells[v] |->
                 IF shared[v] /\ k = at[w] THEN Rows[Len(Rows)] ELSE cells[v][k]]]
  /\ rowsMutex' = Nobody
  /\ Goto(w, "encode remove")
  /\ UNCHANGED <<registered, entries, disk, row, index, at, shared, history>>

\* ... and the position is journaled.
RemoveEncode(w) ==
  /\ At(w, {"encode remove"})
  /\ WriteRemove(at[w])
  /\ Answer(w)
  /\ UNCHANGED <<data, registered, entries, fill, history>>

-----------------------------------------------------------------------------
\* A request about the index begins.
Meet == apart' = (apart /\ ~Some(Inserting \cup Creating \cup Dropping))

\* createIndex: an index of this name is refused ...
StartCreate(w) ==
  /\ At(w, {"idle"}) /\ w \in Indexers
  /\ registered = NoIndex
  /\ Goto(w, "publish")
  /\ Meet
  /\ UNCHANGED <<data, registered, entries, disk, row, index, at, fill, marred>>

\* ... a new one goes into the map Indexes, still empty ...
Publish(w) ==
  /\ At(w, {"publish"})
  /\ \E x \in Index :
       /\ FreshIndex(x)
       /\ registered' = x
       /\ index' = [index EXCEPT ![w] = x]
       /\ entries' = [entries EXCEPT ![x] = NoEntries]
       /\ marred' = IF Some({"enter", "store", "append", "free", "swap"})
                    THEN marred \cup {x} ELSE marred \ {x}
  /\ apart' = (apart /\ ~Some({"free", "swap"}))
  /\ Goto(w, "header")
  /\ UNCHANGED <<data, disk, row, at, fill>>

\* ... range takes the slice header of Rows ...
Header(w) ==
  /\ At(w, {"header"})
  /\ cells' = [cells EXCEPT ![w] = Rows]
  /\ shared' = [shared EXCEPT ![w] = TRUE]
  /\ Goto(w, "read cell")
  /\ UNCHANGED <<data, registered, entries, disk, row, index, at, history>>

\* ... the next cell is read ...
ReadCell(w) ==
  LET i == at[w] IN
  /\ At(w, {"read cell"})
  /\ IF i \notin DOMAIN cells[w]
     THEN /\ shared' = [shared EXCEPT ![w] = FALSE]
          /\ index' = [index EXCEPT ![w] = NoIndex]
          /\ at' = [at EXCEPT ![w] = 1]
          /\ Goto(w, "encode index") /\ UNCHANGED <<cells, row>>
     ELSE /\ row' = [row EXCEPT ![w] = cells[w][i]]
          /\ cells' = [cells EXCEPT ![w] = [k \in DOMAIN cells[w] \ {i} |-> cells[w][k]]]
          /\ at' = [at EXCEPT ![w] = i + 1]
          /\ Goto(w, "add row") /\ UNCHANGED <<shared, index>>
  /\ UNCHANGED <<data, registered, entries, disk, history>>

\* Mutant: a row whose key is taken is passed over.
AddCellPasses(w) ==
  LET x == index[w]  r == row[w] IN
  /\ At(w, {"add row"})
  /\ LookUp(w, x, r)
  /\ IF ~Taken(x, r) THEN Goto(w, "store row") /\ UNCHANGED row
     ELSE Goto(w, "read cell") /\ row' = [row EXCEPT ![w] = NoRow]
  /\ UNCHANGED <<data, registered, entries, disk, index, at, fill, apart>>

\* ... AddRow looks its row up; one that is refused ends the fill ...
AddCell(w) ==
  LET x == index[w]  r == row[w] IN
  /\ At(w, {"add row"})
  /\ LookUp(w, x, r)
  /\ IF ~Taken(x, r) THEN Goto(w, "store row") /\ UNCHANGED <<row, at, fill>>
     ELSE /\ Goto(w, "withdraw")
          /\ row' = [row EXCEPT ![w] = NoRow]
          /\ cells' = [cells EXCEPT ![w] = NoCells]
          /\ shared' = [shared EXCEPT ![w] = FALSE]
          /\ at' = [at EXCEPT ![w] = 1]
  /\ UNCHANGED <<data, registered, entries, disk, index, apart>>

\* ... any other is stored ...
StoreCell(w) ==
  /\ At(w, {"store row"})
  /\ Store(index[w], row[w])
  /\ row' = [row EXCEPT ![w] = NoRow]
  /\ Goto(w, "read cell")
  /\ UNCHANGED <<data, registered, disk, index, at, fill, history>>

\* ... and deletes the index, by its name ...
Withdraw(w) ==
  /\ At(w, {"withdraw"})
  /\ registered' = NoIndex
  /\ Answer(w)
  /\ UNCHANGED <<data, entries, disk, fill, history>>

\* ... a filled one is journaled.
IndexEncode(w) ==
  /\ At(w, {"encode index"})
  /\ WriteIndex
  /\ Answer(w)
  /\ UNCHANGED <<data, registered, entries, fill, history>>

\* dropIndex: an index that is there ...
StartDrop(w) ==
  /\ At(w, {"idle"}) /\ w \in Indexers
  /\ registered # NoIndex
  /\ Goto(w, "delete")
  /\ Meet
  /\ UNCHANGED <<data, registered, entries, disk, row, index, at, fill, marred>>

\* ... is deleted from the map ...
Delete(w) ==
  /\ At(w, {"delete"})
  /\ registered' = NoIndex
  /\ Goto(w, "encode drop")
  /\ UNCHANGED <<data, entries, disk, row, index, at, fill, history>>

\* Mutant: the end of the index is not journaled.
DropEncodeNothing(w) ==
  /\ At(w, {"encode drop"})
  /\ Answer(w)
  /\ UNCHANGED <<data, registered, entries, disk, fill, history>>

\* ... and that is journaled.
DropEncode(w) ==
  /\ At(w, {"encode drop"})
  /\ WriteDrop
  /\ Answer(w)
  /\ UNCHANGED <<data, registered, entries, fill, history>>

-----------------------------------------------------------------------------
Step(w) ==
  \/ InsertEnter(w) \/ InsertStore(w) \/ InsertAppend(w) \/ InsertEncode(w)
  \/ Find(w) \/ RemoveLock(w) \/ RemoveFree(w) \/ RemoveSwap(w) \/ RemoveEncode(w)
  \/ Publish(w) \/ Header(w) \/ ReadCell(w) \/ AddCell(w) \/ StoreCell(w)
  \/ Withdraw(w) \/ IndexEncode(w)
  \/ Delete(w) \/ DropEncode(w)

Request(w) ==
  \/ \E r \in Row : StartInsert(w, r) \/ StartRemove(w, r)
  \/ StartFind(w) \/ StartCreate(w) \/ StartDrop(w)

Next == \E w \in Worker : Step(w) \/ Request(w)

Spec == Init /\ [][Next]_vars

-----------------------------------------------------------------------------
\* Every variable has its type; a fill that can be written under is one that
\* still has the array of Rows.
TypeOK ==
  /\ Rows \in Seq(Row) /\ I \in [Row -> Nat \ {0}]
  /\ registered \in Index \cup {NoIndex}
  /\ entries \in [Index -> [Key -> Row \cup {NoRow}]]
  /\ rowsMutex \in Worker \cup {Nobody}
  /\ disk \in Image
  /\ pc \in [Worker -> {"idle"} \cup Inserting \cup Removing \cup Creating \cup Dropping]
  /\ row \in [Worker -> Row \cup {NoRow}]
  /\ index \in [Worker -> Index \cup {NoIndex}]
  /\ at \in [Worker -> Nat \ {0}]
  /\ cells = [w \in Worker |-> [k \in DOMAIN cells[w] |-> cells[w][k]]]
  /\ \A w \in Worker : \A k \in DOMAIN cells[w] : k \in Nat \ {0} /\ cells[w][k] \in Row
  /\ shared \in [Worker -> BOOLEAN]
  /\ \A w \in Worker : shared[w] => At(w, Visiting)
  /\ marred \subseteq Index
  /\ apart \in BOOLEAN

\* A registered index that is filled and not marred.
Sound ==
  /\ registered \notin marred \cup {NoIndex}
  /\ \A w \in Worker : index[w] = registered => ~At(w, Filling)

\* Such an index has every row: it is published before the slice is read, so
\* that inserts of other keys may run all through the fill.  What marred names
\* is what can leave a row out.
NothingIsMissing ==
  Sound =>
    \A r \in In(Rows) :
      entries[registered][KeyOf[r]] = r \/ \E w \in Worker : row[w] = r /\ At(w, {"swap"})

\* Nor does it lead to a row that is gone: a build that is refused, an insert
\* into an older index object and requests about the index that overlap
\* leave nothing behind in the index that is registered.
EntriesAreLive ==
  Sound =>
    \A k \in Key :
      LET r == entries[registered][k] IN
      r = NoRow \/ r \in In(Rows) \/ \E w \in Worker : row[w] = r /\ At(w, {"append"})

\* A removal and a request about the index are journaled in any order: as
\* long as inserts run alone, removals and requests about the index one after
\* another, no fill meets a removal and no removal takes a row that is not in
\* Rows, the journal can be read, and it has no index that is not in memory.
JournalFollows ==
  apart =>
    /\ disk.ok
    /\ disk.indexed /\ Quiet => registered # NoIndex
=============================================================================

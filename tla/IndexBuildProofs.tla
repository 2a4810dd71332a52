-------------------------- MODULE IndexBuildProofs --------------------------
(***************************************************************************)
(* For any number of workers, rows, keys and index objects, and any        *)
(* requests about them: every variable keeps its type, and an index whose  *)
(* build met no earlier insert and no removal, to which no two rows of one *)
(* key were added at once, and that was there for no removal of a row that *)
(* was not in Rows, has every row and no other, however inserts, removals  *)
(* and requests about the index overlap otherwise.  While requests keep    *)
(* apart the journal can be read and has no index that memory has not.     *)
(***************************************************************************)
EXTENDS IndexBuild, SequenceTheorems, TLAPS

Label == {"idle"} \cup Inserting \cup Removing \cup Creating \cup Dropping

RowsOfRequests ==
  \A w \in Worker :
    At(w, Inserting \cup (Removing \ {"find"}) \cup {"add row", "store row"}) => row[w] \in Row
IndexesInUse ==
  \A w \in Worker : At(w, Filling \cup {"enter", "store", "find"}) => index[w] \in Index

\* TypeOK in parts.
LocalsOK ==
  /\ pc \in [Worker -> Label]
  /\ row \in [Worker -> Row \cup {NoRow}]
  /\ index \in [Worker -> Index \cup {NoIndex}]
  /\ at \in [Worker -> Nat \ {0}]
  /\ RowsOfRequests /\ IndexesInUse
SharedOK ==
  /\ Rows \in Seq(Row) /\ I \in [Row -> Nat \ {0}]
  /\ registered \in Index \cup {NoIndex}
  /\ entries \in [Index -> [Key -> Row \cup {NoRow}]]
  /\ rowsMutex \in Worker \cup {Nobody}
  /\ marred \subseteq Index /\ apart \in BOOLEAN
FillsOK ==
  /\ cells = [w \in Worker |-> [k \in DOMAIN cells[w] |-> cells[w][k]]]
  /\ \A w \in Worker : \A k \in DOMAIN cells[w] : k \in Nat \ {0} /\ cells[w][k] \in Row
  /\ shared \in [Worker -> BOOLEAN]
  /\ \A w \in Worker : shared[w] => At(w, Visiting)

\* A removal keeps rowsMutex from reading the position to the swap.
HoldsRows ==
  \A w \in Worker : At(w, {"free", "swap"}) => rowsMutex = w /\ at[w] \in DOMAIN Rows

TypeInv == TypeOK /\ RowsOfRequests /\ IndexesInUse

LEMMA TypesInParts == TypeInv <=> LocalsOK /\ SharedOK /\ FillsOK /\ disk \in Image
  BY DEF TypeInv, TypeOK, LocalsOK, SharedOK, FillsOK, Label

-----------------------------------------------------------------------------
\* Swap-removal and append: what the new sequence holds.
LEMMA SwappedOutProperties ==
  ASSUME NEW S, NEW s \in Seq(S), NEW i \in DOMAIN s
  PROVE  /\ SwappedOut(s, i) \in Seq(S)
         /\ DOMAIN SwappedOut(s, i) = 1 .. Len(s) - 1
         /\ DOMAIN s = 1 .. Len(s)
         /\ Len(s) \in Nat \ {0}
         /\ s[Len(s)] \in S
         /\ \A k \in 1 .. Len(s) - 1 :
              SwappedOut(s, i)[k] = IF k = i THEN s[Len(s)] ELSE s[k]
<1> DEFINE t == SwappedOut(s, i)
<1>1. DOMAIN s = 1 .. Len(s) /\ Len(s) \in Nat \ {0} /\ Len(s) - 1 \in Nat
  BY LenProperties
<1>2. \A k \in 1 .. Len(s) : s[k] \in S
  BY ElementOfSeq
<1>3. t \in [1 .. Len(s) - 1 -> S]
  BY <1>1, <1>2 DEF SwappedOut
<1>4. t \in Seq(S)
  BY <1>1, <1>3, SeqDef
<1> QED
  BY <1>1, <1>2, <1>4 DEF SwappedOut

LEMMA AppendElements ==
  ASSUME NEW S, NEW s \in Seq(S), NEW e \in S
  PROVE  /\ Append(s, e) \in Seq(S)
         /\ DOMAIN Append(s, e) = 1 .. Len(s) + 1
         /\ \A k \in 1 .. Len(s) : Append(s, e)[k] = s[k]
         /\ Append(s, e)[Len(s) + 1] = e
         /\ DOMAIN s = 1 .. Len(s)
         /\ Len(s) \in Nat
  OBVIOUS

LEMMA SequencesOfRows ==
  ASSUME NEW S, NEW s \in Seq(S)
  PROVE  /\ DOMAIN s = 1 .. Len(s) /\ Len(s) \in Nat
         /\ In(s) \subseteq S
         /\ \A k \in DOMAIN s : k \in Nat \ {0} /\ s[k] \in S /\ s[k] \in In(s)
<1>1. DOMAIN s = 1 .. Len(s) /\ Len(s) \in Nat
  BY LenProperties
<1>2. \A k \in DOMAIN s : s[k] \in S
  BY <1>1, ElementOfSeq
<1> QED
  BY <1>1, <1>2 DEF In

-----------------------------------------------------------------------------
LEMMA TypeInit == Init => TypeInv
<1> SUFFICES ASSUME Init PROVE TypeInv
  OBVIOUS
<1>1. LocalsOK
  BY DEF Init, LocalsOK, Label, RowsOfRequests, IndexesInUse, At, Inserting, Removing, Filling, Visiting
<1>2. SharedOK
  <2>1. << >> \in Seq(Row)
    OBVIOUS
  <2> QED
    BY <2>1 DEF Init, SharedOK, NoEntries
<1>3. FillsOK
  BY DEF Init, FillsOK, NoCells
<1>4. disk \in Image
  BY DEF Init, Image
<1> QED
  BY <1>1, <1>2, <1>3, <1>4, TypesInParts

\* A worker that answers, and the others.
LEMMA AnswerIsIdle ==
  ASSUME LocalsOK, NEW w \in Worker, Answer(w)
  PROVE  /\ LocalsOK'
         /\ pc'[w] = "idle" /\ row'[w] = NoRow /\ index'[w] = NoIndex /\ at'[w] = 1
         /\ \A v \in Worker \ {w} :
              pc'[v] = pc[v] /\ row'[v] = row[v] /\ index'[v] = index[v] /\ at'[v] = at[v]
<1>1. /\ pc'[w] = "idle" /\ row'[w] = NoRow /\ index'[w] = NoIndex /\ at'[w] = 1
      /\ \A v \in Worker \ {w} :
           pc'[v] = pc[v] /\ row'[v] = row[v] /\ index'[v] = index[v] /\ at'[v] = at[v]
  BY DEF LocalsOK, Answer
<1>2. /\ pc' \in [Worker -> Label] /\ row' \in [Worker -> Row \cup {NoRow}]
      /\ index' \in [Worker -> Index \cup {NoIndex}] /\ at' \in [Worker -> Nat \ {0}]
  BY DEF LocalsOK, Answer, Label
<1>3. RowsOfRequests'
  BY <1>1 DEF LocalsOK, RowsOfRequests, At, Inserting, Removing
<1>4. IndexesInUse'
  BY <1>1 DEF LocalsOK, IndexesInUse, At, Filling, Visiting
<1> QED
  BY <1>1, <1>2, <1>3, <1>4 DEF LocalsOK

\* A worker that goes on with its step, and the others.
LEMMA GotoLabel ==
  ASSUME LocalsOK, NEW w \in Worker, NEW label \in Label, Goto(w, label)
  PROVE  /\ pc' \in [Worker -> Label]
         /\ pc'[w] = label
         /\ \A v \in Worker \ {w} : pc'[v] = pc[v]
  BY DEF LocalsOK, Goto

\* Every step keeps the workers' variables in their types ...
LEMMA LocalsNext ==
  ASSUME LocalsOK, SharedOK, FillsOK, [Next]_vars
  PROVE  LocalsOK'
<1>1. ASSUME NEW w \in Worker, NEW r \in Row, StartInsert(w, r) PROVE LocalsOK'
  BY <1>1 DEF StartInsert, LocalsOK, SharedOK, FillsOK, RowsOfRequests, IndexesInUse,
     At, Goto, Label, Inserting, Removing, Filling, Visiting, Creating, Dropping
<1>2. ASSUME NEW w \in Worker, InsertEnter(w) PROVE LocalsOK'
  <2>1. CASE Answer(w)
    BY <2>1, AnswerIsIdle
  <2>2. CASE ~Answer(w)
    BY <1>2, <2>2 DEF InsertEnter, LocalsOK, RowsOfRequests, IndexesInUse, At, Goto, Label,
       Inserting, Removing, Filling, Visiting, Creating, Dropping
  <2> QED
    BY <2>1, <2>2
<1>3. ASSUME NEW w \in Worker, InsertAppend(w) PROVE LocalsOK'
  BY <1>3 DEF InsertAppend, LocalsOK, SharedOK, FillsOK, RowsOfRequests, IndexesInUse,
     At, Goto, Label, Inserting, Removing, Filling, Visiting, Creating, Dropping
<1>4. ASSUME NEW w \in Worker, InsertEncode(w) PROVE LocalsOK'
  BY <1>4, AnswerIsIdle DEF InsertEncode
<1>5. ASSUME NEW w \in Worker, NEW r \in Row, StartRemove(w, r) PROVE LocalsOK'
  BY <1>5 DEF StartRemove, LocalsOK, SharedOK, FillsOK, RowsOfRequests, IndexesInUse,
     At, Goto, Label, Inserting, Removing, Filling, Visiting, Creating, Dropping
<1>6. ASSUME NEW w \in Worker, RemoveLock(w) PROVE LocalsOK'
  <2>1. CASE Answer(w)
    BY <2>1, AnswerIsIdle
  <2>2. CASE ~Answer(w)
    <3>1. I[row[w]] \in Nat \ {0} /\ At(w, {"lock"})
      BY <1>6 DEF RemoveLock, LocalsOK, SharedOK, RowsOfRequests, At, Removing
    <3> QED
      BY <1>6, <2>2, <3>1 DEF RemoveLock, SharedOK, LocalsOK, RowsOfRequests, IndexesInUse, At, Goto, Label,
         Inserting, Removing, Filling, Visiting, Creating, Dropping
  <2> QED
    BY <2>1, <2>2
<1>7. ASSUME NEW w \in Worker, RemoveFree(w) PROVE LocalsOK'
  BY <1>7 DEF RemoveFree, LocalsOK, SharedOK, FillsOK, RowsOfRequests, IndexesInUse,
     At, Goto, Label, Inserting, Removing, Filling, Visiting, Creating, Dropping
<1>8. ASSUME NEW w \in Worker, RemoveSwap(w) PROVE LocalsOK'
  BY <1>8 DEF RemoveSwap, LocalsOK, SharedOK, FillsOK, RowsOfRequests, IndexesInUse,
     At, Goto, Label, Inserting, Removing, Filling, Visiting, Creating, Dropping
<1>9. ASSUME NEW w \in Worker, RemoveEncode(w) PROVE LocalsOK'
  BY <1>9, AnswerIsIdle DEF RemoveEncode
<1>10. ASSUME NEW w \in Worker, StartCreate(w) PROVE LocalsOK'
  BY <1>10 DEF StartCreate, LocalsOK, SharedOK, FillsOK, RowsOfRequests, IndexesInUse,
     At, Goto, Label, Inserting, Removing, Filling, Visiting, Creating, Dropping
<1>11. ASSUME NEW w \in Worker, Publish(w) PROVE LocalsOK'
  <2>1. PICK x \in Index : index' = [index EXCEPT ![w] = x]
    BY <1>11 DEF Publish
  <2> QED
    BY <1>11, <2>1 DEF Publish, LocalsOK, RowsOfRequests, IndexesInUse, At, Goto, Label,
       Inserting, Removing, Filling, Visiting, Creating, Dropping
<1>12. ASSUME NEW w \in Worker, Header(w) PROVE LocalsOK'
  BY <1>12 DEF Header, LocalsOK, SharedOK, FillsOK, RowsOfRequests, IndexesInUse,
     At, Goto, Label, Inserting, Removing, Filling, Visiting, Creating, Dropping
<1>13. ASSUME NEW w \in Worker, ReadCell(w) PROVE LocalsOK'
  <2>1. CASE at[w] \notin DOMAIN cells[w]
    <3>1. /\ row' = row /\ index' = [index EXCEPT ![w] = NoIndex]
          /\ at' = [at EXCEPT ![w] = 1] /\ Goto(w, "encode index")
      BY <1>13, <2>1 DEF ReadCell
    <3>2. at' \in [Worker -> Nat \ {0}]
      <4>1. 1 \in Nat \ {0} /\ at \in [Worker -> Nat \ {0}]
        BY DEF LocalsOK
      <4> QED
        BY <3>1, <4>1
    <3>3. row' \in [Worker -> Row \cup {NoRow}] /\ index' \in [Worker -> Index \cup {NoIndex}]
      BY <3>1 DEF LocalsOK
    <3>4. pc' \in [Worker -> Label] /\ RowsOfRequests' /\ IndexesInUse'
      BY <3>1 DEF LocalsOK, RowsOfRequests, IndexesInUse, At, Goto, Label,
       Inserting, Removing, Filling, Visiting, Creating, Dropping
    <3> QED
      BY <3>2, <3>3, <3>4 DEF LocalsOK
  <2>2. CASE at[w] \in DOMAIN cells[w]
    <3>1. cells[w][at[w]] \in Row
      BY <2>2 DEF FillsOK
    <3>2. at[w] + 1 \in Nat \ {0}
      BY DEF LocalsOK
    <3>3. /\ row' = [row EXCEPT ![w] = cells[w][at[w]]] /\ index' = index
          /\ at' = [at EXCEPT ![w] = at[w] + 1] /\ Goto(w, "add row") /\ At(w, {"read cell"})
      BY <1>13, <2>2 DEF ReadCell
    <3> QED
      BY <3>1, <3>2, <3>3 DEF LocalsOK, RowsOfRequests, IndexesInUse, At, Goto, Label,
       Inserting, Removing, Filling, Visiting, Creating, Dropping
  <2> QED
    BY <2>1, <2>2
<1>14. ASSUME NEW w \in Worker, AddCell(w) PROVE LocalsOK'
  <2>1. CASE ~Taken(index[w], row[w])
    BY <1>14, <2>1 DEF AddCell, LocalsOK, RowsOfRequests, IndexesInUse, At, Goto, Label,
       Inserting, Removing, Filling, Visiting, Creating, Dropping
  <2>2. CASE Taken(index[w], row[w])
    <3>1. /\ row' = [row EXCEPT ![w] = NoRow] /\ index' = index
          /\ at' = [at EXCEPT ![w] = 1] /\ Goto(w, "withdraw") /\ At(w, {"add row"})
      BY <1>14, <2>2 DEF AddCell
    <3>2. at' \in [Worker -> Nat \ {0}]
      <4>1. 1 \in Nat \ {0} /\ at \in [Worker -> Nat \ {0}]
        BY DEF LocalsOK
      <4> QED
        BY <3>1, <4>1
    <3>3. row' \in [Worker -> Row \cup {NoRow}] /\ index' \in [Worker -> Index \cup {NoIndex}]
      BY <3>1 DEF LocalsOK
    <3>4. pc' \in [Worker -> Label] /\ RowsOfRequests' /\ IndexesInUse'
      BY <3>1 DEF LocalsOK, RowsOfRequests, IndexesInUse, At, Goto, Label,
       Inserting, Removing, Filling, Visiting, Creating, Dropping
    <3> QED
      BY <3>2, <3>3, <3>4 DEF LocalsOK
  <2> QED
    BY <2>1, <2>2
<1>15. ASSUME NEW w \in Worker, Withdraw(w) PROVE LocalsOK'
  BY <1>15, AnswerIsIdle DEF Withdraw
<1>16. ASSUME NEW w \in Worker, IndexEncode(w) PROVE LocalsOK'
  BY <1>16, AnswerIsIdle DEF IndexEncode
<1>17. ASSUME NEW w \in Worker, StartDrop(w) PROVE LocalsOK'
  BY <1>17 DEF StartDrop, LocalsOK, SharedOK, FillsOK, RowsOfRequests, IndexesInUse,
     At, Goto, Label, Inserting, Removing, Filling, Visiting, Creating, Dropping
<1>18. ASSUME NEW w \in Worker, Delete(w) PROVE LocalsOK'
  BY <1>18 DEF Delete, LocalsOK, SharedOK, FillsOK, RowsOfRequests, IndexesInUse,
     At, Goto, Label, Inserting, Removing, Filling, Visiting, Creating, Dropping
<1>19. ASSUME NEW w \in Worker, DropEncode(w) PROVE LocalsOK'
  BY <1>19, AnswerIsIdle DEF DropEncode
<1>20. ASSUME NEW w \in Worker, InsertStore(w) PROVE LocalsOK'
  BY <1>20 DEF InsertStore, LocalsOK, RowsOfRequests, IndexesInUse,
     At, Goto, Label, Inserting, Removing, Filling, Visiting, Creating, Dropping
<1>21. ASSUME NEW w \in Worker, StartFind(w) PROVE LocalsOK'
  BY <1>21 DEF StartFind, LocalsOK, SharedOK, RowsOfRequests, IndexesInUse,
     At, Goto, Label, Inserting, Removing, Filling, Visiting, Creating, Dropping
<1>22. ASSUME NEW w \in Worker, Find(w) PROVE LocalsOK'
  <2>1. CASE Answer(w)
    BY <2>1, AnswerIsIdle
  <2>2. CASE ~Answer(w)
    <3>1. PICK k \in Key : /\ entries[index[w]][k] # NoRow
                           /\ row' = [row EXCEPT ![w] = entries[index[w]][k]]
                           /\ index' = [index EXCEPT ![w] = NoIndex]
                           /\ Goto(w, "lock") /\ UNCHANGED at
      BY <1>22, <2>2 DEF Find
    <3>2. entries[index[w]][k] \in Row
      BY <1>22, <3>1 DEF Find, LocalsOK, SharedOK, IndexesInUse, At
    <3> QED
      BY <3>1, <3>2 DEF LocalsOK, RowsOfRequests, IndexesInUse,
     At, Goto, Label, Inserting, Removing, Filling, Visiting, Creating, Dropping
  <2> QED
    BY <2>1, <2>2
<1>23. ASSUME NEW w \in Worker, StoreCell(w) PROVE LocalsOK'
  BY <1>23 DEF StoreCell, fill, LocalsOK, RowsOfRequests, IndexesInUse,
     At, Goto, Label, Inserting, Removing, Filling, Visiting, Creating, Dropping
<1>24. CASE UNCHANGED vars
  BY <1>24 DEF vars, LocalsOK, RowsOfRequests, IndexesInUse, At
<1> QED
  BY <1>1, <1>2, <1>3, <1>4, <1>5, <1>6, <1>7, <1>8, <1>9, <1>10, <1>11, <1>12, <1>13, <1>14,
     <1>15, <1>16, <1>17, <1>18, <1>19, <1>20, <1>21, <1>22, <1>23, <1>24 DEF Next, Step, Request

\* A row stored in an index.
LEMMA StoreProperties ==
  ASSUME SharedOK, NEW x \in Index, NEW r \in Row, Store(x, r)
  PROVE  /\ entries' \in [Index -> [Key -> Row \cup {NoRow}]]
         /\ \A y \in Index, k \in Key :
              entries'[y][k] = IF y = x /\ k = KeyOf[r] THEN r ELSE entries[y][k]
<1>1. KeyOf[r] \in Key
  BY IndexBuildAssumption
<1> QED
  BY <1>1 DEF Store, SharedOK

\* ... what they share in its types ...
LEMMA SharedNext ==
  ASSUME LocalsOK, SharedOK, HoldsRows, [Next]_vars
  PROVE  SharedOK'
<1> USE DEF data, fill, history
<1>1. ASSUME NEW w \in Worker, NEW r \in Row, StartInsert(w, r)
      PROVE  SharedOK'
  <2>1. I' = [I EXCEPT ![r] = 1] /\ 1 \in Nat \ {0}
    BY <1>1 DEF StartInsert
  <2>2. I' \in [Row -> Nat \ {0}]
    BY <2>1 DEF SharedOK
  <2> QED
    BY <1>1, <2>2 DEF StartInsert, SharedOK
<1>2. ASSUME NEW w \in Worker,
             (\E r \in Row : StartRemove(w, r)) \/ StartFind(w) \/ StartCreate(w) \/ StartDrop(w)
      PROVE  SharedOK'
  BY <1>2 DEF StartRemove, StartFind, StartCreate, StartDrop, Meet, SharedOK
<1>3. ASSUME NEW w \in Worker, InsertEnter(w) \/ AddCell(w) PROVE SharedOK'
  <2>1. At(w, {"enter", "add row"})
    BY <1>3 DEF InsertEnter, AddCell, At
  <2>2. index[w] \in Index
    BY <2>1 DEF LocalsOK, IndexesInUse, At, Filling, Visiting
  <2>3. marred' \subseteq marred \cup {index[w]}
    BY <1>3 DEF InsertEnter, AddCell, LookUp
  <2> QED
    BY <1>3, <2>2, <2>3 DEF InsertEnter, AddCell, SharedOK
<1>4. ASSUME NEW w \in Worker, InsertStore(w) \/ StoreCell(w) PROVE SharedOK'
  <2>1. At(w, {"store", "store row"}) /\ Store(index[w], row[w])
    BY <1>4 DEF InsertStore, StoreCell, At
  <2>2. row[w] \in Row /\ index[w] \in Index
    BY <2>1 DEF LocalsOK, RowsOfRequests, IndexesInUse, At, Filling, Visiting, Inserting
  <2>3. entries' \in [Index -> [Key -> Row \cup {NoRow}]]
    BY <2>1, <2>2, StoreProperties
  <2> QED
    BY <1>4, <2>3 DEF InsertStore, StoreCell, SharedOK
<1>5. ASSUME NEW w \in Worker, InsertAppend(w) PROVE SharedOK'
  <2>1. row[w] \in Row
    BY <1>5 DEF InsertAppend, LocalsOK, RowsOfRequests, At, Inserting
  <2>2. Rows' \in Seq(Row) /\ Len(Rows) + 1 \in Nat \ {0}
    <3>1. Rows \in Seq(Row) /\ Rows' = Append(Rows, row[w])
      BY <1>5 DEF InsertAppend, SharedOK
    <3>2. Rows' \in Seq(Row)
      BY <2>1, <3>1, AppendElements
    <3>3. Len(Rows) \in Nat
      BY <3>1, LenProperties
    <3> QED
      BY <3>2, <3>3
  <2>3. I' \in [Row -> Nat \ {0}]
    <3>1. I' = [I EXCEPT ![row[w]] = Len(Rows) + 1]
      BY <1>5 DEF InsertAppend
    <3> QED
      BY <2>2, <3>1 DEF SharedOK
  <2> QED
    BY <1>5, <2>2, <2>3 DEF InsertAppend, SharedOK
<1>6. ASSUME NEW w \in Worker, InsertEncode(w) \/ RemoveEncode(w) \/ Find(w) PROVE SharedOK'
  BY <1>6 DEF InsertEncode, RemoveEncode, Find, SharedOK
<1>7. ASSUME NEW w \in Worker, RemoveLock(w) PROVE SharedOK'
  <2>1. {index[v] : v \in {u \in Worker : At(u, Filling)}} \subseteq Index
    BY DEF LocalsOK, IndexesInUse, At
  <2>2. marred' \subseteq Index /\ apart' \in BOOLEAN /\ rowsMutex' \in Worker \cup {Nobody}
    BY <1>7, <2>1 DEF RemoveLock, SharedOK
  <2> QED
    BY <1>7, <2>2 DEF RemoveLock, SharedOK
<1>8. ASSUME NEW w \in Worker, RemoveFree(w) PROVE SharedOK'
  <2>1. entries' \in [Index -> [Key -> Row \cup {NoRow}]]
    BY <1>8 DEF RemoveFree, SharedOK
  <2> QED
    BY <1>8, <2>1 DEF RemoveFree, SharedOK
<1>9. ASSUME NEW w \in Worker, RemoveSwap(w) PROVE SharedOK'
  <2>1. at[w] \in DOMAIN Rows /\ at[w] \in Nat \ {0} /\ Rows' = SwappedOut(Rows, at[w])
        /\ I' = [I EXCEPT ![Rows[Len(Rows)]] = at[w]]
    BY <1>9 DEF RemoveSwap, HoldsRows, LocalsOK, At
  <2>2. Rows' \in Seq(Row) /\ Rows[Len(Rows)] \in Row
    BY <2>1, SwappedOutProperties DEF SharedOK
  <2>3. I' \in [Row -> Nat \ {0}]
    BY <2>1, <2>2 DEF SharedOK
  <2> QED
    BY <1>9, <2>2, <2>3 DEF RemoveSwap, SharedOK
<1>10. ASSUME NEW w \in Worker, Publish(w) PROVE SharedOK'
  <2>1. PICK x \in Index : /\ registered' = x /\ entries' = [entries EXCEPT ![x] = NoEntries]
                           /\ marred' \in {marred \cup {x}, marred \ {x}}
    BY <1>10 DEF Publish
  <2>2. entries' \in [Index -> [Key -> Row \cup {NoRow}]]
    BY <2>1 DEF SharedOK, NoEntries
  <2>3. apart' \in BOOLEAN /\ Rows' = Rows /\ I' = I /\ rowsMutex' = rowsMutex
    BY <1>10 DEF Publish, SharedOK
  <2> QED
    BY <2>1, <2>2, <2>3 DEF SharedOK
<1>11. ASSUME NEW w \in Worker, Header(w) \/ ReadCell(w) PROVE SharedOK'
  BY <1>11 DEF Header, ReadCell, SharedOK
<1>12. ASSUME NEW w \in Worker, Withdraw(w) \/ IndexEncode(w) PROVE SharedOK'
  BY <1>12 DEF Withdraw, IndexEncode, SharedOK
<1>13. ASSUME NEW w \in Worker, Delete(w) \/ DropEncode(w) PROVE SharedOK'
  BY <1>13 DEF Delete, DropEncode, SharedOK
<1>14. CASE UNCHANGED vars
  BY <1>14 DEF vars, SharedOK
<1> QED
  BY <1>1, <1>2, <1>3, <1>4, <1>5, <1>6, <1>7, <1>8, <1>9, <1>10, <1>11, <1>12, <1>13, <1>14
     DEF Next, Step, Request

\* A step that leaves the cells alone, of a worker that visits none.
LEMMA FillsAside ==
  ASSUME FillsOK, NEW w \in Worker, ~At(w, Visiting), UNCHANGED fill,
         \A v \in Worker \ {w} : pc'[v] = pc[v]
  PROVE  FillsOK'
<1>1. cells' = [v \in Worker |-> [k \in DOMAIN cells'[v] |-> cells'[v][k]]]
  BY DEF FillsOK, fill
<1> QED
  BY <1>1 DEF FillsOK, fill, At

\* ... and the cells of the fills.
LEMMA FillsNext ==
  ASSUME LocalsOK, SharedOK, FillsOK, HoldsRows, [Next]_vars
  PROVE  FillsOK'
<1>1. ASSUME NEW w \in Worker, NEW r \in Row, StartInsert(w, r) \/ StartRemove(w, r)
      PROVE  FillsOK'
  BY <1>1, FillsAside DEF StartInsert, StartRemove, At, Goto, LocalsOK, Visiting
<1>2. ASSUME NEW w \in Worker,
             StartFind(w) \/ StartCreate(w) \/ StartDrop(w) \/ Publish(w) \/ Delete(w)
      PROVE  FillsOK'
  BY <1>2, FillsAside DEF StartFind, StartCreate, StartDrop, Publish, Delete, At, Goto, LocalsOK, Visiting
<1>3. ASSUME NEW w \in Worker, InsertEnter(w) \/ InsertStore(w) \/ Find(w) PROVE FillsOK'
  <2>1. CASE Answer(w)
    BY <1>3, <2>1, FillsAside, AnswerIsIdle DEF InsertEnter, InsertStore, Find, At, Visiting
  <2>2. CASE ~Answer(w)
    BY <1>3, <2>2, FillsAside DEF InsertEnter, InsertStore, Find, At, Goto, LocalsOK, Visiting
  <2> QED
    BY <2>1, <2>2
<1>4. ASSUME NEW w \in Worker,
             \/ InsertEncode(w) \/ RemoveEncode(w) \/ Withdraw(w)
             \/ IndexEncode(w) \/ DropEncode(w)
      PROVE  FillsOK'
  BY <1>4, FillsAside, AnswerIsIdle
     DEF InsertEncode, RemoveEncode, Withdraw, IndexEncode, DropEncode, At, Visiting
<1>5. ASSUME NEW w \in Worker, RemoveLock(w) \/ RemoveFree(w) PROVE FillsOK'
  <2>1. \A v \in Worker \ {w} : pc'[v] = pc[v]
    BY <1>5 DEF RemoveLock, RemoveFree, Goto, Answer, LocalsOK
  <2> QED
    BY <1>5, <2>1, FillsAside DEF RemoveLock, RemoveFree, At, Visiting
<1>6. ASSUME NEW w \in Worker, InsertAppend(w) PROVE FillsOK'
  <2>1. row[w] \in Row /\ At(w, {"append"}) /\ pc'[w] = "encode insert"
        /\ \A v \in Worker \ {w} : pc'[v] = pc[v]
    BY <1>6, GotoLabel
       DEF InsertAppend, LocalsOK, RowsOfRequests, At, Label, Inserting
  <2>2. CASE AppendInPlace(row[w])
    <3>1. \A v \in Worker : cells'[v] =
            [k \in DOMAIN cells[v] |-> IF shared[v] /\ k = Len(Rows) + 1 THEN row[w] ELSE cells[v][k]]
      BY <2>2 DEF AppendInPlace
    <3>2. \A v \in Worker : DOMAIN cells'[v] = DOMAIN cells[v]
      BY <3>1
    <3>3. cells' = [v \in Worker |-> [k \in DOMAIN cells'[v] |-> cells'[v][k]]]
      BY <2>2, <3>1, <3>2 DEF AppendInPlace
    <3>4. \A v \in Worker : \A k \in DOMAIN cells'[v] : k \in Nat \ {0} /\ cells'[v][k] \in Row
      <4>1. ASSUME NEW v \in Worker, NEW k \in DOMAIN cells[v]
            PROVE  cells'[v][k] \in {row[w], cells[v][k]}
        <5> DEFINE n == Len(Rows) + 1
        <5>1. cells'[v] = [j \in DOMAIN cells[v] |-> IF shared[v] /\ j = n THEN row[w] ELSE cells[v][j]]
          BY <3>1
        <5> HIDE DEF n
        <5> QED
          BY <5>1
      <4>2. \A v \in Worker : \A k \in DOMAIN cells[v] : k \in Nat \ {0} /\ cells[v][k] \in Row
        BY DEF FillsOK
      <4> QED
        BY <2>1, <3>2, <4>1, <4>2
    <3>5. shared' = shared
      BY <2>2 DEF AppendInPlace
    <3> QED
      BY <2>1, <3>3, <3>4, <3>5 DEF FillsOK, At, Visiting
  <2>3. CASE AppendElsewhere
    <3>1. cells' = cells /\ shared' = [v \in Worker |-> FALSE]
      BY <2>3 DEF AppendElsewhere
    <3>2. cells' = [v \in Worker |-> [k \in DOMAIN cells'[v] |-> cells'[v][k]]]
      BY <3>1 DEF FillsOK
    <3> QED
      BY <3>1, <3>2 DEF FillsOK
  <2> QED
    BY <1>6, <2>2, <2>3 DEF InsertAppend
<1>7. ASSUME NEW w \in Worker, RemoveSwap(w) PROVE FillsOK'
  <2>1. Rows[Len(Rows)] \in Row /\ At(w, {"swap"}) /\ pc'[w] = "encode remove"
        /\ \A v \in Worker \ {w} : pc'[v] = pc[v]
    BY <1>7, GotoLabel, SwappedOutProperties
       DEF RemoveSwap, HoldsRows, SharedOK, At, Label, Removing
  <2>2. \A v \in Worker : cells'[v] =
          [k \in DOMAIN cells[v] |-> IF shared[v] /\ k = at[w] THEN Rows[Len(Rows)] ELSE cells[v][k]]
    BY <1>7 DEF RemoveSwap
  <2>3. \A v \in Worker : DOMAIN cells'[v] = DOMAIN cells[v]
    BY <2>2
  <2>4. cells' = [v \in Worker |-> [k \in DOMAIN cells'[v] |-> cells'[v][k]]]
    BY <1>7, <2>2, <2>3 DEF RemoveSwap
  <2>5. \A v \in Worker : \A k \in DOMAIN cells'[v] : k \in Nat \ {0} /\ cells'[v][k] \in Row
    <3>1. ASSUME NEW v \in Worker, NEW k \in DOMAIN cells[v]
          PROVE  cells'[v][k] \in {Rows[Len(Rows)], cells[v][k]}
      BY <2>2
    <3>2. \A v \in Worker : \A k \in DOMAIN cells[v] : k \in Nat \ {0} /\ cells[v][k] \in Row
      BY DEF FillsOK
    <3> QED
      BY <2>1, <2>3, <3>1, <3>2
  <2> QED
    BY <1>7, <2>1, <2>4, <2>5 DEF RemoveSwap, FillsOK, At, Visiting
<1>8. ASSUME NEW w \in Worker, NEW s, NEW b \in BOOLEAN,
             s = [k \in DOMAIN s |-> s[k]],
             \A k \in DOMAIN s : k \in Nat \ {0} /\ s[k] \in Row,
             cells' = [cells EXCEPT ![w] = s],
             shared' = [shared EXCEPT ![w] = b] \/ (UNCHANGED shared /\ b = shared[w]),
             \A v \in Worker \ {w} : pc'[v] = pc[v],
             b => At(w, Visiting)'
      PROVE  FillsOK'
  <2>1. cells'[w] = s /\ \A v \in Worker \ {w} : cells'[v] = cells[v]
    BY <1>8 DEF FillsOK
  <2>2. cells' = [v \in Worker |-> [k \in DOMAIN cells'[v] |-> cells'[v][k]]]
    BY <1>8, <2>1 DEF FillsOK
  <2>3. \A v \in Worker : \A k \in DOMAIN cells'[v] : k \in Nat \ {0} /\ cells'[v][k] \in Row
    BY <1>8, <2>1 DEF FillsOK
  <2>4. shared' \in [Worker -> BOOLEAN] /\ \A v \in Worker : shared'[v] => At(v, Visiting)'
    BY <1>8 DEF FillsOK, At
  <2> QED
    BY <2>2, <2>3, <2>4 DEF FillsOK
<1>9. ASSUME NEW w \in Worker, Header(w) PROVE FillsOK'
  <2>1. Rows = [k \in DOMAIN Rows |-> Rows[k]] /\ \A k \in DOMAIN Rows : k \in Nat \ {0} /\ Rows[k] \in Row
    BY SequencesOfRows, SeqDef DEF SharedOK
  <2>2. pc'[w] = "read cell" /\ \A v \in Worker \ {w} : pc'[v] = pc[v]
    BY <1>9, GotoLabel DEF Header, Label, Creating, Filling, Visiting
  <2> QED
    BY <1>8, <1>9, <2>1, <2>2 DEF Header, At, Visiting
<1>10. ASSUME NEW w \in Worker, ReadCell(w) PROVE FillsOK'
  <2>1. CASE at[w] \notin DOMAIN cells[w]
    <3>1. pc'[w] = "encode index" /\ \A v \in Worker \ {w} : pc'[v] = pc[v]
      BY <1>10, <2>1, GotoLabel DEF ReadCell, Label, Creating
    <3>2. cells' = cells /\ shared' = [shared EXCEPT ![w] = FALSE]
      BY <1>10, <2>1 DEF ReadCell
    <3>3. cells' = [v \in Worker |-> [k \in DOMAIN cells'[v] |-> cells'[v][k]]]
      BY <3>2 DEF FillsOK
    <3> QED
      BY <3>1, <3>2, <3>3 DEF FillsOK, At, Visiting
  <2>2. CASE at[w] \in DOMAIN cells[w]
    <3> DEFINE s == [k \in DOMAIN cells[w] \ {at[w]} |-> cells[w][k]]
    <3>1. pc'[w] = "add row" /\ \A v \in Worker \ {w} : pc'[v] = pc[v]
      BY <1>10, <2>2, GotoLabel DEF ReadCell, Label, Creating, Filling, Visiting
    <3>2. cells' = [cells EXCEPT ![w] = s] /\ shared' = shared
      BY <1>10, <2>2 DEF ReadCell
    <3>3. s = [k \in DOMAIN s |-> s[k]] /\ \A k \in DOMAIN s : k \in Nat \ {0} /\ s[k] \in Row
      BY DEF FillsOK
    <3>4. shared[w] \in BOOLEAN /\ At(w, Visiting)'
      BY <3>1 DEF FillsOK, At, Visiting
    <3> QED
      BY <1>8, <3>1, <3>2, <3>3, <3>4
  <2> QED
    BY <2>1, <2>2
<1>11. ASSUME NEW w \in Worker, AddCell(w) PROVE FillsOK'
  <2>1. CASE ~Taken(index[w], row[w])
    <3>1. pc'[w] = "store row" /\ \A v \in Worker \ {w} : pc'[v] = pc[v]
      <4>1. Goto(w, "store row")
        BY <1>11, <2>1 DEF AddCell
      <4> QED
        BY <4>1, GotoLabel DEF Label, Creating, Filling, Visiting
    <3>2. cells' = cells /\ shared' = shared
      BY <1>11, <2>1 DEF AddCell, fill
    <3>3. cells' = [v \in Worker |-> [k \in DOMAIN cells'[v] |-> cells'[v][k]]]
      BY <3>2 DEF FillsOK
    <3> QED
      BY <3>1, <3>2, <3>3 DEF FillsOK, At, Visiting
  <2>2. CASE Taken(index[w], row[w])
    <3>1. pc'[w] = "withdraw" /\ \A v \in Worker \ {w} : pc'[v] = pc[v]
      BY <1>11, <2>2, GotoLabel DEF AddCell, Label, Creating, Filling, Visiting
    <3>2. cells' = [cells EXCEPT ![w] = NoCells] /\ shared' = [shared EXCEPT ![w] = FALSE]
      BY <1>11, <2>2 DEF AddCell
    <3>3. NoCells = [k \in DOMAIN NoCells |-> NoCells[k]] /\ DOMAIN NoCells = {}
      BY DEF NoCells
    <3> QED
      BY <1>8, <3>1, <3>2, <3>3
  <2> QED
    BY <2>1, <2>2
<1>12. ASSUME NEW w \in Worker, StoreCell(w) PROVE FillsOK'
  <2>1. pc'[w] = "read cell" /\ \A v \in Worker \ {w} : pc'[v] = pc[v]
    BY <1>12 DEF StoreCell, Goto, LocalsOK
  <2>2. cells' = cells /\ shared' = shared
    BY <1>12 DEF StoreCell, fill
  <2>3. cells' = [v \in Worker |-> [k \in DOMAIN cells'[v] |-> cells'[v][k]]]
    BY <2>2 DEF FillsOK
  <2> QED
    BY <2>1, <2>2, <2>3 DEF FillsOK, At, Visiting
<1>13. CASE UNCHANGED vars
  <2>1. UNCHANGED <<cells, shared, pc>>
    BY <1>13 DEF vars
  <2>2. cells' = [v \in Worker |-> [k \in DOMAIN cells'[v] |-> cells'[v][k]]]
    BY <2>1 DEF FillsOK
  <2> QED
    BY <2>1, <2>2 DEF FillsOK, At
<1> QED
  BY <1>1, <1>2, <1>3, <1>4, <1>5, <1>6, <1>7, <1>9, <1>10, <1>11, <1>12, <1>13
     DEF Next, Step, Request

\* The journal keeps its type.
LEMMA DiskNext ==
  ASSUME LocalsOK, SharedOK, disk \in Image, [Next]_vars
  PROVE  disk' \in Image
<1>1. /\ Unreadable \in Image
      /\ disk.ok \in BOOLEAN /\ disk.keys \in Seq(Key) /\ disk.indexed \in BOOLEAN
      /\ disk = [ok |-> disk.ok, keys |-> disk.keys, indexed |-> disk.indexed]
  BY DEF Image, Unreadable
<1>2. ASSUME NEW w \in Worker, InsertEncode(w) PROVE disk' \in Image
  <2>1. row[w] \in Row /\ KeyOf[row[w]] \in Key
    BY <1>2, IndexBuildAssumption DEF InsertEncode, LocalsOK, RowsOfRequests, At, Inserting
  <2>2. Append(disk.keys, KeyOf[row[w]]) \in Seq(Key)
    BY <1>1, <2>1
  <2>3. disk' \in {Unreadable, [disk EXCEPT !.keys = Append(@, KeyOf[row[w]])]}
    BY <1>2 DEF InsertEncode, WriteInsert
  <2> QED
    BY <1>1, <2>2, <2>3 DEF Image
<1>3. ASSUME NEW w \in Worker, RemoveEncode(w) PROVE disk' \in Image
  <2>1. CASE ~disk.ok \/ at[w] > Len(disk.keys)
    BY <1>1, <1>3, <2>1 DEF RemoveEncode, WriteRemove
  <2>2. CASE disk.ok /\ ~(at[w] > Len(disk.keys))
    <3>1. at[w] \in Nat \ {0} /\ Len(disk.keys) \in Nat /\ DOMAIN disk.keys = 1 .. Len(disk.keys)
      BY <1>1, LenProperties DEF LocalsOK
    <3>2. at[w] \in DOMAIN disk.keys
      BY <2>2, <3>1
    <3>3. SwappedOut(disk.keys, at[w]) \in Seq(Key)
      BY <1>1, <3>2, SwappedOutProperties
    <3>4. disk' = [disk EXCEPT !.keys = SwappedOut(@, at[w])]
      BY <1>3, <2>2 DEF RemoveEncode, WriteRemove
    <3> QED
      BY <1>1, <3>3, <3>4 DEF Image
  <2> QED
    BY <2>1, <2>2
<1>4. ASSUME NEW w \in Worker, IndexEncode(w) \/ DropEncode(w) PROVE disk' \in Image
  <2>1. \E b \in BOOLEAN : disk' = [disk EXCEPT !.indexed = b]
    BY <1>1, <1>4 DEF IndexEncode, DropEncode, WriteIndex, WriteDrop
  <2> QED
    BY <1>1, <2>1 DEF Image
<1>5. CASE UNCHANGED disk
  BY <1>5
<1> QED
  BY <1>2, <1>3, <1>4, <1>5
     DEF Next, Step, Request, vars, StartInsert, InsertEnter, InsertStore, InsertAppend,
         StartRemove, StartFind, Find, RemoveLock, RemoveFree, RemoveSwap, StartCreate, Publish,
         Header, ReadCell, AddCell, StoreCell, Withdraw, StartDrop, Delete

LEMMA TypeNext == TypeInv /\ HoldsRows /\ [Next]_vars => TypeInv'
<1> SUFFICES ASSUME TypeInv, HoldsRows, [Next]_vars PROVE TypeInv'
  OBVIOUS
<1>1. LocalsOK /\ SharedOK /\ FillsOK /\ disk \in Image
  BY TypesInParts
<1>2. LocalsOK' /\ SharedOK' /\ FillsOK' /\ disk' \in Image
  BY <1>1, LocalsNext, SharedNext, FillsNext, DiskNext
<1> QED
  BY <1>2 DEF TypeInv, TypeOK, LocalsOK, SharedOK, FillsOK, Label, RowsOfRequests, IndexesInUse, At

-----------------------------------------------------------------------------
\* A step is the step of one worker.
LEMMA OthersWait ==
  ASSUME LocalsOK, NEW w \in Worker, Step(w) \/ Request(w)
  PROVE  \A v \in Worker \ {w} :
           pc'[v] = pc[v] /\ row'[v] = row[v] /\ index'[v] = index[v] /\ at'[v] = at[v]
<1> USE DEF LocalsOK, Goto, Answer
<1>1. CASE InsertEnter(w) \/ InsertStore(w) \/ InsertAppend(w) \/ InsertEncode(w)
  BY <1>1 DEF InsertEnter, InsertStore, InsertAppend, InsertEncode
<1>2. CASE Find(w) \/ RemoveLock(w) \/ RemoveFree(w) \/ RemoveSwap(w) \/ RemoveEncode(w)
  BY <1>2 DEF Find, RemoveLock, RemoveFree, RemoveSwap, RemoveEncode
<1>3. CASE Publish(w)
  BY <1>3 DEF Publish
<1>4. CASE Header(w) \/ Withdraw(w) \/ IndexEncode(w) \/ Delete(w) \/ DropEncode(w)
  BY <1>4 DEF Header, Withdraw, IndexEncode, Delete, DropEncode
<1>5. CASE ReadCell(w)
  BY <1>5 DEF ReadCell
<1>6. CASE AddCell(w) \/ StoreCell(w)
  BY <1>6 DEF AddCell, StoreCell
<1>7. CASE Request(w)
  BY <1>7 DEF Request, StartInsert, StartRemove, StartFind, StartCreate, StartDrop
<1> QED
  BY <1>1, <1>2, <1>3, <1>4, <1>5, <1>6, <1>7 DEF Step

-----------------------------------------------------------------------------
\* row.I is the place of a row in Rows; one that is to be appended is not there
\* yet and belongs to one worker.
RowsKnowTheirPlace == \A k \in DOMAIN Rows : I[Rows[k]] = k
NewRows ==
  \A w \in Worker : At(w, {"enter", "store", "append"}) =>
    /\ row[w] \notin In(Rows)
    /\ \A v \in Worker : At(v, {"enter", "store", "append"}) /\ row[v] = row[w] => v = w

PlaceInv == RowsKnowTheirPlace /\ NewRows /\ HoldsRows

\* A step that leaves Rows alone, of a worker that neither begins an insert nor
\* has read a position.
LEMMA PlacesAside ==
  ASSUME PlaceInv, NEW w \in Worker, UNCHANGED <<Rows, I, rowsMutex>>,
         \/ pc'[w] \notin {"enter", "store", "append", "free", "swap"}
         \/ /\ pc[w] \in {"enter", "store"} /\ pc'[w] \in {"store", "append"}
            /\ row'[w] = row[w]
         \/ pc[w] = "free" /\ pc'[w] = "swap" /\ at'[w] = at[w],
         \A v \in Worker \ {w} : pc'[v] = pc[v] /\ row'[v] = row[v] /\ at'[v] = at[v]
  PROVE  PlaceInv'
<1>1. In(Rows)' = In(Rows)
  BY DEF In
<1>2. RowsKnowTheirPlace'
  BY DEF PlaceInv, RowsKnowTheirPlace
<1>3. NewRows'
  BY <1>1 DEF PlaceInv, NewRows, At
<1>4. HoldsRows'
  BY DEF PlaceInv, HoldsRows, At
<1> QED
  BY <1>2, <1>3, <1>4 DEF PlaceInv

LEMMA PlaceNext ==
  ASSUME LocalsOK, SharedOK, PlaceInv, [Next]_vars
  PROVE  PlaceInv'
<1>1. ASSUME NEW w \in Worker, NEW r \in Row, StartInsert(w, r) PROVE PlaceInv'
  <2>1. /\ pc'[w] \in {"enter", "append"} /\ row'[w] = r /\ r \notin In(Rows)
        /\ Rows' = Rows /\ rowsMutex' = rowsMutex /\ I' = [I EXCEPT ![r] = 1]
        /\ \A v \in Worker : row[v] # r
    BY <1>1 DEF StartInsert, FreshRow, LocalsOK, Goto
  <2>2. \A v \in Worker \ {w} : pc'[v] = pc[v] /\ row'[v] = row[v] /\ at'[v] = at[v]
    BY <1>1, OthersWait DEF Request
  <2>3. In(Rows)' = In(Rows)
    BY <2>1 DEF In
  <2>4. NewRows'
    BY <2>1, <2>2, <2>3 DEF PlaceInv, NewRows, At
  <2>5. RowsKnowTheirPlace'
    <3>1. \A k \in DOMAIN Rows : Rows[k] \in Row /\ Rows[k] # r
      BY <2>1, SequencesOfRows DEF SharedOK
    <3> QED
      BY <2>1, <3>1 DEF PlaceInv, RowsKnowTheirPlace, SharedOK
  <2>6. HoldsRows'
    BY <2>1, <2>2 DEF PlaceInv, HoldsRows, At
  <2> QED
    BY <2>4, <2>5, <2>6 DEF PlaceInv
<1>2. ASSUME NEW w \in Worker,
             InsertEnter(w) \/ InsertStore(w) \/ RemoveFree(w)
      PROVE  PlaceInv'
  <2>1. \A v \in Worker \ {w} : pc'[v] = pc[v] /\ row'[v] = row[v] /\ at'[v] = at[v]
    BY <1>2, OthersWait DEF Step
  <2>2. UNCHANGED <<Rows, I, rowsMutex>>
    BY <1>2 DEF InsertEnter, InsertStore, RemoveFree, data
  <2>3. \/ pc'[w] = "idle"
        \/ /\ pc[w] \in {"enter", "store"} /\ pc'[w] \in {"store", "append"}
           /\ row'[w] = row[w]
        \/ pc[w] = "free" /\ pc'[w] = "swap" /\ at'[w] = at[w]
    BY <1>2 DEF InsertEnter, InsertStore, RemoveFree, Answer, Goto, At, LocalsOK
  <2> QED
    BY <2>1, <2>2, <2>3, PlacesAside
<1>3. ASSUME NEW w \in Worker, InsertAppend(w) PROVE PlaceInv'
  <2>1. /\ pc[w] = "append" /\ Rows' = Append(Rows, row[w]) /\ rowsMutex' = rowsMutex
        /\ pc'[w] = "encode insert" /\ row[w] \in Row /\ rowsMutex = Nobody
        /\ I' = [I EXCEPT ![row[w]] = Len(Rows) + 1]
    BY <1>3 DEF InsertAppend, LocalsOK, RowsOfRequests, At, Goto, Inserting
  <2>2. \A v \in Worker \ {w} : pc'[v] = pc[v] /\ row'[v] = row[v] /\ at'[v] = at[v]
    BY <1>3, OthersWait DEF Step
  <2>3. /\ DOMAIN Rows = 1 .. Len(Rows) /\ Len(Rows) \in Nat
        /\ DOMAIN Rows' = 1 .. Len(Rows) + 1
        /\ \A k \in DOMAIN Rows : Rows'[k] = Rows[k]
        /\ Rows'[Len(Rows) + 1] = row[w]
    <3>1. Rows \in Seq(Row)
      BY DEF SharedOK
    <3>2. /\ DOMAIN Append(Rows, row[w]) = 1 .. Len(Rows) + 1
          /\ \A k \in 1 .. Len(Rows) : Append(Rows, row[w])[k] = Rows[k]
          /\ Append(Rows, row[w])[Len(Rows) + 1] = row[w]
          /\ DOMAIN Rows = 1 .. Len(Rows) /\ Len(Rows) \in Nat
      <4>1. row[w] \in Row
        BY <2>1
      <4> QED
        BY <3>1, <4>1, AppendElements
    <3> DEFINE t == Append(Rows, row[w])
    <3>3. Rows' = t
      BY <2>1
    <3> HIDE DEF t
    <3>4. /\ DOMAIN t = 1 .. Len(Rows) + 1
          /\ \A k \in 1 .. Len(Rows) : t[k] = Rows[k]
          /\ t[Len(Rows) + 1] = row[w]
      BY <3>2 DEF t
    <3> QED
      BY <3>2, <3>3, <3>4
  <2>4. In(Rows)' = In(Rows) \cup {row[w]} /\ row[w] \notin In(Rows)
    <3>1. row[w] \notin In(Rows)
      BY <2>1 DEF PlaceInv, NewRows, At
    <3> QED
      BY <2>3, <3>1 DEF In
  <2>5. RowsKnowTheirPlace'
    <3> SUFFICES ASSUME NEW k \in 1 .. Len(Rows) + 1 PROVE I'[Rows'[k]] = k
      BY <2>3 DEF RowsKnowTheirPlace
    <3>1. \A j \in DOMAIN Rows : Rows[j] \in Row /\ Rows[j] # row[w] /\ I[Rows[j]] = j
      BY <2>4, SequencesOfRows DEF SharedOK, PlaceInv, RowsKnowTheirPlace
    <3>2. \A q \in Row : I'[q] = IF q = row[w] THEN Len(Rows) + 1 ELSE I[q]
      BY <2>1 DEF SharedOK
    <3>3. CASE k = Len(Rows) + 1
      BY <2>1, <2>3, <3>2, <3>3
    <3>4. CASE k \in DOMAIN Rows
      BY <2>3, <3>1, <3>2, <3>4
    <3> QED
      BY <2>3, <3>3, <3>4
  <2>6. NewRows'
    BY <2>1, <2>2, <2>4 DEF PlaceInv, NewRows, At
  <2>7. HoldsRows'
    BY <2>1, <2>2, IndexBuildAssumption DEF PlaceInv, HoldsRows, At
  <2> QED
    BY <2>5, <2>6, <2>7 DEF PlaceInv
<1>4. ASSUME NEW w \in Worker, RemoveLock(w), ~Answer(w) PROVE PlaceInv'
  <2>1. /\ pc[w] = "lock" /\ pc'[w] = "free" /\ row'[w] = row[w] /\ Rows' = Rows /\ I' = I
        /\ rowsMutex' = w /\ rowsMutex = Nobody
        /\ at'[w] = I[row[w]] /\ ~(Len(Rows) < I[row[w]])
    BY <1>4 DEF RemoveLock, LocalsOK, Goto, At
  <2>2. \A v \in Worker \ {w} : pc'[v] = pc[v] /\ row'[v] = row[v] /\ at'[v] = at[v]
    BY <1>4, OthersWait DEF Step
  <2>3. In(Rows)' = In(Rows)
    BY <2>1 DEF In
  <2>4. RowsKnowTheirPlace' /\ NewRows'
    <3>1. RowsKnowTheirPlace'
      BY <2>1 DEF PlaceInv, RowsKnowTheirPlace
    <3>2. NewRows'
      BY <2>1, <2>2, <2>3 DEF PlaceInv, NewRows, At
    <3> QED
      BY <3>1, <3>2
  <2>5. at'[w] \in DOMAIN Rows
    <3>1. I[row[w]] \in Nat \ {0} /\ DOMAIN Rows = 1 .. Len(Rows) /\ Len(Rows) \in Nat
      <4>1. row[w] \in Row
        BY <2>1 DEF LocalsOK, RowsOfRequests, At, Removing
      <4> QED
        BY <4>1, SequencesOfRows DEF SharedOK
    <3> QED
      BY <2>1, <3>1
  <2>6. HoldsRows'
    BY <2>1, <2>2, <2>5, IndexBuildAssumption DEF PlaceInv, HoldsRows, At
  <2> QED
    BY <2>4, <2>6 DEF PlaceInv
<1>5. ASSUME NEW w \in Worker, RemoveSwap(w) PROVE PlaceInv'
  <2>1. /\ pc[w] = "swap" /\ pc'[w] = "encode remove" /\ Rows' = SwappedOut(Rows, at[w])
        /\ I' = [I EXCEPT ![Rows[Len(Rows)]] = at[w]]
        /\ rowsMutex = w /\ at[w] \in DOMAIN Rows
    BY <1>5 DEF RemoveSwap, LocalsOK, Goto, At, PlaceInv, HoldsRows
  <2>2. \A v \in Worker \ {w} : pc'[v] = pc[v] /\ row'[v] = row[v] /\ at'[v] = at[v]
    BY <1>5, OthersWait DEF Step
  <2>3. /\ DOMAIN Rows = 1 .. Len(Rows) /\ Len(Rows) \in Nat \ {0}
        /\ DOMAIN Rows' = 1 .. Len(Rows) - 1
        /\ \A k \in 1 .. Len(Rows) - 1 : Rows'[k] = IF k = at[w] THEN Rows[Len(Rows)] ELSE Rows[k]
    <3>1. Rows \in Seq(Row)
      BY DEF SharedOK
    <3> DEFINE t == SwappedOut(Rows, at[w])
    <3>2. /\ DOMAIN t = 1 .. Len(Rows) - 1 /\ DOMAIN Rows = 1 .. Len(Rows)
          /\ Len(Rows) \in Nat \ {0}
          /\ \A k \in 1 .. Len(Rows) - 1 : t[k] = IF k = at[w] THEN Rows[Len(Rows)] ELSE Rows[k]
      <4>1. at[w] \in DOMAIN Rows
        BY <2>1
      <4> QED
        BY <3>1, <4>1, SwappedOutProperties
    <3>3. Rows' = t
      BY <2>1
    <3> HIDE DEF t
    <3> QED
      BY <3>2, <3>3
  <2>4. In(Rows)' \subseteq In(Rows)
    BY <2>3 DEF In
  <2>5. RowsKnowTheirPlace'
    <3> SUFFICES ASSUME NEW k \in 1 .. Len(Rows) - 1 PROVE I'[Rows'[k]] = k
      BY <2>3 DEF RowsKnowTheirPlace
    <3>1. /\ \A m \in DOMAIN Rows : Rows[m] \in Row /\ I[Rows[m]] = m
          /\ k \in DOMAIN Rows /\ Len(Rows) \in DOMAIN Rows /\ k # Len(Rows)
      <4>1. \A m \in DOMAIN Rows : Rows[m] \in Row /\ I[Rows[m]] = m
        BY SequencesOfRows DEF SharedOK, PlaceInv, RowsKnowTheirPlace
      <4>2. k \in DOMAIN Rows /\ Len(Rows) \in DOMAIN Rows /\ k # Len(Rows)
        <5>1. Len(Rows) \in Nat \ {0} /\ DOMAIN Rows = 1 .. Len(Rows)
          BY <2>3
        <5>2. \A n \in Nat \ {0} : \A j \in 1 .. n - 1 : j \in 1 .. n /\ n \in 1 .. n /\ j # n
          OBVIOUS
        <5>3. k \in 1 .. Len(Rows) - 1
          OBVIOUS
        <5> QED
          BY <5>1, <5>2, <5>3
      <4> QED
        BY <4>1, <4>2
    <3>2. \A r \in Row : I'[r] = IF r = Rows[Len(Rows)] THEN at[w] ELSE I[r]
      BY <2>1, <3>1 DEF SharedOK
    <3>3. CASE k = at[w]
      BY <2>3, <3>1, <3>2, <3>3
    <3>4. CASE k # at[w]
      <4>1. Rows'[k] = Rows[k] /\ Rows[k] # Rows[Len(Rows)]
        BY <2>3, <3>1, <3>4
      <4> QED
        BY <3>1, <3>2, <4>1
    <3> QED
      BY <3>3, <3>4
  <2>6. NewRows'
    BY <2>1, <2>2, <2>4 DEF PlaceInv, NewRows, At
  <2>7. HoldsRows'
    BY <2>1, <2>2 DEF PlaceInv, HoldsRows, At
  <2> QED
    BY <2>5, <2>6, <2>7 DEF PlaceInv
<1>6. ASSUME NEW w \in Worker, Answer(w),
             \/ InsertEncode(w) \/ RemoveEncode(w) \/ Withdraw(w)
             \/ IndexEncode(w) \/ DropEncode(w) \/ Find(w) \/ RemoveLock(w)
      PROVE  PlaceInv'
  <2>1. UNCHANGED <<Rows, I, rowsMutex>>
    BY <1>6, IndexBuildAssumption
       DEF InsertEncode, RemoveEncode, Withdraw, IndexEncode, DropEncode, Find, RemoveLock,
           data, Answer, Goto, LocalsOK, At
  <2> QED
    BY <1>6, <2>1, AnswerIsIdle, PlacesAside
<1>7. ASSUME NEW w \in Worker,
             \/ \E r \in Row : StartRemove(w, r)
             \/ StartFind(w) \/ (Find(w) /\ ~Answer(w))
             \/ StartCreate(w) \/ Publish(w) \/ Header(w) \/ ReadCell(w) \/ AddCell(w) \/ StoreCell(w)
             \/ StartDrop(w) \/ Delete(w)
      PROVE  PlaceInv'
  <2>1. \A v \in Worker \ {w} : pc'[v] = pc[v] /\ row'[v] = row[v] /\ at'[v] = at[v]
    BY <1>7, OthersWait DEF Step, Request
  <2>2. UNCHANGED <<Rows, I, rowsMutex>>
    BY <1>7 DEF StartRemove, StartFind, Find, StartCreate, Publish, Header, ReadCell, AddCell,
                StoreCell, StartDrop, Delete, data
  <2>3. pc'[w] \in {"find", "lock"} \cup Creating \cup Dropping
    BY <1>7 DEF StartRemove, StartFind, Find, StartCreate, Publish, Header, ReadCell, AddCell,
                StoreCell, StartDrop, Delete, Goto, LocalsOK, Creating, Filling, Visiting, Dropping
  <2>4. pc'[w] \notin {"enter", "store", "append", "free", "swap"}
    BY <2>3 DEF Creating, Filling, Visiting, Dropping
  <2> QED
    BY <2>1, <2>2, <2>4, PlacesAside
<1>8. CASE UNCHANGED vars
  BY <1>8 DEF vars, PlaceInv, RowsKnowTheirPlace, NewRows, HoldsRows, At, In
<1>9. \A w \in Worker :
        InsertEncode(w) \/ RemoveEncode(w) \/ Withdraw(w) \/ IndexEncode(w) \/ DropEncode(w)
        => Answer(w)
  BY DEF InsertEncode, RemoveEncode, Withdraw, IndexEncode, DropEncode
<1> QED
  BY <1>1, <1>2, <1>3, <1>4, <1>5, <1>6, <1>7, <1>8, <1>9 DEF Next, Step, Request

-----------------------------------------------------------------------------
\* An index object is filled by one worker.
OneFills ==
  \A v, w \in Worker : At(v, Filling) /\ At(w, Filling) /\ index[v] = index[w] => v = w

LEMMA OneFillsNext ==
  ASSUME LocalsOK, OneFills, [Next]_vars
  PROVE  OneFills'
<1>1. ASSUME NEW w \in Worker, Publish(w) PROVE OneFills'
  <2>1. PICK x \in Index : FreshIndex(x) /\ index' = [index EXCEPT ![w] = x]
    BY <1>1 DEF Publish
  <2>2. index'[w] = x /\ \A v \in Worker : index[v] # x
    BY <2>1 DEF LocalsOK, FreshIndex
  <2>3. \A v \in Worker \ {w} : pc'[v] = pc[v] /\ index'[v] = index[v]
    BY <1>1, OthersWait DEF Step
  <2> QED
    BY <2>2, <2>3 DEF OneFills, At
<1>2. ASSUME NEW w \in Worker,
             \A v \in Worker \ {w} : pc'[v] = pc[v] /\ index'[v] = index[v],
             At(w, Filling)' => At(w, Filling) /\ index'[w] = index[w]
      PROVE  OneFills'
  BY <1>2 DEF OneFills, At
<1>3. ASSUME NEW w \in Worker,
             Header(w) \/ ReadCell(w) \/ AddCell(w) \/ StoreCell(w)
      PROVE  OneFills'
  <2>1. At(w, Filling)
    BY <1>3 DEF Header, ReadCell, AddCell, StoreCell, At, Filling, Visiting
  <2>2. At(w, Filling)' => index'[w] = index[w]
    <3>1. UNCHANGED index \/ Goto(w, "encode index")
      BY <1>3 DEF Header, ReadCell, AddCell, StoreCell
    <3>2. Goto(w, "encode index") => ~At(w, Filling)'
      BY DEF Goto, LocalsOK, At, Filling, Visiting
    <3> QED
      BY <3>1, <3>2
  <2> QED
    BY <1>2, <1>3, <2>1, <2>2, OthersWait DEF Step
<1>4. ASSUME NEW w \in Worker,
             \/ Request(w) \/ InsertEnter(w) \/ InsertStore(w) \/ InsertAppend(w)
             \/ InsertEncode(w) \/ Find(w)
             \/ RemoveLock(w) \/ RemoveFree(w) \/ RemoveSwap(w) \/ RemoveEncode(w)
             \/ Withdraw(w) \/ IndexEncode(w) \/ Delete(w) \/ DropEncode(w)
      PROVE  OneFills'
  <2>1. pc'[w] \notin Filling
    BY <1>4 DEF Request, StartInsert, StartRemove, StartFind, StartCreate, StartDrop,
                InsertEnter, InsertStore, InsertAppend, InsertEncode, Find,
                RemoveLock, RemoveFree, RemoveSwap, RemoveEncode,
                Withdraw, IndexEncode, Delete, DropEncode,
                Goto, Answer, LocalsOK, Filling, Visiting
  <2>2. ~At(w, Filling)'
    BY <2>1 DEF At
  <2> QED
    BY <1>2, <1>4, <2>2, OthersWait DEF Step
<1>5. CASE UNCHANGED vars
  BY <1>5 DEF vars, OneFills, At
<1> QED
  BY <1>1, <1>3, <1>4, <1>5 DEF Next, Step

\* The cells a fill has still to visit go from its cursor to its end.
Upwards(w) ==
  \A k \in DOMAIN cells[w] : at[w] <= k /\ at[w] .. k \subseteq DOMAIN cells[w]
FillGoesUp ==
  \A w \in Worker :
    /\ At(w, {"idle", "publish", "header"}) => at[w] = 1
    /\ At(w, Visiting) => Upwards(w)

\* Overwriting leaves every cell where it is.
LEMMA CellsStay ==
  ASSUME FillsOK, NEW w \in Worker, InsertAppend(w) \/ RemoveSwap(w)
  PROVE  \A v \in Worker : DOMAIN cells'[v] = DOMAIN cells[v]
<1>1. CASE RemoveSwap(w)
  BY <1>1 DEF RemoveSwap
<1>2. CASE AppendInPlace(row[w])
  <2>1. \A v \in Worker : cells'[v] = [k \in DOMAIN cells[v] |->
          IF shared[v] /\ k = Len(Rows) + 1 THEN row[w] ELSE cells[v][k]]
    BY <1>2 DEF AppendInPlace
  <2> QED
    BY <2>1
<1>3. CASE AppendElsewhere
  BY <1>3 DEF AppendElsewhere
<1> QED
  BY <1>1, <1>2, <1>3 DEF InsertAppend

LEMMA FillGoesUpNext ==
  ASSUME LocalsOK, SharedOK, FillsOK, FillGoesUp, [Next]_vars
  PROVE  FillGoesUp'
<1>1. ASSUME NEW w \in Worker,
             \A v \in Worker \ {w} : pc'[v] = pc[v] /\ at'[v] = at[v],
             \A v \in Worker \ {w} : DOMAIN cells'[v] = DOMAIN cells[v],
             At(w, {"idle", "publish", "header"})' => at'[w] = 1,
             At(w, Visiting)' => Upwards(w)'
      PROVE  FillGoesUp'
  <2>1. \A v \in Worker \ {w} : Upwards(v) => Upwards(v)'
    BY <1>1 DEF Upwards
  <2> QED
    BY <1>1, <2>1 DEF FillGoesUp, At
<1>2. ASSUME NEW w \in Worker, Answer(w),
             \/ InsertEncode(w) \/ RemoveEncode(w) \/ Withdraw(w) \/ IndexEncode(w)
             \/ DropEncode(w) \/ InsertEnter(w) \/ Find(w) \/ RemoveLock(w)
      PROVE  FillGoesUp'
  <2>1. pc'[w] = "idle" /\ at'[w] = 1 /\ UNCHANGED cells
    BY <1>2, AnswerIsIdle
       DEF InsertEncode, RemoveEncode, Withdraw, IndexEncode, DropEncode, InsertEnter, Find,
           RemoveLock, fill
  <2> QED
    BY <1>1, <1>2, <2>1, OthersWait DEF Step, At, Visiting
<1>3. ASSUME NEW w \in Worker, StartCreate(w) \/ Publish(w) PROVE FillGoesUp'
  <2>1. UNCHANGED <<cells, at>> /\ pc[w] \in {"idle", "publish"} /\ pc'[w] \in {"publish", "header"}
    BY <1>3 DEF StartCreate, Publish, Goto, LocalsOK, At, fill
  <2>2. at'[w] = 1
    BY <2>1 DEF FillGoesUp, At
  <2> QED
    BY <1>1, <1>3, <2>1, <2>2, OthersWait DEF Step, Request, At, Visiting
<1>10. ASSUME NEW w \in Worker,
              \/ \E r \in Row : StartInsert(w, r) \/ StartRemove(w, r)
              \/ StartFind(w) \/ StartDrop(w) \/ RemoveFree(w) \/ Delete(w) \/ InsertStore(w)
              \/ ((InsertEnter(w) \/ Find(w) \/ RemoveLock(w)) /\ ~Answer(w))
       PROVE  FillGoesUp'
  <2>1. UNCHANGED cells
    BY <1>10 DEF StartInsert, StartRemove, StartFind, StartDrop, RemoveFree, Delete, InsertStore,
                 InsertEnter, Find, RemoveLock, fill
  <2>2. pc'[w] \in {"enter", "store", "append", "find", "lock", "free", "swap", "delete", "encode drop"}
    BY <1>10 DEF StartInsert, StartRemove, StartFind, StartDrop, RemoveFree, Delete, InsertStore,
                 InsertEnter, Find, RemoveLock, Goto, LocalsOK
  <2> QED
    BY <1>1, <1>10, <2>1, <2>2, OthersWait DEF Step, Request, At, Visiting
<1>4. ASSUME NEW w \in Worker, InsertAppend(w) \/ RemoveSwap(w) PROVE FillGoesUp'
  <2>1. \E label \in {"encode insert", "encode remove"} : Goto(w, label)
    BY <1>4 DEF InsertAppend, RemoveSwap
  <2>2. pc'[w] \in {"encode insert", "encode remove"}
    BY <2>1, GotoLabel DEF Label, Inserting, Removing
  <2> QED
    BY <1>1, <1>4, <2>2, CellsStay, OthersWait DEF Step, At, Visiting
<1>5. ASSUME NEW w \in Worker, Header(w) PROVE FillGoesUp'
  <2>1. pc'[w] = "read cell" /\ at[w] = 1 /\ at'[w] = at[w]
    BY <1>5, GotoLabel DEF Header, Label, Creating, Filling, Visiting, FillGoesUp, At
  <2>2. cells'[w] = Rows /\ \A v \in Worker \ {w} : cells'[v] = cells[v]
    BY <1>5 DEF Header, FillsOK
  <2>3. Upwards(w)'
    <3>1. DOMAIN Rows = 1 .. Len(Rows) /\ Len(Rows) \in Nat
      BY SequencesOfRows DEF SharedOK
    <3>2. \A k \in 1 .. Len(Rows) : 1 <= k /\ 1 .. k \subseteq 1 .. Len(Rows)
      BY <3>1
    <3>3. at'[w] = 1 /\ DOMAIN cells'[w] = 1 .. Len(Rows)
      BY <2>1, <2>2, <3>1
    <3> QED
      BY <3>2, <3>3 DEF Upwards
  <2> QED
    BY <1>1, <1>5, <2>1, <2>2, <2>3, OthersWait DEF Step, At, Visiting
<1>6. ASSUME NEW w \in Worker, ReadCell(w) PROVE FillGoesUp'
  <2>1. CASE at[w] \notin DOMAIN cells[w]
    <3>1. Goto(w, "encode index") /\ UNCHANGED cells
      BY <1>6, <2>1 DEF ReadCell
    <3>2. pc'[w] = "encode index"
      BY <3>1, GotoLabel DEF Label, Creating
    <3> QED
      BY <1>1, <1>6, <3>1, <3>2, OthersWait DEF Step, At, Visiting
  <2>2. CASE at[w] \in DOMAIN cells[w]
    <3>1. /\ Goto(w, "add row") /\ at' = [at EXCEPT ![w] = at[w] + 1] /\ At(w, {"read cell"})
          /\ cells' = [cells EXCEPT ![w] = [k \in DOMAIN cells[w] \ {at[w]} |-> cells[w][k]]]
      BY <1>6, <2>2 DEF ReadCell
    <3>2. pc'[w] = "add row"
      BY <3>1, GotoLabel DEF Label, Creating, Filling, Visiting
    <3>3. DOMAIN cells'[w] = DOMAIN cells[w] \ {at[w]} /\ \A v \in Worker \ {w} : cells'[v] = cells[v]
      BY <3>1 DEF FillsOK
    <3>4. at'[w] = at[w] + 1 /\ at[w] \in Nat \ {0}
      BY <3>1 DEF LocalsOK
    <3>5. Upwards(w) /\ \A k \in DOMAIN cells[w] : k \in Nat
      BY <3>1 DEF FillGoesUp, FillsOK, At, Visiting
    <3>6. Upwards(w)'
      BY <3>3, <3>4, <3>5 DEF Upwards
    <3> QED
      BY <1>1, <1>6, <3>2, <3>3, <3>6, OthersWait DEF Step, At, Visiting
  <2> QED
    BY <2>1, <2>2
<1>7. ASSUME NEW w \in Worker, AddCell(w) \/ StoreCell(w) PROVE FillGoesUp'
  <2>1. CASE UNCHANGED <<at, cells>>
    <3>1. pc[w] \in {"add row", "store row"} /\ pc'[w] \in {"read cell", "store row", "withdraw"}
      BY <1>7 DEF AddCell, StoreCell, At, Goto, LocalsOK
    <3>2. Upwards(w)'
      BY <2>1, <3>1 DEF FillGoesUp, Upwards, At, Visiting
    <3> QED
      BY <1>1, <1>7, <2>1, <3>1, <3>2, OthersWait DEF Step, At
  <2>2. CASE ~UNCHANGED <<at, cells>>
    <3>1. Goto(w, "withdraw") /\ cells' = [cells EXCEPT ![w] = NoCells]
      BY <1>7, <2>2 DEF AddCell, StoreCell, fill
    <3>2. pc'[w] = "withdraw" /\ \A v \in Worker \ {w} : cells'[v] = cells[v]
      BY <3>1 DEF Goto, LocalsOK, FillsOK
    <3> QED
      BY <1>1, <1>7, <3>2, OthersWait DEF Step, At, Visiting
  <2> QED
    BY <2>1, <2>2
<1>8. CASE UNCHANGED vars
  <2>1. UNCHANGED <<pc, at, cells>>
    BY <1>8 DEF vars
  <2> QED
    BY <2>1 DEF FillGoesUp, Upwards, At
<1>9. \A w \in Worker :
        InsertEncode(w) \/ RemoveEncode(w) \/ Withdraw(w) \/ IndexEncode(w) \/ DropEncode(w)
        => Answer(w)
  BY DEF InsertEncode, RemoveEncode, Withdraw, IndexEncode, DropEncode
<1> QED
  BY <1>2, <1>3, <1>10, <1>4, <1>5, <1>6, <1>7, <1>8, <1>9 DEF Next, Step, Request

\* An entry leads to a row of its key.
KeysMatch ==
  \A x \in Index, k \in Key : entries[x][k] # NoRow => KeyOf[entries[x][k]] = k

LEMMA KeysMatchNext ==
  ASSUME LocalsOK, SharedOK, KeysMatch, [Next]_vars
  PROVE  KeysMatch'
<1>1. CASE UNCHANGED entries
  BY <1>1 DEF KeysMatch
<1>2. ASSUME NEW w \in Worker, InsertStore(w) \/ StoreCell(w) PROVE KeysMatch'
  <2>1. At(w, {"store", "store row"}) /\ Store(index[w], row[w])
    BY <1>2 DEF InsertStore, StoreCell, At
  <2>2. row[w] \in Row /\ index[w] \in Index
    BY <2>1 DEF LocalsOK, RowsOfRequests, IndexesInUse, At, Filling, Visiting, Inserting
  <2>3. \A y \in Index, k \in Key :
          entries'[y][k] = IF y = index[w] /\ k = KeyOf[row[w]] THEN row[w] ELSE entries[y][k]
    BY <2>1, <2>2, StoreProperties
  <2> HIDE DEF Store
  <2> QED
    BY <2>3 DEF KeysMatch
<1>3. ASSUME NEW w \in Worker, RemoveFree(w) PROVE KeysMatch'
  <2>1. \A y \in Index, k \in Key : entries'[y][k] \in {NoRow, entries[y][k]}
    BY <1>3 DEF RemoveFree
  <2> QED
    BY <2>1 DEF KeysMatch
<1>4. ASSUME NEW w \in Worker, Publish(w) PROVE KeysMatch'
  <2>1. PICK x \in Index : entries' = [entries EXCEPT ![x] = NoEntries]
    BY <1>4 DEF Publish
  <2>2. \A y \in Index, k \in Key : entries'[y][k] \in {NoRow, entries[y][k]}
    BY <2>1 DEF SharedOK, NoEntries
  <2> QED
    BY <2>2 DEF KeysMatch
<1> QED
  BY <1>1, <1>2, <1>3, <1>4
     DEF Next, Step, Request, vars, StartInsert, InsertEnter, InsertAppend, InsertEncode,
         StartRemove, StartFind, Find, RemoveLock, RemoveSwap, RemoveEncode, StartCreate, Header,
         ReadCell, AddCell, Withdraw, IndexEncode, StartDrop, Delete, DropEncode

-----------------------------------------------------------------------------
\* What holds in every state, and needed by what holds of a clean index.
GroundInv == TypeInv /\ PlaceInv /\ OneFills /\ FillGoesUp /\ KeysMatch

LEMMA GroundInit == Init => GroundInv
<1> SUFFICES ASSUME Init PROVE GroundInv
  OBVIOUS
<1>1. DOMAIN Rows = {}
  BY DEF Init
<1>2. PlaceInv
  BY <1>1 DEF Init, PlaceInv, RowsKnowTheirPlace, NewRows, HoldsRows, At
<1>3. OneFills
  BY DEF Init, OneFills, At, Filling, Visiting
<1>4. FillGoesUp
  BY DEF Init, FillGoesUp, At, Visiting
<1>5. KeysMatch
  BY DEF Init, KeysMatch, NoEntries
<1> QED
  BY <1>2, <1>3, <1>4, <1>5, TypeInit DEF GroundInv

LEMMA GroundNext == GroundInv /\ [Next]_vars => GroundInv'
<1> SUFFICES ASSUME GroundInv, [Next]_vars PROVE GroundInv'
  OBVIOUS
<1>1. /\ TypeInv /\ PlaceInv /\ HoldsRows /\ OneFills /\ FillGoesUp /\ KeysMatch
      /\ LocalsOK /\ SharedOK /\ FillsOK
  BY TypesInParts DEF GroundInv, PlaceInv
<1> QED
  BY <1>1, TypeNext, PlaceNext, OneFillsNext, FillGoesUpNext, KeysMatchNext DEF GroundInv

-----------------------------------------------------------------------------
\* An index that is registered and not marred.
Clean == registered \notin marred \cup {NoIndex}
Indexed(r) == entries[registered][KeyOf[r]] = r
Owner(w) == At(w, Filling) /\ index[w] = registered
Visits(w) == At(w, Visiting) /\ index[w] = registered
Storing(w) == At(w, {"store", "store row"}) /\ index[w] = registered

\* Inserts and removals under way have read that it is there, and a row has
\* its entry before it is in Rows and loses it before it leaves Rows.
HandlersKnow ==
  \A w \in Worker : At(w, {"enter", "store", "free"}) => index[w] = registered
AppendingEntered == \A w \in Worker : At(w, {"append"}) => Indexed(row[w])
FreedIsOut == \A w \in Worker : At(w, {"swap"}) => ~Indexed(row[w])
RemovesItself == \A w \in Worker : At(w, {"free", "swap"}) => Rows[at[w]] = row[w]

\* A key that has been looked up is still free, and is no other's to store.
StoringIsFree ==
  \A w \in Worker : Storing(w) =>
    /\ ~Taken(registered, row[w])
    /\ \A v \in Worker : Storing(v) /\ KeyOf[row[v]] = KeyOf[row[w]] => v = w

\* Its fill meets no removal, so that it visits rows, and those it has not
\* visited yet are the only ones without an entry.
FillMeetsNoRemoval == \A v, w \in Worker : Owner(v) => ~At(w, {"free", "swap"})
FillVisitsRows ==
  \A w \in Worker : Visits(w) =>
    /\ \A k \in DOMAIN cells[w] : k \in DOMAIN Rows /\ cells[w][k] \in In(Rows)
    /\ At(w, {"add row", "store row"}) => row[w] \in In(Rows)
FillMissesNothing ==
  \A w \in Worker : Visits(w) =>
    \A r \in In(Rows) :
      \/ Indexed(r)
      \/ \E k \in DOMAIN cells[w] : cells[w][k] = r
      \/ At(w, {"add row", "store row"}) /\ row[w] = r

\* A filled one has every row, and either has rows of Rows only.
FilledIsWhole ==
  (\A w \in Worker : ~Owner(w)) =>
    \A r \in In(Rows) : Indexed(r) \/ \E w \in Worker : At(w, {"swap"}) /\ row[w] = r
Live ==
  \A k \in Key :
    LET r == entries[registered][k] IN
    r = NoRow \/ r \in In(Rows) \/ \E w \in Worker : At(w, {"append"}) /\ row[w] = r

Handlers == HandlersKnow /\ AppendingEntered /\ FreedIsOut /\ RemovesItself
WhileClean ==
  /\ Handlers /\ StoringIsFree
  /\ FillMeetsNoRemoval /\ FillVisitsRows /\ FillMissesNothing
  /\ FilledIsWhole /\ Live
CleanInv == Clean => WhileClean

LEMMA CleanImplies == CleanInv => NothingIsMissing /\ EntriesAreLive
<1> SUFFICES ASSUME CleanInv, Sound
             PROVE  /\ \A r \in In(Rows) :
                         \/ entries[registered][KeyOf[r]] = r
                         \/ \E w \in Worker : row[w] = r /\ At(w, {"swap"})
                    /\ Live
  BY DEF NothingIsMissing, EntriesAreLive, Live
<1>1. Clean /\ \A w \in Worker : ~Owner(w)
  BY DEF Sound, Clean, Owner
<1> QED
  BY <1>1 DEF CleanInv, WhileClean, FilledIsWhole, Indexed

\* A step of a worker that does not fill the index: it leaves the index, Rows
\* and the cells of the fill alone, and neither begins nor ends an append or a swap.
LEMMA CleanAside ==
  ASSUME CleanInv, NEW w \in Worker,
         UNCHANGED <<Rows, registered>>, entries'[registered] = entries[registered],
         marred \subseteq marred',
         \A v \in Worker \ {w} :
           /\ pc'[v] = pc[v] /\ row'[v] = row[v] /\ index'[v] = index[v]
           /\ at'[v] = at[v] /\ cells'[v] = cells[v],
         pc[w] \notin {"append", "swap"}, pc'[w] \notin {"append", "swap"},
         ~Owner(w), ~Owner(w)',
         Clean' /\ At(w, {"enter", "store", "free"})' => index'[w] = registered,
         Clean' /\ At(w, {"free"})' =>
           Rows[at'[w]] = row'[w] /\ \A v \in Worker : ~Owner(v),
         Clean' /\ Storing(w)' =>
           /\ entries[registered][KeyOf[row'[w]]] = NoRow
           /\ \A v \in Worker \ {w} : Storing(v) => KeyOf[row[v]] # KeyOf[row'[w]]
  PROVE  CleanInv'
<1> SUFFICES ASSUME Clean' PROVE WhileClean'
  BY DEF CleanInv
<1>1. Clean /\ WhileClean
  BY DEF Clean, CleanInv
<1>2. In(Rows)' = In(Rows) /\ \A r : Indexed(r)' = Indexed(r)
  BY DEF In, Indexed
<1>3. \A v \in Worker : Owner(v)' <=> Owner(v)
  BY DEF Owner, At
<1>4. \A v \in Worker : Visits(v)' => Visits(v) /\ v # w
  BY DEF Visits, Owner, At, Filling
<1>5. Handlers'
  <2>1. HandlersKnow' /\ AppendingEntered' /\ FreedIsOut'
    BY <1>1, <1>2
       DEF WhileClean, Handlers, HandlersKnow, AppendingEntered, FreedIsOut, At, Indexed
  <2>2. RemovesItself'
    BY <1>1 DEF WhileClean, Handlers, RemovesItself, At
  <2> QED
    BY <2>1, <2>2 DEF Handlers
<1>6. FillMeetsNoRemoval'
  BY <1>1, <1>3 DEF WhileClean, FillMeetsNoRemoval, At
<1>7. FillVisitsRows'
  BY <1>1, <1>2, <1>4 DEF WhileClean, FillVisitsRows, At
<1>8. FillMissesNothing'
  <2> SUFFICES ASSUME NEW v \in Worker, Visits(v)', NEW r \in In(Rows)
               PROVE  \/ Indexed(r)'
                      \/ \E k \in DOMAIN cells'[v] : cells'[v][k] = r
                      \/ At(v, {"add row", "store row"})' /\ row'[v] = r
    BY <1>2 DEF FillMissesNothing
  <2>1. Visits(v) /\ v # w
    BY <1>4
  <2>2. \/ Indexed(r)
        \/ \E k \in DOMAIN cells[v] : cells[v][k] = r
        \/ At(v, {"add row", "store row"}) /\ row[v] = r
    BY <1>1, <2>1 DEF WhileClean, FillMissesNothing
  <2> QED
    BY <2>1, <2>2 DEF Indexed, At
<1>9. FilledIsWhole'
  BY <1>1, <1>2, <1>3 DEF WhileClean, FilledIsWhole, At, Indexed
<1>10. Live'
  BY <1>1, <1>2 DEF WhileClean, Live, At
<1>11. StoringIsFree'
  <2>1. \A v \in Worker \ {w} : Storing(v)' <=> Storing(v)
    BY DEF Storing, At
  <2> QED
    BY <1>1, <2>1 DEF WhileClean, StoringIsFree, Taken
<1> QED
  BY <1>5, <1>6, <1>7, <1>8, <1>9, <1>10, <1>11 DEF WhileClean

\* Looking a key up leaves a clean index clean only if no other AddRow has it.
LEMMA LookedUp ==
  ASSUME NEW w \in Worker, NEW x, NEW r, LookUp(w, x, r), x \notin marred', ~Taken(x, r)
  PROVE  \A v \in Worker \ {w} :
           At(v, {"store", "store row"}) /\ index[v] = x => KeyOf[row[v]] # KeyOf[r]
  BY DEF LookUp, Races

\* A row stored under a key that had none.
LEMMA EntryAdded ==
  ASSUME SharedOK, registered \in Index, NEW r \in Row,
         ~Taken(registered, r), UNCHANGED registered, Store(registered, r)
  PROVE  /\ Indexed(r)'
         /\ \A q \in Row \ {r} : Indexed(q)' <=> Indexed(q)
         /\ \A k \in Key : entries'[registered'][k] \in {entries[registered][k], r}
         /\ \A q \in Row : KeyOf[q] # KeyOf[r] => (Taken(registered, q)' <=> Taken(registered, q))
<1>1. KeyOf[r] \in Key /\ \A q \in Row : KeyOf[q] \in Key /\ q # NoRow
  BY IndexBuildAssumption
<1>2. \A k \in Key : entries'[registered][k] = IF k = KeyOf[r] THEN r ELSE entries[registered][k]
  BY StoreProperties
<1> QED
  BY <1>1, <1>2 DEF Indexed, Taken

\* A clean index was clean before.
LEMMA CleanBefore ==
  ASSUME GroundInv, CleanInv, Clean', registered' = registered, marred \subseteq marred'
  PROVE  /\ Clean /\ WhileClean /\ registered \in Index /\ In(Rows) \subseteq Row
         /\ LocalsOK /\ SharedOK /\ FillsOK /\ HoldsRows /\ RowsKnowTheirPlace /\ NewRows
<1>1. LocalsOK /\ SharedOK /\ FillsOK
  BY TypesInParts DEF GroundInv
<1>2. Clean
  BY DEF Clean
<1> QED
  BY <1>1, <1>2, SequencesOfRows DEF GroundInv, PlaceInv, CleanInv, Clean, SharedOK

\* An insert looks its key up: it is refused, or it is the only one to store it.
LEMMA CleanInsertEnter ==
  ASSUME GroundInv, CleanInv, NEW w \in Worker, InsertEnter(w)
  PROVE  CleanInv'
<1> SUFFICES ASSUME Clean' PROVE CleanInv'
  BY DEF CleanInv
<1>1. /\ At(w, {"enter"}) /\ UNCHANGED <<Rows, registered, entries, cells>>
      /\ LookUp(w, index[w], row[w]) /\ marred \subseteq marred'
  BY DEF InsertEnter, data, fill, LookUp
<1>2. WhileClean /\ LocalsOK
  BY <1>1, CleanBefore
<1>3. \A v \in Worker \ {w} :
        pc'[v] = pc[v] /\ row'[v] = row[v] /\ index'[v] = index[v] /\ at'[v] = at[v]
  BY <1>2, OthersWait DEF Step
<1>4. index[w] = registered
  BY <1>1, <1>2 DEF WhileClean, Handlers, HandlersKnow, At
<1>5. \/ pc'[w] = "idle"
      \/ pc'[w] = "store" /\ row'[w] = row[w] /\ index'[w] = index[w] /\ ~Taken(registered, row[w])
  BY <1>1, <1>2, <1>4 DEF InsertEnter, Answer, Goto, LocalsOK
<1>6. pc'[w] = "store" =>
        /\ entries[registered][KeyOf[row'[w]]] = NoRow
        /\ \A v \in Worker \ {w} : Storing(v) => KeyOf[row[v]] # KeyOf[row'[w]]
  BY <1>1, <1>4, <1>5, LookedUp DEF Storing, Taken, Clean
<1> QED
  BY <1>1, <1>3, <1>4, <1>5, <1>6, CleanAside DEF Owner, Storing, At, Filling, Visiting

\* A row that is stored before it is appended.
LEMMA CleanInsertStore ==
  ASSUME GroundInv, CleanInv, NEW w \in Worker, InsertStore(w)
  PROVE  CleanInv'
<1> SUFFICES ASSUME Clean' PROVE WhileClean'
  BY DEF CleanInv
<1> DEFINE r == row[w]
<1>1. /\ At(w, {"store"}) /\ UNCHANGED <<Rows, registered, cells, marred>>
      /\ Store(index[w], r)
  BY DEF InsertStore, data, fill, history
<1>2. /\ WhileClean /\ registered \in Index /\ In(Rows) \subseteq Row
      /\ LocalsOK /\ SharedOK /\ HoldsRows /\ NewRows
  BY <1>1, CleanBefore
<1>3. \A v \in Worker \ {w} :
        pc'[v] = pc[v] /\ row'[v] = row[v] /\ index'[v] = index[v] /\ at'[v] = at[v]
  BY <1>2, OthersWait DEF Step
<1>4. /\ index[w] = registered /\ r \in Row /\ r \notin In(Rows) /\ Storing(w)
      /\ ~Taken(registered, r)
  <2>1. index[w] = registered /\ r \in Row /\ r \notin In(Rows)
    BY <1>1, <1>2
       DEF WhileClean, Handlers, HandlersKnow, LocalsOK, RowsOfRequests, NewRows, At, Inserting
  <2>2. Storing(w)
    BY <1>1, <2>1 DEF Storing, At
  <2> QED
    BY <1>2, <2>1, <2>2 DEF WhileClean, StoringIsFree
<1>5. /\ pc'[w] = "append" /\ row'[w] = r /\ index'[w] = NoIndex /\ at'[w] = at[w]
  BY <1>2 DEF InsertStore, Goto, LocalsOK
<1>6. /\ Indexed(r)'
      /\ \A q \in Row \ {r} : Indexed(q)' <=> Indexed(q)
      /\ \A k \in Key : entries'[registered'][k] \in {entries[registered][k], r}
      /\ \A q \in Row : KeyOf[q] # KeyOf[r] => (Taken(registered, q)' <=> Taken(registered, q))
  <2>1. \A p \in Row : p = r =>
          /\ Indexed(p)'
          /\ \A q \in Row \ {p} : Indexed(q)' <=> Indexed(q)
          /\ \A k \in Key : entries'[registered'][k] \in {entries[registered][k], p}
          /\ \A q \in Row : KeyOf[q] # KeyOf[p] => (Taken(registered, q)' <=> Taken(registered, q))
    <3> SUFFICES ASSUME NEW p \in Row, p = r
                 PROVE  /\ Indexed(p)'
                        /\ \A q \in Row \ {p} : Indexed(q)' <=> Indexed(q)
                        /\ \A k \in Key : entries'[registered'][k] \in {entries[registered][k], p}
                        /\ \A q \in Row : KeyOf[q] # KeyOf[p] =>
                             (Taken(registered, q)' <=> Taken(registered, q))
      OBVIOUS
    <3>1. Store(registered, p) /\ UNCHANGED registered /\ ~Taken(registered, p)
      BY <1>1, <1>4
    <3> QED
      BY <1>2, <3>1, EntryAdded
  <2> QED
    BY <1>4, <1>5, <2>1
<1>7. In(Rows)' = In(Rows)
  BY <1>1 DEF In
<1>8. Handlers'
  <2>1. HandlersKnow' /\ RemovesItself'
    BY <1>1, <1>2, <1>3, <1>5 DEF WhileClean, Handlers, HandlersKnow, RemovesItself, At
  <2>2. AppendingEntered'
    <3> SUFFICES ASSUME NEW v \in Worker, At(v, {"append"})', NEW q, q = row'[v]
                 PROVE  Indexed(q)'
      BY DEF AppendingEntered, Indexed
    <3>1. CASE v = w
      BY <1>5, <1>6, <3>1
    <3>2. CASE v # w
      <4>1. At(v, {"append"}) /\ row[v] = q
        BY <1>3, <3>2 DEF At
      <4>2. q \in Row /\ q # r
        BY <1>1, <1>2, <3>2, <4>1 DEF At, LocalsOK, RowsOfRequests, Inserting, NewRows
      <4>3. Indexed(q)
        BY <1>2, <4>1 DEF WhileClean, Handlers, AppendingEntered
      <4> QED
        BY <1>6, <4>2, <4>3
    <3> QED
      BY <3>1, <3>2
  <2>3. FreedIsOut'
    <3> SUFFICES ASSUME NEW v \in Worker, At(v, {"swap"})', NEW q, q = row'[v]
                 PROVE  ~Indexed(q)'
      BY DEF FreedIsOut, Indexed
    <3>1. v # w /\ At(v, {"swap"}) /\ q = row[v]
      BY <1>3, <1>5 DEF At
    <3>2. q \in In(Rows) /\ q \in Row \ {r}
      BY <1>2, <1>4, <3>1 DEF WhileClean, Handlers, RemovesItself, HoldsRows, At, In
    <3>3. ~Indexed(q)
      BY <1>2, <3>1 DEF WhileClean, Handlers, FreedIsOut
    <3> QED
      BY <1>6, <3>2, <3>3
  <2> QED
    BY <2>1, <2>2, <2>3 DEF Handlers
<1>9. StoringIsFree'
  <2>1. \A v \in Worker : Storing(v)' => Storing(v) /\ v # w /\ row'[v] = row[v] /\ row[v] \in Row
    BY <1>1, <1>2, <1>3, <1>5 DEF Storing, At, LocalsOK, RowsOfRequests, Inserting
  <2>2. \A v \in Worker : Storing(v)' => KeyOf[row[v]] # KeyOf[r]
    BY <1>2, <1>4, <2>1 DEF WhileClean, StoringIsFree
  <2>3. \A v \in Worker : Storing(v)' => ~Taken(registered, row[v])'
    BY <1>2, <1>3, <1>6, <2>1, <2>2 DEF WhileClean, StoringIsFree, Taken
  <2> QED
    BY <1>1, <1>2, <2>1, <2>3 DEF WhileClean, StoringIsFree
<1>10. \A v \in Worker : (Owner(v)' <=> Owner(v)) /\ (Visits(v)' => Visits(v) /\ v # w)
  BY <1>1, <1>3, <1>5 DEF Owner, Visits, At, Filling, Visiting
<1>11. FillMeetsNoRemoval'
  BY <1>2, <1>3, <1>5, <1>10 DEF WhileClean, FillMeetsNoRemoval, At
<1>12. FillVisitsRows'
  BY <1>1, <1>2, <1>3, <1>7, <1>10 DEF WhileClean, FillVisitsRows, At
<1>13. FillMissesNothing'
  <2> SUFFICES ASSUME NEW v \in Worker, Visits(v)', NEW q \in In(Rows)
               PROVE  \/ Indexed(q)'
                      \/ \E k \in DOMAIN cells'[v] : cells'[v][k] = q
                      \/ At(v, {"add row", "store row"})' /\ row'[v] = q
    BY <1>7 DEF FillMissesNothing
  <2>1. \/ Indexed(q)
        \/ \E k \in DOMAIN cells[v] : cells[v][k] = q
        \/ At(v, {"add row", "store row"}) /\ row[v] = q
    BY <1>2, <1>10 DEF WhileClean, FillMissesNothing
  <2>2. q \in Row \ {r}
    BY <1>2, <1>4
  <2> QED
    BY <1>1, <1>3, <1>6, <1>10, <2>1, <2>2 DEF At
<1>14. FilledIsWhole'
  <2> SUFFICES ASSUME \A v \in Worker : ~Owner(v), NEW q \in In(Rows)
               PROVE  Indexed(q)' \/ \E v \in Worker : At(v, {"swap"})' /\ row'[v] = q
    BY <1>7, <1>10 DEF FilledIsWhole
  <2>1. Indexed(q) \/ \E v \in Worker : At(v, {"swap"}) /\ row[v] = q
    BY <1>2 DEF WhileClean, FilledIsWhole
  <2>2. q \in Row \ {r}
    BY <1>2, <1>4
  <2> QED
    BY <1>1, <1>3, <1>6, <2>1, <2>2 DEF At
<1>15. Live'
  <2> SUFFICES ASSUME NEW k \in Key
               PROVE  \/ entries'[registered'][k] \in {NoRow} \cup In(Rows)
                      \/ \E v \in Worker : At(v, {"append"})' /\ row'[v] = entries'[registered'][k]
    BY <1>7 DEF Live
  <2>1. CASE entries'[registered'][k] = r
    BY <1>5, <2>1 DEF At
  <2>2. CASE entries'[registered'][k] = entries[registered][k]
    BY <1>1, <1>2, <1>3, <2>2 DEF WhileClean, Live, At
  <2> QED
    BY <1>6, <2>1, <2>2
<1> QED
  BY <1>8, <1>9, <1>11, <1>12, <1>13, <1>14, <1>15 DEF WhileClean

\* A row that is appended has its entry.
LEMMA CleanInsertAppend ==
  ASSUME GroundInv, CleanInv, NEW w \in Worker, InsertAppend(w)
  PROVE  CleanInv'
<1> SUFFICES ASSUME Clean' PROVE WhileClean'
  BY DEF CleanInv
<1> DEFINE r == row[w]
<1>1. /\ At(w, {"append"}) /\ rowsMutex = Nobody /\ Rows' = Append(Rows, r)
      /\ UNCHANGED <<registered, entries, row, index, at, rowsMutex, marred>>
  BY DEF InsertAppend, history
<1>2. /\ Clean /\ WhileClean /\ registered \in Index /\ In(Rows) \subseteq Row
      /\ LocalsOK /\ SharedOK /\ FillsOK /\ HoldsRows /\ NewRows
  BY <1>1, CleanBefore
<1>3. r \in Row /\ Indexed(r)
  BY <1>1, <1>2 DEF LocalsOK, RowsOfRequests, At, Inserting, WhileClean, Handlers, AppendingEntered
<1>4. pc'[w] = "encode insert"
  BY <1>2, GotoLabel DEF InsertAppend, Label, Inserting
<1>5. \A v \in Worker \ {w} : pc'[v] = pc[v] /\ row'[v] = row[v] /\ index'[v] = index[v]
  BY <1>2, OthersWait DEF Step
<1>6. DOMAIN Rows = 1 .. Len(Rows) /\ Len(Rows) \in Nat
      /\ DOMAIN Rows \subseteq DOMAIN Rows' /\ In(Rows)' = In(Rows) \cup {r}
  <2> DEFINE t == Append(Rows, r)
  <2>1. /\ DOMAIN t = 1 .. Len(Rows) + 1
        /\ \A k \in 1 .. Len(Rows) : t[k] = Rows[k]
        /\ t[Len(Rows) + 1] = r
        /\ DOMAIN Rows = 1 .. Len(Rows) /\ Len(Rows) \in Nat
    <3>1. Rows \in Seq(Row)
      BY <1>2 DEF SharedOK
    <3> QED
      BY <1>3, <3>1, AppendElements
  <2>2. Rows' = t
    BY <1>1
  <2> HIDE DEF t
  <2> QED
    BY <2>1, <2>2 DEF In
<1>7. \A v \in Worker : (Owner(v)' <=> Owner(v)) /\ (Visits(v)' => Visits(v) /\ v # w)
  BY <1>1, <1>4, <1>5 DEF Owner, Visits, At, Filling, Visiting
<1>8. ASSUME NEW v \in Worker, Visits(v)
      PROVE  DOMAIN cells'[v] = DOMAIN cells[v] /\ \A k \in DOMAIN cells[v] : cells'[v][k] = cells[v][k]
  <2> DEFINE n == Len(Rows) + 1
  <2>1. n \notin DOMAIN cells[v]
    <3>1. \A k \in DOMAIN cells[v] : k \in DOMAIN Rows
      BY <1>2, <1>8 DEF WhileClean, FillVisitsRows
    <3>2. n \notin 1 .. Len(Rows) /\ DOMAIN Rows = 1 .. Len(Rows)
      BY <1>6
    <3> HIDE DEF n
    <3> QED
      BY <3>1, <3>2
  <2>2. CASE AppendInPlace(r)
    <3>1. cells'[v] = [k \in DOMAIN cells[v] |-> IF shared[v] /\ k = n THEN r ELSE cells[v][k]]
      BY <2>2 DEF AppendInPlace
    <3> HIDE DEF n
    <3> QED
      BY <2>1, <3>1
  <2>3. CASE AppendElsewhere
    BY <2>3 DEF AppendElsewhere
  <2> QED
    BY <2>2, <2>3 DEF InsertAppend
<1>9. \A q : Indexed(q)' <=> Indexed(q)
  BY <1>1 DEF Indexed
<1>10. Handlers' /\ StoringIsFree'
  <2>1. HandlersKnow' /\ AppendingEntered' /\ FreedIsOut'
    BY <1>1, <1>2, <1>4, <1>5
       DEF WhileClean, Handlers, HandlersKnow, AppendingEntered, FreedIsOut, At, Indexed
  <2>2. \A v \in Worker : ~At(v, {"free", "swap"})'
    BY <1>1, <1>2, <1>4, <1>5, IndexBuildAssumption DEF HoldsRows, At
  <2>3. RemovesItself'
    BY <2>2 DEF RemovesItself
  <2>4. \A v \in Worker : Storing(v)' <=> Storing(v)
    BY <1>1, <1>4, <1>5 DEF Storing, At
  <2>5. StoringIsFree'
    BY <1>1, <1>2, <2>4 DEF WhileClean, StoringIsFree, Taken
  <2> QED
    BY <2>1, <2>3, <2>5 DEF Handlers
<1>11. FillMeetsNoRemoval'
  BY <1>2, <1>4, <1>5, <1>7 DEF WhileClean, FillMeetsNoRemoval, At
<1>12. FillVisitsRows'
  <2> SUFFICES ASSUME NEW v \in Worker, Visits(v)'
               PROVE  /\ \A k \in DOMAIN cells'[v] : k \in DOMAIN Rows' /\ cells'[v][k] \in In(Rows)'
                      /\ At(v, {"add row", "store row"})' => row'[v] \in In(Rows)'
    BY DEF FillVisitsRows
  <2>1. Visits(v) /\ v # w
    BY <1>7
  <2> QED
    BY <1>2, <1>5, <1>6, <1>8, <2>1 DEF WhileClean, FillVisitsRows, At
<1>13. FillMissesNothing'
  <2> SUFFICES ASSUME NEW v \in Worker, Visits(v)', NEW q \in In(Rows)'
               PROVE  \/ Indexed(q)'
                      \/ \E k \in DOMAIN cells'[v] : cells'[v][k] = q
                      \/ At(v, {"add row", "store row"})' /\ row'[v] = q
    BY DEF FillMissesNothing
  <2>1. Visits(v) /\ v # w
    BY <1>7
  <2>2. \/ Indexed(q)
        \/ \E k \in DOMAIN cells[v] : cells[v][k] = q
        \/ At(v, {"add row", "store row"}) /\ row[v] = q
    BY <1>2, <1>3, <1>6, <2>1 DEF WhileClean, FillMissesNothing
  <2> QED
    BY <1>5, <1>8, <1>9, <2>1, <2>2 DEF At
<1>14. FilledIsWhole'
  <2> SUFFICES ASSUME \A v \in Worker : ~Owner(v), NEW q \in In(Rows)'
               PROVE  Indexed(q)' \/ \E v \in Worker : At(v, {"swap"})' /\ row'[v] = q
    BY <1>7 DEF FilledIsWhole
  <2>1. Indexed(q) \/ \E v \in Worker : At(v, {"swap"}) /\ row[v] = q
    BY <1>2, <1>3, <1>6 DEF WhileClean, FilledIsWhole
  <2> QED
    BY <1>1, <1>5, <1>9, <2>1 DEF At
<1>15. Live'
  BY <1>1, <1>2, <1>5, <1>6 DEF WhileClean, Live, At
<1> QED
  BY <1>10, <1>11, <1>12, <1>13, <1>14, <1>15 DEF WhileClean

\* A row that is to leave Rows loses its entry, and no other row does.
LEMMA CleanRemoveFree ==
  ASSUME GroundInv, CleanInv, NEW w \in Worker, RemoveFree(w)
  PROVE  CleanInv'
<1> SUFFICES ASSUME Clean' PROVE WhileClean'
  BY DEF CleanInv
<1> DEFINE r == row[w]
<1>1. At(w, {"free"}) /\ UNCHANGED <<Rows, registered, row, at, cells, marred>>
  BY DEF RemoveFree, data, fill, history
<1>2. /\ Clean /\ WhileClean /\ registered \in Index /\ In(Rows) \subseteq Row
      /\ LocalsOK /\ SharedOK /\ HoldsRows /\ NewRows
  BY <1>1, CleanBefore
<1>3. pc'[w] = "swap" /\ \A v \in Worker \ {w} : pc'[v] = pc[v] /\ index'[v] = index[v]
  BY <1>2, GotoLabel, OthersWait DEF RemoveFree, Label, Removing, Step
<1>4. In(Rows)' = In(Rows) /\ r \in In(Rows)
  BY <1>1, <1>2 DEF In, HoldsRows, WhileClean, Handlers, RemovesItself, At
<1>5. \A v \in Worker : ~Owner(v) /\ ~Owner(v)'
  <2>1. \A v \in Worker : ~Owner(v)
    BY <1>1, <1>2 DEF WhileClean, FillMeetsNoRemoval, At
  <2> QED
    BY <1>1, <1>3, <2>1 DEF Owner, At, Filling, Visiting
<1>6. \A v \in Worker \ {w} : ~At(v, {"free", "swap"})
  BY <1>1, <1>2 DEF HoldsRows, At
<1>7. \A q \in In(Rows) : Indexed(q)
  BY <1>1, <1>2, <1>5, <1>6 DEF WhileClean, FilledIsWhole, At
<1>8. /\ index[w] = registered
      /\ \A k \in Key : entries'[registered][k] = IF k = KeyOf[r] THEN NoRow ELSE entries[registered][k]
  BY <1>1, <1>2 DEF RemoveFree, WhileClean, Handlers, HandlersKnow, At
<1>9. \A q \in Row : KeyOf[q] \in Key /\ q # NoRow
  BY IndexBuildAssumption
<1>10. \A q \in Row \ {r} : Indexed(q) => Indexed(q)'
  BY <1>1, <1>4, <1>7, <1>8, <1>9 DEF Indexed
<1>11. HandlersKnow' /\ RemovesItself' /\ StoringIsFree'
  <2>1. HandlersKnow' /\ RemovesItself'
    BY <1>1, <1>2, <1>3, <1>6 DEF WhileClean, Handlers, HandlersKnow, RemovesItself, At
  <2>2. \A v \in Worker : Storing(v)' => Storing(v) /\ row[v] \in Row
    BY <1>1, <1>2, <1>3 DEF Storing, At, LocalsOK, RowsOfRequests, Inserting
  <2>3. \A q \in Row : Taken(registered, q)' => Taken(registered, q)
    BY <1>1, <1>8, <1>9 DEF Taken
  <2>4. StoringIsFree'
    BY <1>1, <1>2, <2>2, <2>3 DEF WhileClean, StoringIsFree, Taken
  <2> QED
    BY <2>1, <2>4
<1>12. AppendingEntered'
  <2> SUFFICES ASSUME NEW v \in Worker, At(v, {"append"})', NEW q, q = row'[v]
               PROVE  Indexed(q)'
    BY DEF AppendingEntered, Indexed
  <2>1. v # w /\ At(v, {"append"}) /\ q = row[v]
    BY <1>1, <1>3 DEF At
  <2>2. q \in Row /\ q # r /\ Indexed(q)
    BY <1>2, <1>4, <2>1
       DEF LocalsOK, RowsOfRequests, NewRows, At, Inserting, WhileClean, Handlers, AppendingEntered
  <2> QED
    BY <1>10, <2>2
<1>13. FreedIsOut'
  BY <1>1, <1>2, <1>3, <1>4, <1>6, <1>8, <1>9 DEF FreedIsOut, Indexed, At
<1>14. FillMeetsNoRemoval' /\ FillVisitsRows' /\ FillMissesNothing'
  BY <1>5 DEF FillMeetsNoRemoval, FillVisitsRows, FillMissesNothing, Visits, Owner, At, Filling, Visiting
<1>15. FilledIsWhole'
  <2> SUFFICES ASSUME NEW q \in In(Rows)
               PROVE  Indexed(q)' \/ \E v \in Worker : At(v, {"swap"})' /\ row'[v] = q
    BY <1>4 DEF FilledIsWhole
  <2>1. CASE q = r
    BY <1>1, <1>3, <2>1 DEF At
  <2>2. CASE q # r
    BY <1>2, <1>7, <1>10, <2>2
  <2> QED
    BY <2>1, <2>2
<1>16. Live'
  BY <1>1, <1>2, <1>3, <1>4, <1>8 DEF WhileClean, Live, At
<1> QED
  BY <1>11, <1>12, <1>13, <1>14, <1>15, <1>16 DEF WhileClean, Handlers

\* A swap moves the last row into the place of one that has no entry any more.
LEMMA CleanRemoveSwap ==
  ASSUME GroundInv, CleanInv, NEW w \in Worker, RemoveSwap(w)
  PROVE  CleanInv'
<1> SUFFICES ASSUME Clean' PROVE WhileClean'
  BY DEF CleanInv
<1> DEFINE r == row[w]
<1>1. /\ At(w, {"swap"}) /\ Rows' = SwappedOut(Rows, at[w])
      /\ UNCHANGED <<registered, entries, row, index, at, marred>>
  BY DEF RemoveSwap, history
<1>2. /\ Clean /\ WhileClean /\ registered \in Index /\ In(Rows) \subseteq Row
      /\ LocalsOK /\ SharedOK /\ HoldsRows /\ KeysMatch
      /\ \A j, k \in DOMAIN Rows : Rows[j] = Rows[k] => j = k
  BY <1>1, CleanBefore DEF GroundInv, RowsKnowTheirPlace
<1>3. pc'[w] = "encode remove" /\ \A v \in Worker \ {w} : pc'[v] = pc[v]
  BY <1>2, GotoLabel DEF RemoveSwap, Label, Removing
<1>4. at[w] \in DOMAIN Rows /\ Rows[at[w]] = r /\ ~Indexed(r)
  BY <1>1, <1>2 DEF HoldsRows, WhileClean, Handlers, RemovesItself, FreedIsOut, At
<1>5. In(Rows)' = In(Rows) \ {r}
  <2> DEFINE t == SwappedOut(Rows, at[w])
  <2>1. /\ DOMAIN t = 1 .. Len(Rows) - 1 /\ DOMAIN Rows = 1 .. Len(Rows)
        /\ Len(Rows) \in Nat \ {0}
        /\ \A k \in 1 .. Len(Rows) - 1 : t[k] = IF k = at[w] THEN Rows[Len(Rows)] ELSE Rows[k]
    <3>1. Rows \in Seq(Row)
      BY <1>2 DEF SharedOK
    <3> QED
      BY <1>4, <3>1, SwappedOutProperties
  <2>2. Rows' = t
    BY <1>1
  <2> HIDE DEF t
  <2>3. \A k \in DOMAIN t : t[k] \in In(Rows) \ {r}
    <3> SUFFICES ASSUME NEW k \in DOMAIN t PROVE t[k] \in In(Rows) /\ t[k] # r
      OBVIOUS
    <3>1. k \in DOMAIN Rows /\ Len(Rows) \in DOMAIN Rows /\ k # Len(Rows)
      BY <2>1
    <3>2. CASE k = at[w]
      BY <1>2, <1>4, <2>1, <3>1, <3>2 DEF In
    <3>3. CASE k # at[w]
      BY <1>2, <1>4, <2>1, <3>1, <3>3 DEF In
    <3> QED
      BY <3>2, <3>3
  <2>4. \A k \in DOMAIN Rows : Rows[k] = r \/ \E j \in DOMAIN t : t[j] = Rows[k]
    <3> SUFFICES ASSUME NEW k \in DOMAIN Rows, Rows[k] # r
                 PROVE  \E j \in DOMAIN t : t[j] = Rows[k]
      OBVIOUS
    <3>1. k # at[w]
      BY <1>4
    <3>2. CASE k = Len(Rows)
      <4>1. at[w] \in DOMAIN t
        BY <1>4, <2>1, <3>1, <3>2
      <4> QED
        BY <2>1, <3>2, <4>1
    <3>3. CASE k # Len(Rows)
      <4>1. k \in DOMAIN t
        BY <2>1, <3>3
      <4> QED
        BY <2>1, <3>1, <4>1
    <3> QED
      BY <3>2, <3>3
  <2> QED
    BY <2>2, <2>3, <2>4 DEF In
<1>6. \A v \in Worker : ~Owner(v) /\ ~Owner(v)'
  <2>1. \A v \in Worker : ~Owner(v)
    BY <1>1, <1>2 DEF WhileClean, FillMeetsNoRemoval, At
  <2> QED
    BY <1>1, <1>3, <2>1 DEF Owner, At, Filling, Visiting
<1>7. \A v \in Worker \ {w} : ~At(v, {"free", "swap"})
  BY <1>1, <1>2 DEF HoldsRows, At
<1>8. Handlers' /\ StoringIsFree'
  <2>1. HandlersKnow' /\ AppendingEntered' /\ FreedIsOut'
    BY <1>1, <1>2, <1>3
       DEF WhileClean, Handlers, HandlersKnow, AppendingEntered, FreedIsOut, At, Indexed
  <2>2. RemovesItself'
    BY <1>3, <1>7 DEF RemovesItself, At
  <2>3. \A v \in Worker : Storing(v)' <=> Storing(v)
    BY <1>1, <1>3 DEF Storing, At
  <2>4. StoringIsFree'
    BY <1>1, <1>2, <2>3 DEF WhileClean, StoringIsFree, Taken
  <2> QED
    BY <2>1, <2>2, <2>4 DEF Handlers
<1>9. FillMeetsNoRemoval' /\ FillVisitsRows' /\ FillMissesNothing'
  BY <1>6 DEF FillMeetsNoRemoval, FillVisitsRows, FillMissesNothing, Visits, Owner, At, Filling, Visiting
<1>10. \A q \in In(Rows) \ {r} : Indexed(q)
  BY <1>2, <1>6, <1>7 DEF WhileClean, FilledIsWhole, At
<1>11. FilledIsWhole'
  BY <1>1, <1>5, <1>10 DEF FilledIsWhole, Indexed
<1>12. Live'
  <2> SUFFICES ASSUME NEW k \in Key, NEW q, q = entries[registered][k], q # NoRow
               PROVE  q \in In(Rows)' \/ \E v \in Worker : At(v, {"append"})' /\ row'[v] = q
    BY <1>1 DEF Live
  <2>1. q \in In(Rows) \/ \E v \in Worker : At(v, {"append"}) /\ row[v] = q
    BY <1>2 DEF WhileClean, Live
  <2>2. q # r
    BY <1>2, <1>4 DEF KeysMatch, Indexed
  <2> QED
    BY <1>1, <1>3, <1>5, <2>1, <2>2 DEF At
<1> QED
  BY <1>8, <1>9, <1>11, <1>12 DEF WhileClean

\* An index that is published is empty and its fill has seen nothing yet; it
\* is clean only if no insert and no removal has passed the map Indexes.
LEMMA CleanPublish ==
  ASSUME GroundInv, NEW w \in Worker, Publish(w)
  PROVE  CleanInv'
<1> SUFFICES ASSUME Clean' PROVE WhileClean'
  BY DEF CleanInv
<1>1. PICK x \in Index :
        /\ FreshIndex(x) /\ registered' = x
        /\ index' = [index EXCEPT ![w] = x]
        /\ entries' = [entries EXCEPT ![x] = NoEntries]
        /\ marred' = IF Some({"enter", "store", "append", "free", "swap"})
                     THEN marred \cup {x} ELSE marred \ {x}
  BY DEF Publish
<1>2. LocalsOK /\ SharedOK
  BY TypesInParts DEF GroundInv
<1>3. pc'[w] = "header" /\ \A v \in Worker \ {w} : pc'[v] = pc[v]
  BY <1>2, GotoLabel DEF Publish, Label, Creating, Filling, Visiting
<1>4. \A v \in Worker : ~At(v, {"enter", "store", "append", "free", "swap"})
  BY <1>1 DEF Clean, Some
<1>5. \A v \in Worker : ~At(v, {"enter", "store", "append", "free", "swap"})'
  BY <1>3, <1>4 DEF At
<1>6. index'[w] = x /\ \A v \in Worker \ {w} : index'[v] = index[v] /\ index[v] # x
  BY <1>1, <1>2 DEF FreshIndex, LocalsOK
<1>7. Owner(w)' /\ \A v \in Worker : ~Visits(v)'
  BY <1>1, <1>3, <1>6 DEF Owner, Visits, At, Filling, Visiting
<1>8. \A k \in Key : entries'[x][k] = NoRow
  BY <1>1, <1>2 DEF SharedOK, NoEntries
<1>9. Handlers' /\ StoringIsFree' /\ FillMeetsNoRemoval'
  <2>1. \A v \in Worker : ~Storing(v)'
    BY <1>1, <1>3, <1>6 DEF Storing, At
  <2> QED
    BY <1>5, <2>1 DEF Handlers, HandlersKnow, AppendingEntered, FreedIsOut, RemovesItself,
       StoringIsFree, FillMeetsNoRemoval, At
<1>10. FillVisitsRows' /\ FillMissesNothing' /\ FilledIsWhole' /\ Live'
  BY <1>1, <1>7, <1>8 DEF FillVisitsRows, FillMissesNothing, FilledIsWhole, Live
<1> QED
  BY <1>9, <1>10 DEF WhileClean

\* A step of a fill that stores nothing: handlers and other AddRows are as they were.
LEMMA FillAside ==
  ASSUME WhileClean, LocalsOK, NEW w \in Worker, Step(w),
         UNCHANGED <<Rows, registered, entries>>,
         pc[w] \in Filling, pc'[w] \in Filling \cup {"encode index"}, pc'[w] # "store row"
  PROVE  /\ Handlers' /\ StoringIsFree' /\ Live'
         /\ Owner(w) => FillMeetsNoRemoval'
<1>1. \A v \in Worker \ {w} :
        pc'[v] = pc[v] /\ row'[v] = row[v] /\ index'[v] = index[v] /\ at'[v] = at[v]
  BY OthersWait
<1>2. /\ pc[w] \notin {"enter", "store", "append", "free", "swap"}
      /\ pc'[w] \notin {"enter", "store", "append", "free", "swap"}
  BY DEF Filling, Visiting
<1>3. Handlers'
  <2>1. HandlersKnow' /\ AppendingEntered' /\ FreedIsOut'
    BY <1>1, <1>2 DEF WhileClean, Handlers, HandlersKnow, AppendingEntered, FreedIsOut, Indexed, At
  <2>2. RemovesItself'
    BY <1>1, <1>2 DEF WhileClean, Handlers, RemovesItself, At
  <2> QED
    BY <2>1, <2>2 DEF Handlers
<1>4. StoringIsFree'
  <2>1. \A v \in Worker : Storing(v)' => Storing(v) /\ v # w
    BY <1>1, <1>2 DEF Storing, At
  <2> QED
    BY <1>1, <2>1 DEF WhileClean, StoringIsFree, Taken
<1>5. Live'
  BY <1>1, <1>2 DEF WhileClean, Live, At, In
<1>6. ASSUME Owner(w) PROVE FillMeetsNoRemoval'
  <2>1. \A v \in Worker : ~At(v, {"free", "swap"})
    BY <1>6 DEF WhileClean, FillMeetsNoRemoval
  <2>2. \A v \in Worker : ~At(v, {"free", "swap"})'
    BY <1>1, <1>2, <2>1 DEF At
  <2> QED
    BY <2>2 DEF FillMeetsNoRemoval
<1> QED
  BY <1>3, <1>4, <1>5, <1>6

\* The slice header of a fill has every row.
LEMMA CleanHeader ==
  ASSUME GroundInv, CleanInv, NEW w \in Worker, Header(w)
  PROVE  CleanInv'
<1> SUFFICES ASSUME Clean' PROVE WhileClean'
  BY DEF CleanInv
<1>1. /\ At(w, {"header"}) /\ UNCHANGED <<Rows, registered, entries, row, index, at, marred>>
      /\ cells' = [cells EXCEPT ![w] = Rows]
  BY DEF Header, data, history
<1>2. /\ Clean /\ WhileClean /\ LocalsOK /\ SharedOK /\ FillsOK /\ OneFills
  BY <1>1, CleanBefore DEF GroundInv
<1>3. pc'[w] = "read cell" /\ \A v \in Worker \ {w} : pc'[v] = pc[v]
  BY <1>2 DEF Header, Goto, LocalsOK
<1>4. cells'[w] = Rows /\ \A v \in Worker \ {w} : cells'[v] = cells[v]
  BY <1>1, <1>2 DEF FillsOK
<1>5. CASE ~Owner(w)
  BY <1>1, <1>3, <1>4, <1>5, CleanAside DEF Owner, Storing, At, Filling, Visiting, CleanInv
<1>6. CASE Owner(w)
  <2>1. In(Rows)' = In(Rows)
    BY <1>1 DEF In
  <2>2. Owner(w)' /\ \A v \in Worker \ {w} : ~Owner(v) /\ ~Owner(v)'
    BY <1>1, <1>2, <1>3, <1>6 DEF Owner, OneFills, At, Filling, Visiting
  <2>3. \A v \in Worker : Visits(v)' => v = w
    BY <2>2 DEF Visits, Owner, At, Filling
  <2>4. Handlers' /\ StoringIsFree' /\ Live' /\ FillMeetsNoRemoval'
    BY <1>1, <1>2, <1>3, <1>6, FillAside DEF Step, At, Filling, Visiting
  <2>5. FillVisitsRows' /\ FillMissesNothing'
    <3>1. /\ \A k \in DOMAIN Rows : Rows[k] \in In(Rows)
          /\ \A q \in In(Rows) : \E k \in DOMAIN Rows : Rows[k] = q
      BY DEF In
    <3>2. FillVisitsRows'
      BY <1>1, <1>3, <1>4, <2>1, <2>3, <3>1 DEF FillVisitsRows, At
    <3>3. FillMissesNothing'
      <4> SUFFICES ASSUME NEW v \in Worker, Visits(v)', NEW q \in In(Rows)
                   PROVE  \E k \in DOMAIN cells'[v] : cells'[v][k] = q
        BY <2>1 DEF FillMissesNothing
      <4>1. v = w
        BY <2>3
      <4>2. PICK k \in DOMAIN Rows : Rows[k] = q
        BY <3>1
      <4> QED
        BY <1>4, <4>1, <4>2
    <3> QED
      BY <3>2, <3>3
  <2>6. FilledIsWhole'
    BY <2>2 DEF FilledIsWhole
  <2> QED
    BY <2>4, <2>5, <2>6 DEF WhileClean
<1> QED
  BY <1>5, <1>6

\* A cell that is read is the row to store; with the last one stored, no row
\* is left out.
LEMMA CleanReadCell ==
  ASSUME GroundInv, CleanInv, NEW w \in Worker, ReadCell(w)
  PROVE  CleanInv'
<1> SUFFICES ASSUME Clean' PROVE WhileClean'
  BY DEF CleanInv
<1>1. At(w, {"read cell"}) /\ UNCHANGED <<Rows, registered, entries, marred>>
  BY DEF ReadCell, data, history
<1>2. /\ Clean /\ WhileClean /\ registered \in Index
      /\ LocalsOK /\ SharedOK /\ FillsOK /\ OneFills /\ FillGoesUp
  BY <1>1, CleanBefore DEF GroundInv
<1>3. \A v \in Worker \ {w} :
        pc'[v] = pc[v] /\ row'[v] = row[v] /\ index'[v] = index[v] /\ at'[v] = at[v]
  BY <1>2, OthersWait DEF Step
<1>4. In(Rows)' = In(Rows) /\ \A q : Indexed(q)' <=> Indexed(q)
  BY <1>1 DEF In, Indexed
<1>5. Upwards(w)
  BY <1>1, <1>2 DEF FillGoesUp, At, Visiting
<1>6. CASE at[w] \notin DOMAIN cells[w]
  <2>1. /\ Goto(w, "encode index") /\ index' = [index EXCEPT ![w] = NoIndex]
        /\ UNCHANGED <<cells, row>>
    BY <1>6 DEF ReadCell
  <2>2. pc'[w] = "encode index"
    BY <1>2, <2>1 DEF Goto, LocalsOK
  <2>3. CASE ~Owner(w)
    BY <1>1, <1>3, <2>1, <2>2, <2>3, CleanAside DEF Owner, Storing, At, Filling, Visiting, CleanInv
  <2>4. CASE Owner(w)
    <3>1. \A v \in Worker : ~Owner(v)'
      BY <1>1, <1>2, <1>3, <2>2, <2>4 DEF Owner, OneFills, At, Filling, Visiting
    <3>2. DOMAIN cells[w] = {}
      <4>1. \A k \in DOMAIN cells[w] : at[w] <= k /\ at[w] .. k \subseteq DOMAIN cells[w]
        BY <1>5 DEF Upwards
      <4>2. at[w] \in Nat /\ \A k \in DOMAIN cells[w] : k \in Nat
        BY <1>2 DEF LocalsOK, FillsOK
      <4>3. \A k \in DOMAIN cells[w] : at[w] \in at[w] .. k
        BY <4>1, <4>2
      <4> QED
        BY <1>6, <4>1, <4>3
    <3>3. \A q \in In(Rows) : Indexed(q)
      <4>1. Visits(w) /\ ~At(w, {"add row", "store row"})
        BY <1>1, <2>4 DEF Visits, Owner, At, Visiting
      <4> QED
        BY <1>2, <3>2, <4>1 DEF WhileClean, FillMissesNothing
    <3>4. Handlers' /\ StoringIsFree' /\ Live' /\ FillMeetsNoRemoval'
      BY <1>1, <1>2, <2>2, <2>4, FillAside DEF Step, At, Filling, Visiting
    <3>5. FillVisitsRows' /\ FillMissesNothing'
      BY <3>1 DEF FillVisitsRows, FillMissesNothing, Visits, Owner, At, Filling
    <3>6. FilledIsWhole'
      BY <1>4, <3>3 DEF FilledIsWhole
    <3> QED
      BY <3>4, <3>5, <3>6 DEF WhileClean
  <2> QED
    BY <2>3, <2>4
<1>7. CASE at[w] \in DOMAIN cells[w]
  <2> DEFINE i == at[w]
  <2>1. /\ Goto(w, "add row") /\ row' = [row EXCEPT ![w] = cells[w][i]] /\ UNCHANGED index
        /\ cells' = [cells EXCEPT ![w] = [k \in DOMAIN cells[w] \ {i} |-> cells[w][k]]]
    BY <1>7 DEF ReadCell
  <2>2. pc'[w] = "add row"
    BY <1>2, <2>1 DEF Goto, LocalsOK
  <2>3. /\ row'[w] = cells[w][i]
        /\ DOMAIN cells'[w] = DOMAIN cells[w] \ {i}
        /\ \A k \in DOMAIN cells[w] \ {i} : cells'[w][k] = cells[w][k]
        /\ \A v \in Worker \ {w} : cells'[v] = cells[v]
    BY <1>2, <2>1 DEF LocalsOK, FillsOK
  <2>4. CASE ~Owner(w)
    BY <1>1, <1>3, <2>1, <2>2, <2>3, <2>4, CleanAside DEF Owner, Storing, At, Filling, Visiting, CleanInv
  <2>5. CASE Owner(w)
    <3>1. Owner(w)' /\ Visits(w) /\ \A v \in Worker \ {w} : ~Owner(v) /\ ~Owner(v)'
      BY <1>1, <1>2, <1>3, <2>1, <2>2, <2>5 DEF Owner, Visits, OneFills, At, Filling, Visiting
    <3>2. \A v \in Worker : Visits(v)' => v = w
      BY <3>1 DEF Visits, Owner, At, Filling
    <3>3. Handlers' /\ StoringIsFree' /\ Live' /\ FillMeetsNoRemoval'
      BY <1>1, <1>2, <2>2, <2>5, FillAside DEF Step, At, Filling, Visiting
    <3>5. \A k \in DOMAIN cells[w] : k \in DOMAIN Rows /\ cells[w][k] \in In(Rows)
      BY <1>2, <3>1 DEF WhileClean, FillVisitsRows
    <3>6. FillVisitsRows'
      BY <1>1, <1>4, <1>7, <2>3, <3>2, <3>5 DEF FillVisitsRows
    <3>7. FillMissesNothing'
      <4> SUFFICES ASSUME NEW q \in In(Rows)
                   PROVE  \/ Indexed(q)
                          \/ \E k \in DOMAIN cells'[w] : cells'[w][k] = q
                          \/ row'[w] = q
        BY <1>4, <2>2, <3>2 DEF FillMissesNothing, At
      <4>1. Indexed(q) \/ \E k \in DOMAIN cells[w] : cells[w][k] = q
        BY <1>1, <1>2, <3>1 DEF WhileClean, FillMissesNothing, At
      <4> QED
        BY <2>3, <4>1
    <3>8. FilledIsWhole'
      BY <3>1 DEF FilledIsWhole
    <3> QED
      BY <3>3, <3>6, <3>7, <3>8 DEF WhileClean
  <2> QED
    BY <2>4, <2>5
<1> QED
  BY <1>6, <1>7

\* A fill looks the key of its row up: it is taken and the fill is over, or it
\* is the only one to store it.
LEMMA CleanAddCell ==
  ASSUME GroundInv, CleanInv, NEW w \in Worker, AddCell(w)
  PROVE  CleanInv'
<1> SUFFICES ASSUME Clean' PROVE CleanInv'
  BY DEF CleanInv
<1> DEFINE r == row[w]
           x == index[w]
<1>1. /\ At(w, {"add row"}) /\ UNCHANGED <<Rows, registered, entries, index>>
      /\ LookUp(w, x, r) /\ marred \subseteq marred'
  BY DEF AddCell, data, LookUp
<1>2. /\ WhileClean /\ LocalsOK /\ FillsOK /\ OneFills
  BY <1>1, CleanBefore DEF GroundInv
<1>3. \A v \in Worker \ {w} :
        pc'[v] = pc[v] /\ row'[v] = row[v] /\ index'[v] = index[v] /\ at'[v] = at[v]
  BY <1>2, OthersWait DEF Step
<1>4. /\ \A v \in Worker \ {w} : cells'[v] = cells[v]
      /\ \/ pc'[w] = "withdraw"
         \/ pc'[w] = "store row" /\ row'[w] = r /\ cells'[w] = cells[w] /\ ~Taken(x, r)
  BY <1>2 DEF AddCell, Goto, LocalsOK, FillsOK, fill
<1>5. CASE ~Owner(w)
  <2>1. index[w] # registered
    BY <1>1, <1>5 DEF Owner, At, Filling, Visiting
  <2> QED
    BY <1>1, <1>3, <1>4, <1>5, <2>1, CleanAside DEF Owner, Storing, At, Filling, Visiting
<1>6. CASE Owner(w)
  <2> SUFFICES WhileClean'
    BY DEF CleanInv
  <2>1. In(Rows)' = In(Rows) /\ x = registered /\ \A q : Indexed(q)' <=> Indexed(q)
    BY <1>1, <1>6 DEF In, Owner, Indexed
  <2>2. Owner(w)' /\ Visits(w) /\ \A v \in Worker \ {w} : ~Owner(v) /\ ~Owner(v)'
    BY <1>1, <1>2, <1>3, <1>4, <1>6 DEF Owner, Visits, OneFills, At, Filling, Visiting
  <2>3. \A v \in Worker : Visits(v)' => v = w
    BY <2>2 DEF Visits, Owner, At, Filling
  <2>4. FilledIsWhole'
    BY <2>2 DEF FilledIsWhole
  <2>5. CASE pc'[w] = "withdraw"
    <3>1. Handlers' /\ StoringIsFree' /\ Live' /\ FillMeetsNoRemoval'
      BY <1>1, <1>2, <1>6, <2>5, FillAside DEF Step, At, Filling, Visiting
    <3>2. FillVisitsRows' /\ FillMissesNothing'
      BY <2>3, <2>5 DEF FillVisitsRows, FillMissesNothing, Visits, At, Visiting
    <3> QED
      BY <2>4, <3>1, <3>2 DEF WhileClean
  <2>6. CASE pc'[w] = "store row"
    <3>1. row'[w] = r /\ cells'[w] = cells[w] /\ ~Taken(registered, r)
      BY <1>4, <2>1, <2>6
    <3>2. Handlers' /\ FillMeetsNoRemoval'
      <4>1. HandlersKnow' /\ AppendingEntered' /\ FreedIsOut' /\ RemovesItself'
        BY <1>1, <1>2, <1>3, <2>1, <2>6
           DEF WhileClean, Handlers, HandlersKnow, AppendingEntered, FreedIsOut, RemovesItself,
               Indexed, At
      <4>2. FillMeetsNoRemoval'
        BY <1>2, <1>3, <1>6, <2>2, <2>6 DEF WhileClean, FillMeetsNoRemoval, At
      <4> QED
        BY <4>1, <4>2 DEF Handlers
    <3>3. StoringIsFree'
      <4>1. \A v \in Worker \ {w} : Storing(v)' <=> Storing(v)
        BY <1>1, <1>3 DEF Storing, At
      <4>2. \A v \in Worker \ {w} : Storing(v) => KeyOf[row[v]] # KeyOf[r]
        BY <1>1, <2>1, <3>1, LookedUp DEF Storing, Clean
      <4>3. ~Taken(registered, row[w])'
        BY <1>1, <3>1 DEF Taken
      <4>4. \A v \in Worker \ {w} : Storing(v) =>
              ~Taken(registered, row[v])' /\ row'[v] = row[v]
        BY <1>1, <1>2, <1>3 DEF WhileClean, StoringIsFree, Taken
      <4> QED
        BY <1>2, <1>3, <3>1, <4>1, <4>2, <4>3, <4>4 DEF WhileClean, StoringIsFree
    <3>4. FillVisitsRows'
      BY <1>1, <1>2, <2>1, <2>2, <2>3, <3>1 DEF WhileClean, FillVisitsRows, At
    <3>5. FillMissesNothing'
      <4> SUFFICES ASSUME NEW q \in In(Rows)
                   PROVE  \/ Indexed(q)
                          \/ \E k \in DOMAIN cells'[w] : cells'[w][k] = q
                          \/ row'[w] = q
        BY <2>1, <2>3, <2>6 DEF FillMissesNothing, At
      <4>1. \/ Indexed(q)
            \/ \E k \in DOMAIN cells[w] : cells[w][k] = q
            \/ row[w] = q
        BY <1>2, <2>2 DEF WhileClean, FillMissesNothing
      <4> QED
        BY <3>1, <4>1
    <3>6. Live'
      BY <1>1, <1>2, <1>3, <2>1, <2>6 DEF WhileClean, Live, At
    <3> QED
      BY <2>4, <3>2, <3>3, <3>4, <3>5, <3>6 DEF WhileClean
  <2> QED
    BY <1>4, <2>5, <2>6
<1> QED
  BY <1>5, <1>6

\* The row of the cell gets its entry.
LEMMA CleanStoreCell ==
  ASSUME GroundInv, CleanInv, NEW w \in Worker, StoreCell(w)
  PROVE  CleanInv'
<1> SUFFICES ASSUME Clean' PROVE CleanInv'
  BY DEF CleanInv
<1> DEFINE r == row[w]
           x == index[w]
<1>1. /\ At(w, {"store row"}) /\ UNCHANGED <<Rows, registered, index, cells, marred>>
      /\ Store(x, r)
  BY DEF StoreCell, data, fill, history
<1>2. /\ WhileClean /\ registered \in Index /\ In(Rows) \subseteq Row
      /\ LocalsOK /\ SharedOK /\ OneFills /\ NewRows
  BY <1>1, CleanBefore DEF GroundInv
<1>3. \A v \in Worker \ {w} :
        pc'[v] = pc[v] /\ row'[v] = row[v] /\ index'[v] = index[v] /\ at'[v] = at[v]
  BY <1>2, OthersWait DEF Step
<1>4. pc'[w] = "read cell" /\ row'[w] = NoRow
  BY <1>2 DEF StoreCell, Goto, LocalsOK
<1>5. In(Rows)' = In(Rows) /\ x \in Index /\ r \in Row
  BY <1>1, <1>2 DEF In, LocalsOK, RowsOfRequests, IndexesInUse, At, Filling, Visiting
<1>6. CASE ~Owner(w)
  <2>1. x # registered
    BY <1>1, <1>6 DEF Owner, At, Filling, Visiting
  <2>2. entries'[registered] = entries[registered]
    BY <1>1, <1>2, <2>1 DEF SharedOK, Store
  <2> QED
    BY <1>1, <1>3, <1>4, <1>6, <2>2, CleanAside DEF Owner, Storing, At, Filling, Visiting
<1>7. CASE Owner(w)
  <2> SUFFICES WhileClean'
    BY DEF CleanInv
  <2>1. Owner(w)' /\ Visits(w) /\ \A v \in Worker \ {w} : ~Owner(v) /\ ~Owner(v)'
    BY <1>1, <1>2, <1>3, <1>4, <1>7 DEF Owner, Visits, OneFills, At, Filling, Visiting
  <2>2. \A v \in Worker : Visits(v)' => v = w
    BY <2>1 DEF Visits, Owner, At, Filling
  <2>3. x = registered /\ Storing(w) /\ ~Taken(registered, r)
    <3>1. x = registered /\ Storing(w)
      BY <1>1, <1>7 DEF Owner, Storing, At
    <3> QED
      BY <1>2, <3>1 DEF WhileClean, StoringIsFree
  <2>4. \A p \in Row : p = r =>
          /\ Indexed(p)'
          /\ \A q \in Row \ {p} : Indexed(q)' <=> Indexed(q)
          /\ \A k \in Key : entries'[registered'][k] \in {entries[registered][k], p}
          /\ \A q \in Row : KeyOf[q] # KeyOf[p] => (Taken(registered, q)' <=> Taken(registered, q))
    <3> SUFFICES ASSUME NEW p \in Row, p = r
                 PROVE  /\ Indexed(p)'
                        /\ \A q \in Row \ {p} : Indexed(q)' <=> Indexed(q)
                        /\ \A k \in Key : entries'[registered'][k] \in {entries[registered][k], p}
                        /\ \A q \in Row : KeyOf[q] # KeyOf[p] =>
                             (Taken(registered, q)' <=> Taken(registered, q))
      OBVIOUS
    <3>1. Store(registered, p) /\ UNCHANGED registered /\ ~Taken(registered, p)
      BY <1>1, <2>3
    <3> QED
      BY <1>2, <3>1, EntryAdded
  <2>5. r \in In(Rows) /\ \A v \in Worker : ~At(v, {"free", "swap"})
    BY <1>1, <1>2, <1>7, <2>1 DEF WhileClean, FillVisitsRows, FillMeetsNoRemoval, At
  <2>6. \A v \in Worker : ~At(v, {"free", "swap"})'
    BY <1>3, <1>4, <2>5 DEF At
  <2>7. Handlers' /\ FillMeetsNoRemoval'
    <3>1. HandlersKnow'
      BY <1>1, <1>2, <1>3, <1>4 DEF WhileClean, Handlers, HandlersKnow, At
    <3>2. AppendingEntered'
      <4> SUFFICES ASSUME NEW v \in Worker, At(v, {"append"})', NEW q, q = row'[v]
                   PROVE  Indexed(q)'
        BY DEF AppendingEntered, Indexed
      <4>1. v # w /\ At(v, {"append"}) /\ q = row[v]
        BY <1>3, <1>4 DEF At
      <4>2. q \in Row /\ q # r /\ Indexed(q)
        BY <1>2, <2>5, <4>1
           DEF LocalsOK, RowsOfRequests, NewRows, At, Inserting, WhileClean, Handlers, AppendingEntered
      <4> QED
        BY <1>5, <2>4, <4>2
    <3> QED
      BY <2>6, <3>1, <3>2 DEF Handlers, FreedIsOut, RemovesItself, FillMeetsNoRemoval, At
  <2>8. StoringIsFree'
    <3>1. \A v \in Worker : Storing(v)' => Storing(v) /\ v # w /\ row'[v] = row[v] /\ row[v] \in Row
      BY <1>1, <1>2, <1>3, <1>4 DEF Storing, At, LocalsOK, RowsOfRequests, Inserting
    <3>2. \A v \in Worker : Storing(v)' => KeyOf[row[v]] # KeyOf[r]
      BY <1>2, <2>3, <3>1 DEF WhileClean, StoringIsFree
    <3>3. \A v \in Worker : Storing(v)' => ~Taken(registered, row[v])'
      BY <1>2, <1>3, <1>5, <2>4, <3>1, <3>2 DEF WhileClean, StoringIsFree, Taken
    <3> QED
      BY <1>1, <1>2, <3>1, <3>3 DEF WhileClean, StoringIsFree
  <2>9. FillVisitsRows'
    BY <1>1, <1>2, <1>4, <1>5, <2>1, <2>2 DEF WhileClean, FillVisitsRows, At
  <2>10. FillMissesNothing'
    <3> SUFFICES ASSUME NEW q \in In(Rows)
                 PROVE  Indexed(q)' \/ \E k \in DOMAIN cells'[w] : cells'[w][k] = q
      BY <1>5, <2>2 DEF FillMissesNothing
    <3>1. Indexed(q) \/ (\E k \in DOMAIN cells[w] : cells[w][k] = q) \/ q = r
      BY <1>2, <2>1 DEF WhileClean, FillMissesNothing
    <3>2. q \in Row
      BY <1>2
    <3>3. CASE q = r
      BY <2>4, <3>2, <3>3
    <3>4. CASE q # r /\ Indexed(q)
      BY <1>5, <2>4, <3>2, <3>4
    <3>5. CASE \E k \in DOMAIN cells[w] : cells[w][k] = q
      BY <1>1, <3>5
    <3> QED
      BY <3>1, <3>3, <3>4, <3>5
  <2>11. FilledIsWhole'
    BY <2>1 DEF FilledIsWhole
  <2>12. Live'
    <3> SUFFICES ASSUME NEW k \in Key
                 PROVE  \/ entries'[registered'][k] \in {NoRow} \cup In(Rows)
                        \/ \E v \in Worker :
                             At(v, {"append"})' /\ row'[v] = entries'[registered'][k]
      BY <1>5 DEF Live
    <3>1. CASE entries'[registered'][k] = r
      BY <2>5, <3>1
    <3>2. CASE entries'[registered'][k] = entries[registered][k]
      BY <1>1, <1>2, <1>3, <3>2 DEF WhileClean, Live, At
    <3> QED
      BY <1>5, <2>4, <3>1, <3>2
  <2> QED
    BY <2>7, <2>8, <2>9, <2>10, <2>11, <2>12 DEF WhileClean
<1> QED
  BY <1>6, <1>7

\* A removal that locks the rows under a fill leaves the index marred, and so
\* does one whose row is not where row.I says.
LEMMA CleanRemoveLock ==
  ASSUME GroundInv, CleanInv, NEW w \in Worker, RemoveLock(w)
  PROVE  CleanInv'
<1> SUFFICES ASSUME Clean' PROVE CleanInv'
  BY DEF CleanInv
<1>1. At(w, {"lock"}) /\ UNCHANGED <<Rows, registered, entries, cells>>
  BY DEF RemoveLock, fill
<1>2. LocalsOK /\ SharedOK /\ RowsKnowTheirPlace
  BY TypesInParts DEF GroundInv, PlaceInv
<1>3. \A v \in Worker \ {w} :
        pc'[v] = pc[v] /\ row'[v] = row[v] /\ index'[v] = index[v] /\ at'[v] = at[v]
  BY <1>2, OthersWait DEF Step
<1>4. ~Owner(w)
  BY <1>1 DEF Owner, At, Filling, Visiting
<1>5. CASE Answer(w)
  <2>1. pc'[w] = "idle"
    BY <1>2, <1>5, AnswerIsIdle
  <2>2. marred' = marred
    BY <1>2, <2>1 DEF RemoveLock, Goto, LocalsOK, history
  <2> QED
    BY <1>1, <1>3, <1>4, <2>1, <2>2, CleanAside DEF Owner, Storing, At, Filling, Visiting
<1>6. CASE ~Answer(w)
  <2>1. /\ pc'[w] = "free" /\ index'[w] = registered /\ row'[w] = row[w] /\ at'[w] = I[row[w]]
        /\ marred' = IF row[w] \notin In(Rows) THEN Index
                     ELSE marred \cup {index[v] : v \in {u \in Worker : At(u, Filling)}}
    BY <1>2, <1>6 DEF RemoveLock, Goto, LocalsOK
  <2>2. row[w] \in In(Rows)
    BY <1>1, <1>2, <2>1 DEF Clean, SharedOK
  <2>3. Rows[at'[w]] = row[w]
    BY <1>2, <2>1, <2>2 DEF RowsKnowTheirPlace, In
  <2>4. marred \subseteq marred' /\ \A v \in Worker : ~Owner(v)
    BY <1>1, <2>1, <2>2 DEF Clean, Owner
  <2> QED
    BY <1>1, <1>3, <1>4, <2>1, <2>3, <2>4, CleanAside DEF Owner, Storing, At, Filling, Visiting
<1> QED
  BY <1>5, <1>6

\* The other steps leave a clean index as it is, or take it out of the map.
LEMMA CleanOther ==
  ASSUME GroundInv, CleanInv, NEW w \in Worker,
         \/ Request(w) \/ Find(w)
         \/ InsertEncode(w) \/ RemoveEncode(w) \/ IndexEncode(w) \/ DropEncode(w)
         \/ Withdraw(w) \/ Delete(w)
  PROVE  CleanInv'
<1> SUFFICES ASSUME Clean' PROVE CleanInv'
  BY DEF CleanInv
<1>1. LocalsOK
  BY TypesInParts DEF GroundInv
<1>2. \A v \in Worker \ {w} :
        pc'[v] = pc[v] /\ row'[v] = row[v] /\ index'[v] = index[v] /\ at'[v] = at[v]
  BY <1>1, OthersWait DEF Step
<1>3. CASE Withdraw(w) \/ Delete(w)
  BY <1>3 DEF Withdraw, Delete, CleanInv, Clean
<1>4. CASE Request(w)
  <2>1. /\ At(w, {"idle"}) /\ UNCHANGED <<Rows, registered, entries, cells, marred>>
        /\ \/ pc'[w] = "enter" /\ index'[w] = registered
           \/ pc'[w] \in {"find", "lock", "publish", "delete"}
    BY <1>1, <1>4
       DEF Request, StartInsert, StartRemove, StartFind, StartCreate, StartDrop, data, fill,
           Goto, LocalsOK, Clean
  <2> QED
    BY <1>2, <2>1, CleanAside DEF Owner, Storing, At, Filling, Visiting
<1>5. CASE \/ Find(w) \/ InsertEncode(w) \/ RemoveEncode(w) \/ IndexEncode(w) \/ DropEncode(w)
  <2>1. /\ At(w, {"find", "encode insert", "encode remove", "encode index", "encode drop"})
        /\ UNCHANGED <<Rows, registered, entries, cells, marred>>
    BY <1>5 DEF Find, InsertEncode, RemoveEncode, IndexEncode, DropEncode, data, fill, history, At
  <2>2. pc'[w] \in {"idle", "lock"}
    BY <1>1, <1>5 DEF Find, InsertEncode, RemoveEncode, IndexEncode, DropEncode, Answer, Goto, LocalsOK
  <2> QED
    BY <1>2, <2>1, <2>2, CleanAside DEF Owner, Storing, At, Filling, Visiting
<1> QED
  BY <1>3, <1>4, <1>5

LEMMA CleanNext == GroundInv /\ CleanInv /\ [Next]_vars => CleanInv'
<1> SUFFICES ASSUME GroundInv, CleanInv, [Next]_vars PROVE CleanInv'
  OBVIOUS
<1>1. ASSUME NEW w \in Worker, Step(w) \/ Request(w) PROVE CleanInv'
  <2>1. CASE InsertEnter(w) \/ InsertStore(w) \/ InsertAppend(w)
    BY <2>1, CleanInsertEnter, CleanInsertStore, CleanInsertAppend
  <2>2. CASE RemoveLock(w) \/ RemoveFree(w) \/ RemoveSwap(w)
    BY <2>2, CleanRemoveLock, CleanRemoveFree, CleanRemoveSwap
  <2>3. CASE Publish(w) \/ Header(w) \/ ReadCell(w) \/ AddCell(w) \/ StoreCell(w)
    BY <2>3, CleanPublish, CleanHeader, CleanReadCell, CleanAddCell, CleanStoreCell
  <2>4. CASE \/ Request(w) \/ Find(w) \/ InsertEncode(w) \/ RemoveEncode(w) \/ IndexEncode(w)
             \/ DropEncode(w) \/ Withdraw(w) \/ Delete(w)
    BY <2>4, CleanOther
  <2> QED
    BY <1>1, <2>1, <2>2, <2>3, <2>4 DEF Step
<1>2. CASE UNCHANGED vars
  <2>1. UNCHANGED <<Rows, registered, entries, pc, row, index, at, cells, marred>>
    BY <1>2 DEF vars
  <2>2. Handlers => Handlers'
    BY <2>1 DEF Handlers, HandlersKnow, AppendingEntered, FreedIsOut, RemovesItself, Indexed, At
  <2>3. FillMeetsNoRemoval /\ FillVisitsRows => FillMeetsNoRemoval' /\ FillVisitsRows'
    <3>1. /\ In(Rows)' = In(Rows)
          /\ \A v : (Visits(v)' <=> Visits(v)) /\ (Owner(v)' <=> Owner(v))
          /\ \A v : \A l : At(v, l)' <=> At(v, l)
      BY <2>1 DEF In, Visits, Owner, At
    <3>2. FillMeetsNoRemoval => FillMeetsNoRemoval'
      BY <3>1 DEF FillMeetsNoRemoval
    <3>3. FillVisitsRows => FillVisitsRows'
      BY <2>1, <3>1 DEF FillVisitsRows
    <3> QED
      BY <3>2, <3>3
  <2>4. FillMissesNothing => FillMissesNothing'
    <3>1. /\ In(Rows)' = In(Rows) /\ \A q : Indexed(q)' <=> Indexed(q)
          /\ \A v : Visits(v)' <=> Visits(v)
      BY <2>1 DEF In, Indexed, Visits, At
    <3> QED
      BY <2>1, <3>1 DEF FillMissesNothing, At
  <2>5. FilledIsWhole => FilledIsWhole'
    BY <2>1 DEF FilledIsWhole, Indexed, Owner, At, In
  <2>6. Live => Live'
    BY <2>1 DEF Live, At, In
  <2>7. StoringIsFree => StoringIsFree'
    BY <2>1 DEF StoringIsFree, Storing, Taken, At
  <2> QED
    BY <2>1, <2>2, <2>3, <2>4, <2>5, <2>6, <2>7 DEF CleanInv, Clean, WhileClean
<1> QED
  BY <1>1, <1>2 DEF Next

-----------------------------------------------------------------------------
LEMMA InvariantHolds == Spec => [](GroundInv /\ CleanInv)
<1>1. Init => CleanInv
  BY DEF Init, CleanInv, Clean
<1> QED
  BY <1>1, GroundInit, GroundNext, CleanNext, PTL DEF Spec

\* Every variable keeps its type: a fill never reads a cell that holds no row,
\* whatever appends and removals write behind the slice header it has taken,
\* and no fill but one that is reading still has the array of Rows.
THEOREM SpecTypeOK == Spec => []TypeOK
<1>1. GroundInv => TypeOK
  BY DEF GroundInv, TypeInv
<1> QED
  BY <1>1, InvariantHolds, PTL

\* An index that is not marred has every row of the collection: createIndex
\* puts it into the map before it reads Rows, so that an insert that began later
\* has seen the index, and one that ended before is in the slice.  Marred are
\* indexes published between an insert's indexInsert and its append, or with a
\* removal under rowsMutex, those whose fill met a removal, those in which two
\* AddRows found one key free, and all that were there when a removal took a
\* row that is not in Rows.
THEOREM SpecNothingIsMissing == Spec => []NothingIsMissing
  BY InvariantHolds, CleanImplies, PTL

\* Such an index leads to no row that is gone: neither a removal, nor a fill
\* that is refused, nor a request about the index that overlaps leaves an entry
\* of such a row behind.
THEOREM SpecEntriesAreLive == Spec => []EntriesAreLive
  BY InvariantHolds, CleanImplies, PTL

-----------------------------------------------------------------------------
(***************************************************************************)
(* The journal of the index: while requests keep apart.                    *)
(***************************************************************************)

KeysOf(s) == [k \in DOMAIN s |-> KeyOf[s[k]]]

\* An insert runs alone, removals and requests about the index one after
\* another, and no fill while a removal is between reading row.I and the swap.
Alone ==
  \A v, w \in Worker :
    /\ At(v, Inserting) /\ w # v => At(w, {"idle"})
    /\ At(v, Creating \cup Dropping) /\ At(w, Creating \cup Dropping) => v = w
    /\ At(v, Removing) /\ At(w, Removing) => v = w
    /\ At(v, Filling) => ~At(w, {"free", "swap"})

\* The request about the index has registered it, or found what is registered.
KnowsIndex ==
  \A w \in Worker :
    /\ At(w, Filling) => index[w] = registered
    /\ At(w, {"encode index", "delete"}) => registered # NoIndex
    /\ At(w, {"publish", "encode drop"}) => registered = NoIndex

\* An index in the journal is in memory, or its end is about to be journaled.
IndexFollows ==
  disk.indexed =>
    /\ \A w \in Worker : ~At(w, Creating)
    /\ registered # NoIndex \/ Some({"encode drop"})

\* The journal has the keys of Rows, but for the change that is to be written.
KeysFollow ==
  /\ ~Some({"encode insert", "encode remove"}) => disk.keys = KeysOf(Rows)
  /\ \A w \in Worker :
       /\ At(w, {"encode insert"}) => KeysOf(Rows) = Append(disk.keys, KeyOf[row[w]])
       /\ At(w, {"encode remove"}) =>
            at[w] \in DOMAIN disk.keys /\ KeysOf(Rows) = SwappedOut(disk.keys, at[w])

\* An insert that memory has accepted is accepted by the replay.
Admitted ==
  \A w \in Worker : At(w, {"store", "append", "encode insert"}) /\ disk.indexed =>
    KeyOf[row[w]] \notin In(disk.keys)

WhileApart ==
  marred = {} /\ disk.ok /\ Alone /\ KnowsIndex /\ IndexFollows /\ KeysFollow /\ Admitted
FollowInv == apart => WhileApart

LEMMA FollowInit == Init => FollowInv
<1> SUFFICES ASSUME Init PROVE WhileApart
  BY DEF FollowInv
<1>1. \A w \in Worker : pc[w] = "idle"
  BY DEF Init
<1>2. Alone /\ KnowsIndex /\ IndexFollows /\ Admitted
  BY <1>1 DEF Init, Alone, KnowsIndex, IndexFollows, Admitted, At, Inserting, Removing,
     Creating, Filling, Visiting, Dropping
<1>3. KeysOf(Rows) = << >>
  BY DEF Init, KeysOf
<1>4. KeysFollow
  BY <1>1, <1>3 DEF Init, KeysFollow, At
<1> QED
  BY <1>2, <1>4 DEF Init, WhileApart

\* Where a step leads to, and what was not under way if requests are still apart.
LEMMA Labels ==
  ASSUME LocalsOK, SharedOK, apart', NEW w \in Worker, Step(w) \/ Request(w)
  PROVE  /\ apart
         /\ \/ pc[w] = "idle" /\ pc'[w] \in {"enter", "append"} /\ Quiet
            \/ pc[w] \in Inserting /\ pc'[w] \in Inserting \cup {"idle"}
            \/ pc[w] = "idle" /\ pc'[w] \in {"find", "lock"} /\ ~Some(Inserting \cup Removing)
            \/ pc[w] = "find" /\ pc'[w] = "lock"
            \/ pc[w] = "lock" /\ pc'[w] = "free" /\ ~Some(Filling)
            \/ pc[w] \in {"free", "swap"} /\ pc'[w] \in {"swap", "encode remove"}
            \/ pc[w] = "idle" /\ pc'[w] \in {"publish", "delete"}
               /\ ~Some(Inserting \cup Creating \cup Dropping)
            \/ pc[w] = "publish" /\ pc'[w] = "header" /\ ~Some({"free", "swap"})
            \/ pc[w] \in Filling /\ pc'[w] \in Filling \cup {"encode index"}
            \/ pc[w] = "delete" /\ pc'[w] = "encode drop"
            \/ pc[w] # "idle" /\ pc'[w] = "idle"
<1> USE DEF At, Goto, Answer, LocalsOK, Label, history
<1>1. CASE InsertEnter(w) \/ InsertStore(w) \/ InsertAppend(w) \/ InsertEncode(w)
  BY <1>1 DEF InsertEnter, InsertStore, InsertAppend, InsertEncode, Inserting
<1>2. CASE Find(w) \/ RemoveLock(w) \/ RemoveFree(w) \/ RemoveSwap(w) \/ RemoveEncode(w)
  BY <1>2 DEF Find, RemoveLock, RemoveFree, RemoveSwap, RemoveEncode, SharedOK
<1>3. CASE Publish(w)
  BY <1>3 DEF Publish, SharedOK
<1>4. CASE Header(w) \/ ReadCell(w) \/ AddCell(w) \/ StoreCell(w) \/ Withdraw(w)
  BY <1>4 DEF Header, ReadCell, AddCell, StoreCell, Withdraw, Filling, Visiting
<1>5. CASE IndexEncode(w) \/ Delete(w) \/ DropEncode(w)
  BY <1>5 DEF IndexEncode, Delete, DropEncode
<1>6. CASE Request(w)
  BY <1>6 DEF Request, StartInsert, StartRemove, StartFind, StartCreate, StartDrop, Meet, SharedOK
<1> QED
  BY <1>1, <1>2, <1>3, <1>4, <1>5, <1>6 DEF Step

LEMMA AloneNext ==
  ASSUME LocalsOK, SharedOK, Alone, apart', NEW w \in Worker, Step(w) \/ Request(w)
  PROVE  Alone'
<1>1. \A v \in Worker \ {w} : pc'[v] = pc[v]
  BY OthersWait
<1> SUFFICES ASSUME NEW u \in Worker, NEW v \in Worker
             PROVE  /\ At(u, Inserting)' /\ v # u => At(v, {"idle"})'
                    /\ At(u, Creating \cup Dropping)' /\ At(v, Creating \cup Dropping)' => u = v
                    /\ At(u, Removing)' /\ At(v, Removing)' => u = v
                    /\ At(u, Filling)' => ~At(v, {"free", "swap"})'
  BY DEF Alone
<1>2. \A x, y \in Worker :
        /\ pc[x] \in Inserting /\ y # x => pc[y] = "idle"
        /\ pc[x] \in Creating \cup Dropping /\ pc[y] \in Creating \cup Dropping => x = y
        /\ pc[x] \in Removing /\ pc[y] \in Removing => x = y
        /\ pc[x] \in Filling => pc[y] \notin {"free", "swap"}
  BY DEF Alone, At
<1> USE DEF At, Some, Quiet, Inserting, Removing, Creating, Filling, Visiting, Dropping
<1>3. CASE pc[w] = "idle"
  <2>1. CASE pc'[w] \in {"enter", "append"} /\ \A x \in Worker : pc[x] = "idle"
    BY <1>1, <2>1
  <2>2. CASE pc'[w] \in {"find", "lock"} /\ \A x \in Worker : pc[x] \notin Inserting \cup Removing
    BY <1>1, <1>2, <2>2
  <2>3. CASE /\ pc'[w] \in {"publish", "delete"}
             /\ \A x \in Worker : pc[x] \notin Inserting \cup Creating \cup Dropping
    BY <1>1, <1>2, <2>3
  <2> QED
    BY <1>3, <2>1, <2>2, <2>3, Labels
<1>4. CASE pc[w] = "lock" /\ pc'[w] = "free" /\ \A x \in Worker : pc[x] \notin Filling
  BY <1>1, <1>2, <1>4
<1>5. CASE pc[w] = "publish" /\ pc'[w] = "header" /\ \A x \in Worker : pc[x] \notin {"free", "swap"}
  BY <1>1, <1>2, <1>5
<1>6. CASE \/ pc[w] \in Inserting /\ pc'[w] \in Inserting \cup {"idle"}
           \/ pc[w] = "find" /\ pc'[w] = "lock"
           \/ pc[w] \in {"free", "swap"} /\ pc'[w] \in {"swap", "encode remove"}
  BY <1>1, <1>2, <1>6
<1>7. CASE \/ pc[w] \in Filling /\ pc'[w] \in Filling \cup {"encode index"}
           \/ pc[w] = "delete" /\ pc'[w] = "encode drop"
           \/ pc'[w] = "idle"
  BY <1>1, <1>2, <1>7
<1> QED
  BY <1>3, <1>4, <1>5, <1>6, <1>7, Labels

LEMMA KnowsIndexNext ==
  ASSUME LocalsOK, SharedOK, WhileApart, apart', NEW w \in Worker, Step(w) \/ Request(w)
  PROVE  KnowsIndex'
<1> USE DEF At
<1>1. \A v \in Worker \ {w} : pc'[v] = pc[v] /\ index'[v] = index[v]
  BY OthersWait
<1>2. Alone /\ KnowsIndex /\ LocalsOK
  BY DEF WhileApart
<1>3. ASSUME UNCHANGED registered,
             pc'[w] \in Filling => index'[w] = registered,
             pc'[w] \in {"encode index", "delete"} => registered # NoIndex,
             pc'[w] \in {"publish", "encode drop"} => registered = NoIndex
      PROVE  KnowsIndex'
  BY <1>1, <1>2, <1>3 DEF KnowsIndex
<1>4. ASSUME pc[w] \in Creating \cup Dropping, pc'[w] \notin Filling \/ index'[w] = registered',
             pc'[w] \notin {"encode index", "delete", "publish"},
             pc'[w] = "encode drop" => registered' = NoIndex
      PROVE  KnowsIndex'
  <2>1. \A v \in Worker \ {w} : pc[v] \notin Creating \cup Dropping
    BY <1>2, <1>4 DEF Alone
  <2> QED
    BY <1>1, <1>4, <2>1 DEF KnowsIndex, Creating, Filling, Visiting, Dropping
<1>5. CASE \/ InsertEnter(w) \/ InsertStore(w) \/ InsertAppend(w) \/ InsertEncode(w)
           \/ Find(w) \/ RemoveLock(w) \/ RemoveFree(w) \/ RemoveSwap(w) \/ RemoveEncode(w)
           \/ IndexEncode(w) \/ DropEncode(w)
           \/ StartFind(w) \/ \E r \in Row : StartInsert(w, r) \/ StartRemove(w, r)
  <2>1. UNCHANGED registered
    BY <1>5 DEF InsertEnter, InsertStore, InsertAppend, InsertEncode, Find, RemoveLock, RemoveFree,
                RemoveSwap, RemoveEncode, IndexEncode, DropEncode, StartInsert, StartRemove, StartFind
  <2>2. pc'[w] \in {"idle", "enter", "store", "append", "encode insert",
                    "find", "lock", "free", "swap", "encode remove"}
    <3>1. CASE \/ InsertEnter(w) \/ InsertStore(w) \/ InsertAppend(w) \/ InsertEncode(w)
               \/ \E r \in Row : StartInsert(w, r)
      BY <3>1 DEF InsertEnter, InsertStore, InsertAppend, InsertEncode, StartInsert, LocalsOK, Goto, Answer
    <3>2. CASE \/ Find(w) \/ RemoveLock(w) \/ RemoveFree(w) \/ RemoveSwap(w) \/ RemoveEncode(w)
               \/ StartFind(w) \/ \E r \in Row : StartRemove(w, r)
      BY <3>2 DEF Find, RemoveLock, RemoveFree, RemoveSwap, RemoveEncode, StartFind, StartRemove,
                  LocalsOK, Goto, Answer
    <3>3. CASE IndexEncode(w) \/ DropEncode(w)
      BY <3>3 DEF IndexEncode, DropEncode, LocalsOK, Answer
    <3> QED
      BY <1>5, <3>1, <3>2, <3>3
  <2> QED
    BY <1>3, <2>1, <2>2 DEF Filling, Visiting
<1>6. CASE Publish(w)
  <2>1. index'[w] = registered' /\ pc[w] = "publish" /\ pc'[w] = "header"
    BY <1>6 DEF Publish, LocalsOK, Goto
  <2> QED
    BY <1>4, <2>1 DEF Creating
<1>7. CASE Withdraw(w) \/ Delete(w)
  <2>1. /\ pc[w] \in {"withdraw", "delete"} /\ pc'[w] \in {"idle", "encode drop"}
        /\ registered' = NoIndex
    BY <1>7 DEF Withdraw, Delete, LocalsOK, Goto, Answer
  <2> QED
    BY <1>4, <2>1 DEF Creating, Filling, Visiting, Dropping
<1>8. CASE Header(w) \/ ReadCell(w) \/ AddCell(w) \/ StoreCell(w)
  <2>1. /\ pc[w] \in Filling /\ UNCHANGED registered
        /\ \/ pc'[w] \in Filling /\ index'[w] = index[w]
           \/ pc'[w] = "encode index"
    BY <1>8 DEF Header, ReadCell, AddCell, StoreCell, LocalsOK, Goto, Filling, Visiting
  <2>2. index[w] = registered /\ registered # NoIndex
    BY <1>2, <2>1, IndexBuildAssumption DEF KnowsIndex, LocalsOK, IndexesInUse
  <2> QED
    BY <1>3, <2>1, <2>2 DEF Filling, Visiting
<1>9. CASE StartCreate(w) \/ StartDrop(w)
  <2>1. /\ UNCHANGED registered
        /\ \/ pc'[w] = "publish" /\ registered = NoIndex
           \/ pc'[w] = "delete" /\ registered # NoIndex
    BY <1>9 DEF StartCreate, StartDrop, LocalsOK, Goto
  <2> QED
    BY <1>3, <2>1 DEF Filling, Visiting
<1> QED
  BY <1>5, <1>6, <1>7, <1>8, <1>9 DEF Step, Request

LEMMA IndexFollowsNext ==
  ASSUME LocalsOK, SharedOK, disk \in Image, WhileApart, apart', NEW w \in Worker, Step(w) \/ Request(w)
  PROVE  IndexFollows'
<1> USE DEF At
<1>1. \A v \in Worker \ {w} : pc'[v] = pc[v]
  BY OthersWait
<1>2. Alone /\ KnowsIndex /\ IndexFollows
  BY DEF WhileApart
<1>3. CASE IndexEncode(w)
  <2>1. pc[w] = "encode index" /\ pc'[w] = "idle" /\ UNCHANGED registered
    BY <1>3 DEF IndexEncode, Answer, LocalsOK
  <2>2. registered # NoIndex /\ \A v \in Worker \ {w} : pc[v] \notin Creating
    BY <1>2, <2>1 DEF Alone, KnowsIndex, Creating
  <2> QED
    BY <1>1, <2>1, <2>2 DEF IndexFollows, Creating, Filling, Visiting
<1>4. CASE ~IndexEncode(w)
  <2> SUFFICES ASSUME disk'.indexed
               PROVE  /\ \A v \in Worker : pc'[v] \notin Creating
                      /\ registered' # NoIndex \/ \E v \in Worker : pc'[v] = "encode drop"
    BY DEF IndexFollows, Some
  <2>1. disk.indexed /\ ~DropEncode(w)
    <3>1. CASE InsertEncode(w) \/ RemoveEncode(w) \/ DropEncode(w)
      <4>1. ~DropEncode(w)
        BY DEF DropEncode, WriteDrop, Image
      <4>2. \A s : ~Unreadable.indexed /\ [disk EXCEPT !.keys = s].indexed = disk.indexed
        BY DEF Unreadable, Image
      <4>3. disk' = Unreadable \/ \E s : disk' = [disk EXCEPT !.keys = s]
        <5>1. CASE InsertEncode(w)
          BY <5>1 DEF InsertEncode, WriteInsert
        <5>2. CASE RemoveEncode(w)
          BY <5>2 DEF RemoveEncode, WriteRemove
        <5> QED
          BY <3>1, <4>1, <5>1, <5>2
      <4> QED
        BY <4>1, <4>2, <4>3
    <3>2. CASE ~(InsertEncode(w) \/ RemoveEncode(w) \/ DropEncode(w))
      <4>1. UNCHANGED disk
        BY <1>4, <3>2 DEF Step, Request, StartInsert, InsertEnter, InsertStore, InsertAppend,
           StartRemove, StartFind, Find, RemoveLock, RemoveFree, RemoveSwap, StartCreate, Publish,
           Header, ReadCell, AddCell, StoreCell, Withdraw, StartDrop, Delete
      <4> QED
        BY <3>2, <4>1
    <3> QED
      BY <3>1, <3>2
  <2>2. /\ \A v \in Worker : pc[v] \notin Creating
        /\ registered # NoIndex \/ \E v \in Worker : pc[v] = "encode drop"
    BY <1>2, <2>1 DEF IndexFollows, Some
  <2>3. ~StartCreate(w)
    BY <2>2 DEF StartCreate, Meet, Some, Dropping
  <2>4. CASE Delete(w)
    <3>1. pc'[w] = "encode drop"
      BY <2>4 DEF Delete, Goto, LocalsOK
    <3> QED
      BY <1>1, <2>2, <3>1 DEF Creating, Filling, Visiting
  <2>5. CASE ~Delete(w)
    <3>1. UNCHANGED registered /\ pc[w] # "encode drop" /\ pc'[w] \notin Creating
      BY <1>4, <2>1, <2>2, <2>3, <2>5
         DEF Step, Request, StartInsert, InsertEnter, InsertStore, InsertAppend, InsertEncode,
             StartRemove, StartFind, Find, RemoveLock, RemoveFree, RemoveSwap, RemoveEncode,
             Publish, Header, ReadCell, AddCell, StoreCell, Withdraw, StartDrop, Goto, Answer,
             LocalsOK, Creating, Filling, Visiting
    <3> QED
      BY <1>1, <2>2, <3>1
  <2> QED
    BY <2>4, <2>5
<1> QED
  BY <1>3, <1>4

\* The keys of a slice that grows by a row, and of one that loses a row.
LEMMA KeysOfProperties ==
  ASSUME NEW s \in Seq(Row)
  PROVE  /\ KeysOf(s) \in Seq(Key) /\ DOMAIN KeysOf(s) = DOMAIN s /\ Len(KeysOf(s)) = Len(s)
         /\ \A r \in Row : KeysOf(Append(s, r)) = Append(KeysOf(s), KeyOf[r])
         /\ \A i \in DOMAIN s : KeysOf(SwappedOut(s, i)) = SwappedOut(KeysOf(s), i)
<1>1. DOMAIN s = 1 .. Len(s) /\ Len(s) \in Nat /\ \A k \in DOMAIN s : s[k] \in Row
  BY SequencesOfRows
<1>2. KeysOf(s) \in [1 .. Len(s) -> Key]
  BY <1>1, IndexBuildAssumption DEF KeysOf
<1>3. KeysOf(s) \in Seq(Key) /\ DOMAIN KeysOf(s) = DOMAIN s
  BY <1>1, <1>2, SeqDef
<1>4. Len(KeysOf(s)) = Len(s)
  BY <1>1, <1>3, LenProperties
<1>5. ASSUME NEW r \in Row PROVE KeysOf(Append(s, r)) = Append(KeysOf(s), KeyOf[r])
  <2> DEFINE t == Append(s, r)
             u == Append(KeysOf(s), KeyOf[r])
  <2>1. KeyOf[r] \in Key
    BY IndexBuildAssumption
  <2>2. /\ DOMAIN t = 1 .. Len(s) + 1 /\ t[Len(s) + 1] = r
        /\ \A k \in 1 .. Len(s) : t[k] = s[k]
    BY AppendElements
  <2>3. /\ u \in Seq(Key) /\ DOMAIN u = 1 .. Len(s) + 1 /\ u[Len(s) + 1] = KeyOf[r]
        /\ \A k \in 1 .. Len(s) : u[k] = KeysOf(s)[k]
    BY <1>3, <1>4, <2>1, AppendElements
  <2>4. u = [k \in 1 .. Len(s) + 1 |-> u[k]]
    BY <2>3
  <2> HIDE DEF t, u
  <2>5. \A k \in 1 .. Len(s) + 1 : KeyOf[t[k]] = u[k]
    BY <1>1, <2>2, <2>3 DEF KeysOf
  <2>6. KeysOf(t) = u
    BY <2>2, <2>4, <2>5 DEF KeysOf
  <2> QED
    BY <2>6 DEF t, u
<1>6. ASSUME NEW i \in DOMAIN s PROVE KeysOf(SwappedOut(s, i)) = SwappedOut(KeysOf(s), i)
  <2> DEFINE t == SwappedOut(s, i)
  <2>1. /\ DOMAIN t = 1 .. Len(s) - 1 /\ Len(s) \in DOMAIN s
        /\ \A k \in 1 .. Len(s) - 1 : k \in DOMAIN s /\ t[k] = IF k = i THEN s[Len(s)] ELSE s[k]
    BY <1>1, SwappedOutProperties
  <2> HIDE DEF t
  <2>2. \A k \in 1 .. Len(s) - 1 :
          KeyOf[t[k]] = IF k = i THEN KeysOf(s)[Len(s)] ELSE KeysOf(s)[k]
    BY <2>1 DEF KeysOf
  <2>3. KeysOf(t) = [k \in 1 .. Len(s) - 1 |-> IF k = i THEN KeysOf(s)[Len(s)] ELSE KeysOf(s)[k]]
    BY <2>1, <2>2 DEF KeysOf
  <2>4. SwappedOut(KeysOf(s), i)
        = [k \in 1 .. Len(s) - 1 |-> IF k = i THEN KeysOf(s)[Len(s)] ELSE KeysOf(s)[k]]
    BY <1>4 DEF SwappedOut
  <2> QED
    BY <2>3, <2>4 DEF t
<1> QED
  BY <1>3, <1>4, <1>5, <1>6

\* An index that is clean and filled has the key of every row, so that AddRow
\* accepts no key the journal has.
LEMMA AcceptedIsNew ==
  ASSUME GroundInv, CleanInv, WhileApart, NEW w \in Worker, InsertEnter(w), At(w, {"store"})',
         disk.indexed
  PROVE  KeyOf[row[w]] \notin In(disk.keys)
<1> USE DEF At
<1>1. LocalsOK /\ SharedOK /\ Alone /\ IndexFollows /\ KeysFollow
  BY TypesInParts DEF GroundInv, WhileApart
<1>2. /\ pc[w] = "enter" /\ row[w] \in Row
      /\ entries[index[w]][KeyOf[row[w]]] = NoRow
  BY <1>1 DEF InsertEnter, Answer, LocalsOK, RowsOfRequests, Inserting, Taken
<1>3. \A v \in Worker \ {w} : pc[v] = "idle"
  BY <1>1, <1>2 DEF Alone, Inserting
<1>4. registered # NoIndex /\ registered \in Index
  BY <1>1, <1>2, <1>3 DEF IndexFollows, Some, SharedOK
<1>5. HandlersKnow /\ FilledIsWhole
  BY <1>4 DEF CleanInv, Clean, WhileApart, WhileClean, Handlers
<1>6. index[w] = registered
  BY <1>2, <1>5 DEF HandlersKnow
<1>7. entries[registered][KeyOf[row[w]]] = NoRow
  BY <1>2, <1>4, <1>6
<1>8. \A r \in In(Rows) : entries[registered][KeyOf[r]] = r
  BY <1>2, <1>3, <1>5 DEF FilledIsWhole, Owner, Filling, Visiting, Indexed
<1>9. disk.keys = KeysOf(Rows)
  BY <1>1, <1>2, <1>3 DEF KeysFollow, Some
<1> SUFFICES ASSUME KeyOf[row[w]] \in In(disk.keys) PROVE FALSE
  OBVIOUS
<1>10. PICK k \in DOMAIN Rows : KeyOf[Rows[k]] = KeyOf[row[w]]
  BY <1>9 DEF In, KeysOf
<1>11. Rows[k] \in Row /\ Rows[k] \in In(Rows)
  BY <1>1, SequencesOfRows DEF SharedOK
<1> QED
  BY <1>7, <1>8, <1>10, <1>11, IndexBuildAssumption

LEMMA AdmittedNext ==
  ASSUME GroundInv, CleanInv, WhileApart, apart', NEW w \in Worker, Step(w) \/ Request(w)
  PROVE  Admitted'
<1> USE DEF At
<1>1. LocalsOK /\ SharedOK /\ Alone /\ Admitted /\ IndexFollows
  BY TypesInParts DEF GroundInv, WhileApart
<1>2. \A v \in Worker \ {w} : pc'[v] = pc[v] /\ row'[v] = row[v]
  BY <1>1, OthersWait
<1> SUFFICES ASSUME NEW v \in Worker, pc'[v] \in {"store", "append", "encode insert"}, disk'.indexed
             PROVE  KeyOf[row'[v]] \notin In(disk'.keys)
  BY DEF Admitted
<1>3. CASE v # w
  <2>1. pc[v] = pc'[v] /\ pc[w] = "idle"
    BY <1>1, <1>2, <1>3 DEF Alone, Inserting
  <2>2. Request(w)
    BY <2>1 DEF Step, InsertEnter, InsertStore, InsertAppend, InsertEncode, Find, RemoveLock,
                RemoveFree, RemoveSwap, RemoveEncode, Publish, Header, ReadCell, AddCell, StoreCell,
                Withdraw, IndexEncode, Delete, DropEncode, Filling
  <2>3. UNCHANGED disk
    BY <2>2 DEF Request, StartInsert, StartRemove, StartFind, StartCreate, StartDrop
  <2> QED
    BY <1>1, <1>2, <1>3, <2>1, <2>3 DEF Admitted
<1>4. CASE v = w /\ InsertEnter(w)
  <2>1. UNCHANGED <<row, disk>> /\ pc'[w] = "store"
    BY <1>1, <1>4 DEF InsertEnter, Answer, Goto, LocalsOK
  <2> QED
    BY <1>4, <2>1, AcceptedIsNew
<1>5. CASE v = w /\ (InsertStore(w) \/ InsertAppend(w))
  BY <1>1, <1>5 DEF InsertStore, InsertAppend, Admitted
<1>6. CASE v = w /\ \E r \in Row : StartInsert(w, r)
  <2>1. PICK r \in Row : StartInsert(w, r)
    BY <1>6
  <2>2. registered = NoIndex
    BY <1>1, <1>6, <2>1 DEF StartInsert, Goto, LocalsOK
  <2>3. UNCHANGED disk /\ \A u \in Worker : pc[u] = "idle"
    BY <2>1 DEF StartInsert, Quiet
  <2> QED
    BY <1>1, <2>2, <2>3 DEF IndexFollows, Some
<1>7. CASE v = w /\ ~InsertEnter(w) /\ ~InsertStore(w) /\ ~InsertAppend(w)
                /\ ~\E r \in Row : StartInsert(w, r)
  <2>1. pc'[w] \notin {"store", "append", "encode insert"}
    BY <1>1, <1>7
       DEF Step, Request, InsertEncode, StartRemove, StartFind, Find, RemoveLock, RemoveFree,
           RemoveSwap, RemoveEncode, StartCreate, Publish, Header, ReadCell, AddCell, StoreCell,
           Withdraw, IndexEncode, StartDrop, Delete, DropEncode, Goto, Answer, LocalsOK
  <2> QED
    BY <1>7, <2>1
<1> QED
  BY <1>3, <1>4, <1>5, <1>6, <1>7

LEMMA KeysFollowNext ==
  ASSUME GroundInv, WhileApart, NEW w \in Worker, Step(w) \/ Request(w)
  PROVE  disk'.ok /\ KeysFollow'
<1> USE DEF At
<1>1. /\ LocalsOK /\ Alone /\ KeysFollow /\ Admitted /\ HoldsRows /\ disk.ok
      /\ Rows \in Seq(Row) /\ disk.keys \in Seq(Key) /\ disk \in Image
  BY TypesInParts DEF GroundInv, PlaceInv, WhileApart, SharedOK, Image
<1>2. \A v \in Worker \ {w} : pc'[v] = pc[v] /\ row'[v] = row[v] /\ at'[v] = at[v]
  BY <1>1, OthersWait
<1> DEFINE Pending(v) == pc[v] \in {"encode insert", "encode remove"}
<1>3. pc[w] \in Inserting \cup Removing => \A v \in Worker \ {w} : ~Pending(v)
  <2>1. pc[w] \in Inserting => \A v \in Worker \ {w} : pc[v] = "idle"
    BY <1>1 DEF Alone
  <2>2. pc[w] \in Removing => \A v \in Worker \ {w} : pc[v] \notin Removing /\ pc[v] \notin Inserting
    BY <1>1 DEF Alone, Removing, Inserting
  <2> QED
    BY <2>1, <2>2 DEF Inserting, Removing
<1>4. CASE InsertAppend(w)
  <2>1. /\ pc[w] = "append" /\ pc'[w] = "encode insert" /\ row[w] \in Row /\ UNCHANGED <<row, disk>>
        /\ Rows' = Append(Rows, row[w])
    BY <1>1, <1>4 DEF InsertAppend, Goto, LocalsOK, RowsOfRequests, Inserting
  <2>2. \A v \in Worker \ {w} : ~Pending(v)
    BY <1>3, <2>1 DEF Inserting
  <2>3. disk.keys = KeysOf(Rows)
    BY <1>1, <2>1, <2>2 DEF KeysFollow, Some
  <2>4. KeysOf(Rows') = Append(disk.keys, KeyOf[row[w]])
    BY <1>1, <2>1, <2>3, KeysOfProperties
  <2>5. disk' = disk /\ row' = row
    BY <2>1
  <2>6. \A v \in Worker \ {w} : ~(pc'[v] \in {"encode insert", "encode remove"})
    BY <1>2, <2>2
  <2>7. ~Some({"encode insert", "encode remove"})' => disk'.keys = KeysOf(Rows')
    BY <2>1 DEF Some
  <2>8. ASSUME NEW v \in Worker
        PROVE  /\ At(v, {"encode insert"})' => KeysOf(Rows') = Append(disk'.keys, KeyOf[row'[v]])
               /\ ~At(v, {"encode remove"})'
    <3>1. CASE v = w
      BY <2>1, <2>4, <2>5, <3>1
    <3>2. CASE v # w
      BY <2>6, <3>2
    <3> QED
      BY <3>1, <3>2
  <2>9. KeysFollow'
    BY <2>7, <2>8 DEF KeysFollow
  <2> QED
    BY <1>1, <2>5, <2>9
<1>5. CASE InsertEncode(w)
  <2>1. /\ pc[w] = "encode insert" /\ pc'[w] = "idle" /\ UNCHANGED Rows /\ WriteInsert(row[w])
    BY <1>1, <1>5 DEF InsertEncode, Answer, LocalsOK, data
  <2>2. \A v \in Worker \ {w} : ~Pending(v)
    BY <1>3, <2>1 DEF Inserting
  <2>3. disk' = [disk EXCEPT !.keys = Append(@, KeyOf[row[w]])]
    BY <1>1, <2>1 DEF WriteInsert, Admitted
  <2>4. disk'.ok /\ disk'.keys = KeysOf(Rows)
    BY <1>1, <2>1, <2>3 DEF KeysFollow, Image
  <2> QED
    BY <1>2, <2>1, <2>2, <2>4 DEF KeysFollow, Some
<1>6. CASE RemoveSwap(w)
  <2>1. /\ pc[w] = "swap" /\ pc'[w] = "encode remove" /\ UNCHANGED <<at, disk>>
        /\ Rows' = SwappedOut(Rows, at[w]) /\ at[w] \in DOMAIN Rows
    BY <1>1, <1>6 DEF RemoveSwap, Goto, LocalsOK, HoldsRows
  <2>2. \A v \in Worker \ {w} : ~Pending(v)
    BY <1>3, <2>1 DEF Removing
  <2>3. disk.keys = KeysOf(Rows)
    BY <1>1, <2>1, <2>2 DEF KeysFollow, Some
  <2>4. KeysOf(Rows') = SwappedOut(disk.keys, at[w]) /\ at[w] \in DOMAIN disk.keys
    BY <1>1, <2>1, <2>3, KeysOfProperties
  <2> QED
    BY <1>1, <1>2, <2>1, <2>2, <2>4 DEF KeysFollow, Some
<1>7. CASE RemoveEncode(w)
  <2>1. /\ pc[w] = "encode remove" /\ pc'[w] = "idle" /\ UNCHANGED Rows /\ WriteRemove(at[w])
    BY <1>1, <1>7 DEF RemoveEncode, Answer, LocalsOK, data
  <2>2. \A v \in Worker \ {w} : ~Pending(v)
    BY <1>3, <2>1 DEF Removing
  <2>3. at[w] \in DOMAIN disk.keys /\ KeysOf(Rows) = SwappedOut(disk.keys, at[w])
    BY <1>1, <2>1 DEF KeysFollow
  <2>4. ~(at[w] > Len(disk.keys))
    BY <1>1, <2>3, LenProperties
  <2>5. disk' = [disk EXCEPT !.keys = SwappedOut(@, at[w])]
    BY <1>1, <2>1, <2>4 DEF WriteRemove
  <2>6. disk'.ok /\ disk'.keys = KeysOf(Rows)
    BY <1>1, <2>3, <2>5 DEF Image
  <2> QED
    BY <1>2, <2>1, <2>2, <2>6 DEF KeysFollow, Some
<1>8. CASE ~(InsertAppend(w) \/ InsertEncode(w) \/ RemoveSwap(w) \/ RemoveEncode(w))
  <2>1. disk'.ok = disk.ok /\ disk'.keys = disk.keys /\ UNCHANGED Rows
    <3>1. CASE IndexEncode(w)
      BY <1>1, <3>1 DEF IndexEncode, WriteIndex, Image, data
    <3>2. CASE DropEncode(w)
      BY <1>1, <3>2 DEF DropEncode, WriteDrop, Image, data
    <3>3. CASE ~IndexEncode(w) /\ ~DropEncode(w)
      <4>1. UNCHANGED <<disk, Rows>>
        BY <1>8, <3>3
           DEF Step, Request, StartInsert, InsertEnter, InsertStore, StartRemove, StartFind, Find,
               RemoveLock, RemoveFree, StartCreate, Publish, Header, ReadCell, AddCell, StoreCell,
               Withdraw, StartDrop, Delete, data
      <4> QED
        BY <4>1
    <3> QED
      BY <3>1, <3>2, <3>3
  <2>2. ~Pending(w) /\ pc'[w] \notin {"encode insert", "encode remove"}
    BY <1>1, <1>8
       DEF Step, Request, StartInsert, InsertEnter, InsertStore, StartRemove, StartFind, Find,
           RemoveLock, RemoveFree, StartCreate, Publish, Header, ReadCell, AddCell, StoreCell,
           Withdraw, IndexEncode, StartDrop, Delete, DropEncode, Goto, Answer, LocalsOK, Filling
  <2> QED
    BY <1>1, <1>2, <2>1, <2>2 DEF KeysFollow, Some
<1> QED
  BY <1>4, <1>5, <1>6, <1>7, <1>8

LEMMA MarredNext ==
  ASSUME LocalsOK, SharedOK, marred = {}, Alone, apart', NEW w \in Worker, Step(w) \/ Request(w)
  PROVE  marred' = {}
<1> USE DEF At, Some
<1>1. CASE Publish(w)
  <2>1. \A v \in Worker : pc[v] \notin {"enter", "store", "append", "free", "swap"}
    BY <1>1 DEF Publish, Alone, Inserting
  <2> QED
    BY <1>1, <2>1 DEF Publish
<1>2. CASE RemoveLock(w)
  <2>1. CASE UNCHANGED marred
    BY <2>1
  <2>2. CASE ~UNCHANGED marred
    <3>1. row[w] \in In(Rows) /\ {u \in Worker : pc[u] \in Filling} = {}
      BY <1>2, <2>2 DEF RemoveLock, history
    <3> QED
      BY <1>2, <2>2, <3>1 DEF RemoveLock, history
  <2> QED
    BY <2>1, <2>2
<1>3. CASE InsertEnter(w) \/ AddCell(w)
  <2>1. pc[w] \in {"enter", "add row"} /\ LookUp(w, index[w], row[w])
    BY <1>3 DEF InsertEnter, AddCell
  <2>2. \A v \in Worker \ {w} : pc[v] \notin {"store", "store row"}
    BY <2>1 DEF Alone, Inserting, Creating, Filling, Visiting
  <2> QED
    BY <2>1, <2>2 DEF LookUp, Races
<1>4. CASE ~Publish(w) /\ ~RemoveLock(w) /\ ~InsertEnter(w) /\ ~AddCell(w)
  <2>1. UNCHANGED marred
    BY <1>4
       DEF Step, Request, StartInsert, InsertStore, InsertAppend, InsertEncode, StartRemove,
           StartFind, Find, RemoveFree, RemoveSwap, RemoveEncode, StartCreate, Header, ReadCell,
           StoreCell, Withdraw, IndexEncode, StartDrop, Delete, DropEncode, history
  <2> QED
    BY <2>1
<1> QED
  BY <1>1, <1>2, <1>3, <1>4

LEMMA FollowNext == GroundInv /\ CleanInv /\ FollowInv /\ [Next]_vars => FollowInv'
<1> SUFFICES ASSUME GroundInv, CleanInv, FollowInv, [Next]_vars, apart' PROVE WhileApart'
  BY DEF FollowInv
<1>1. LocalsOK /\ SharedOK /\ disk \in Image
  BY TypesInParts DEF GroundInv
<1>2. ASSUME NEW w \in Worker, Step(w) \/ Request(w) PROVE WhileApart'
  <2>1. WhileApart
    BY <1>1, <1>2, Labels DEF FollowInv
  <2>2. marred = {} /\ Alone
    BY <2>1 DEF WhileApart
  <2>3. marred' = {} /\ Alone'
    BY <1>1, <1>2, <2>2, AloneNext, MarredNext
  <2>4. KnowsIndex' /\ IndexFollows'
    BY <1>1, <1>2, <2>1, KnowsIndexNext, IndexFollowsNext
  <2>5. disk'.ok /\ KeysFollow' /\ Admitted'
    BY <1>2, <2>1, KeysFollowNext, AdmittedNext
  <2> QED
    BY <2>3, <2>4, <2>5 DEF WhileApart
<1>3. CASE UNCHANGED vars
  BY <1>3 DEF vars, FollowInv, WhileApart, Alone, KnowsIndex, IndexFollows, KeysFollow, Admitted,
              At, Some, KeysOf, In
<1> QED
  BY <1>2, <1>3 DEF Next

LEMMA FollowInvariant == Spec => [](GroundInv /\ CleanInv /\ FollowInv)
<1>1. Init => CleanInv
  BY DEF Init, CleanInv, Clean
<1> QED
  BY <1>1, GroundInit, FollowInit, GroundNext, CleanNext, FollowNext, PTL DEF Spec

\* createIndex and dropIndex change memory first and journal afterwards, and so
\* do insert and remove, none under a lock that covers both.  As long as
\* inserts run alone, removals and requests about the index one after another,
\* no fill meets a removal and no removal takes a row that is not in Rows, the
\* journal can be read all the same: each position it names is there, no insert
\* is refused by an index memory did not have, and when nothing is under way it
\* has no index that memory has not.
THEOREM SpecJournalFollows == Spec => []JournalFollows
<1>1. FollowInv => JournalFollows
  <2> SUFFICES ASSUME FollowInv, apart
               PROVE  disk.ok /\ (disk.indexed /\ Quiet => registered # NoIndex)
    BY DEF JournalFollows
  <2>1. disk.ok /\ IndexFollows
    BY DEF FollowInv, WhileApart
  <2> QED
    BY <2>1 DEF IndexFollows, Quiet, Some, At
<1> QED
  BY <1>1, FollowInvariant, PTL
=============================================================================

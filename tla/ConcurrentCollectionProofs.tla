--------------------- MODULE ConcurrentCollectionProofs ---------------------
(***************************************************************************)
(* For any number of workers and rows, and any requests they may send:     *)
(* every variable keeps its type, every row in Rows knows its position,    *)
(* a free document is claimed by one worker at most, a row leaves Rows by  *)
(* its own removal, and patches alone are replayed to what is in memory.   *)
(***************************************************************************)
EXTENDS ConcurrentCollection, SequenceTheorems, TLAPS

Inserting(w) == pc[w] \in {"store", "append"}
Patching(w) == pc[w] \in {"unindex", "reindex", "restore", "read I", "encode patch"}

\* Only a row that was never in Rows is appended, and by one worker only; the
\* removal between its two steps holds rowsMutex, so that the slice keeps the
\* length the position was compared with.
InsertersApart ==
  /\ In(Rows) \subseteq born
  /\ \A w \in Worker : Inserting(w) => row[w] \in born \ In(Rows)
  /\ \A v, w \in Worker : Inserting(v) /\ Inserting(w) /\ row[v] = row[w] => v = w

SwapInRange ==
  \A w \in Worker : pc[w] = "swap" => rowsMutex = w /\ at[w] \in 1 .. Len(Rows)

RowsOfRequests == \A w \in Worker : pc[w] # "idle" => row[w] \in Row

PlaceInv ==
  /\ TypeOK
  /\ RowsOfRequests
  /\ RowsKnowTheirPlace
  /\ InsertersApart
  /\ SwapInRange

-----------------------------------------------------------------------------
\* Swap-removal: what SwappedOut returns.
LEMMA SwappedOutProperties ==
  ASSUME NEW S, NEW s \in Seq(S), NEW i \in 1 .. Len(s)
  PROVE  /\ SwappedOut(s, i) \in Seq(S)
         /\ Len(SwappedOut(s, i)) = Len(s) - 1
         /\ DOMAIN SwappedOut(s, i) = 1 .. Len(s) - 1
         /\ \A k \in 1 .. Len(s) - 1 :
              SwappedOut(s, i)[k] = IF k = i THEN s[Len(s)] ELSE s[k]
<1> DEFINE t == SwappedOut(s, i)
<1>1. Len(s) \in Nat /\ Len(s) - 1 \in Nat
  BY LenProperties
<1>2. \A k \in 1 .. Len(s) : s[k] \in S
  BY ElementOfSeq
<1>3. t \in [1 .. Len(s) - 1 -> S]
  BY <1>1, <1>2 DEF SwappedOut
<1>4. t \in Seq(S)
  BY <1>1, <1>3, SeqDef
<1>5. DOMAIN t = 1 .. Len(s) - 1
  BY DEF SwappedOut
<1>6. Len(t) = Len(s) - 1
  BY <1>1, <1>4, <1>5, LenProperties
<1> QED
  BY <1>4, <1>5, <1>6 DEF SwappedOut

\* Append: the elements of the longer sequence.
LEMMA AppendElements ==
  ASSUME NEW S, NEW s \in Seq(S), NEW e \in S
  PROVE  /\ Append(s, e) \in Seq(S)
         /\ DOMAIN Append(s, e) = 1 .. Len(s) + 1
         /\ \A k \in 1 .. Len(s) : Append(s, e)[k] = s[k]
         /\ Append(s, e)[Len(s) + 1] = e
         /\ DOMAIN s = 1 .. Len(s)
         /\ Len(s) \in Nat
  OBVIOUS

\* The initial state has its types and places.
LEMMA PlaceInit == Init => PlaceInv
<1> SUFFICES ASSUME Init PROVE PlaceInv
  OBVIOUS
<1>1. /\ Loaded \in Seq(Row)
      /\ DOMAIN Loaded = 1 .. Len(Loaded)
      /\ Len(Loaded) \in Nat
      /\ \A k \in DOMAIN Loaded : Loaded[k] \in Row
      /\ \A j, k \in DOMAIN Loaded : Loaded[j] = Loaded[k] => j = k
  BY ConcurrentAssumption, LenProperties, ElementOfSeq
<1>2. In(Loaded) \subseteq Row
  BY <1>1 DEF In
<1>3. ASSUME NEW r \in In(Loaded)
      PROVE  /\ (CHOOSE k \in DOMAIN Loaded : Loaded[k] = r) \in 1 .. Len(Loaded)
             /\ Loaded[CHOOSE k \in DOMAIN Loaded : Loaded[k] = r] = r
  BY <1>1 DEF In
<1>4. I \in [Row -> Nat \ {0}]
  <2> DEFINE place(r) == IF r \in In(Loaded) THEN CHOOSE k \in DOMAIN Loaded : Loaded[k] = r ELSE 1
  <2>1. \A r \in Row : place(r) \in Nat \ {0}
    BY <1>1, <1>3
  <2>2. I = [r \in Row |-> place(r)]
    BY DEF Init
  <2> HIDE DEF place
  <2> QED
    BY <2>1, <2>2
<1>5. RowsKnowTheirPlace
  <2> SUFFICES ASSUME NEW k \in DOMAIN Rows PROVE I[Rows[k]] = k
    BY DEF RowsKnowTheirPlace
  <2>1. k \in DOMAIN Loaded /\ Rows[k] = Loaded[k] /\ Loaded[k] \in In(Loaded)
    BY DEF Init, In
  <2>2. I[Loaded[k]] = CHOOSE j \in DOMAIN Loaded : Loaded[j] = Loaded[k]
    BY <1>2, <2>1 DEF Init
  <2> QED
    BY <1>1, <1>3, <2>1, <2>2
<1>6. Entries \in [Key -> Row \cup {NoRow}]
  BY <1>2 DEF Init
<1>7. disk \in Image
  BY <1>1 DEF Init, Image
<1>8. TypeOK
  <2>1. Rows \in Seq(Row) /\ born \in SUBSET Row
    BY <1>1, <1>2 DEF Init
  <2>2. claim \in [Row -> Worker \cup {Free}] /\ PatchMutex \in [Row -> Worker \cup {Nobody}]
    BY DEF Init
  <2>3. row \in [Worker -> Row \cup {NoRow}] /\ value \in [Worker -> Worker \cup {Free}]
    BY DEF Init
  <2>4. at \in [Worker -> Nat \ {0}] /\ gone \in SUBSET Row /\ winners \in [Row -> SUBSET Worker]
    BY DEF Init
  <2>5. pc \in [Worker -> {"idle", "store", "append", "encode insert", "free", "swap",
                           "encode remove", "lock", "unindex", "reindex", "restore",
                           "read I", "encode patch"}]
    BY DEF Init
  <2> QED
    BY <1>4, <1>6, <1>7, <2>1, <2>2, <2>3, <2>4, <2>5 DEF TypeOK, Init
<1> QED
  BY <1>2, <1>5, <1>8
     DEF PlaceInv, RowsOfRequests, InsertersApart, SwapInRange, Inserting, Init

-----------------------------------------------------------------------------
\* The journal keeps its type whatever is written to it.
LEMMA WritesKeepImage ==
  ASSUME disk \in Image
  PROVE  /\ \A r \in Row : WriteInsert(r) => disk' \in Image
         /\ \A i \in Nat \ {0} : WriteRemove(i) => disk' \in Image
         /\ \A i \in Nat \ {0}, v \in Worker \cup {Free} : WritePatch(i, v) => disk' \in Image
<1>1. Unreadable \in Image
  BY DEF Unreadable, Image
<1>2. /\ disk.Rows \in Seq(Row) /\ disk.ok \in BOOLEAN
      /\ disk.claim \in [Row -> Worker \cup {Free}]
      /\ disk = [ok |-> disk.ok, Rows |-> disk.Rows, claim |-> disk.claim]
  BY DEF Image
<1>3. ASSUME NEW r \in Row, WriteInsert(r) PROVE disk' \in Image
  <2>1. Append(disk.Rows, r) \in Seq(Row)
    BY <1>2
  <2>2. disk' = Unreadable \/ disk' = [disk EXCEPT !.Rows = Append(disk.Rows, r)]
    BY <1>3 DEF WriteInsert
  <2> QED
    BY <1>1, <1>2, <2>1, <2>2 DEF Image
<1>4. ASSUME NEW i \in Nat \ {0}, WriteRemove(i) PROVE disk' \in Image
  <2>1. CASE disk' = Unreadable
    BY <1>1, <2>1
  <2>2. CASE disk' # Unreadable
    <3>1. i \in 1 .. Len(disk.Rows)
      BY <1>2, <1>4, <2>2, LenProperties DEF WriteRemove
    <3>2. SwappedOut(disk.Rows, i) \in Seq(Row)
      BY <1>2, <3>1, SwappedOutProperties
    <3>3. disk' = [disk EXCEPT !.Rows = SwappedOut(disk.Rows, i), !.claim[disk.Rows[i]] = Free]
      BY <1>4, <2>2 DEF WriteRemove
    <3> QED
      BY <1>2, <3>2, <3>3 DEF Image
  <2> QED
    BY <2>1, <2>2
<1>5. ASSUME NEW i \in Nat \ {0}, NEW v \in Worker \cup {Free}, WritePatch(i, v)
      PROVE  disk' \in Image
  <2>1. disk' = Unreadable \/ disk' = [disk EXCEPT !.claim[disk.Rows[i]] = v]
    BY <1>5 DEF WritePatch
  <2> QED
    BY <1>1, <1>2, <2>1 DEF Image
<1> QED
  BY <1>3, <1>4, <1>5

\* What the workers hold, and what they share.
Label == {"idle", "store", "append", "encode insert", "free", "swap",
          "encode remove", "lock", "unindex", "reindex", "restore",
          "read I", "encode patch"}

LocalsOK ==
  /\ pc \in [Worker -> Label]
  /\ row \in [Worker -> Row \cup {NoRow}]
  /\ at \in [Worker -> Nat \ {0}]
  /\ value \in [Worker -> Worker \cup {Free}]
  /\ RowsOfRequests

SharedOK ==
  /\ Rows \in Seq(Row)
  /\ I \in [Row -> Nat \ {0}]
  /\ claim \in [Row -> Worker \cup {Free}]
  /\ Entries \in [Key -> Row \cup {NoRow}]
  /\ rowsMutex \in Worker \cup {Nobody}
  /\ PatchMutex \in [Row -> Worker \cup {Nobody}]
  /\ born \in SUBSET Row

HistoryOK ==
  /\ gone \in SUBSET Row
  /\ winners \in [Row -> SUBSET Worker]
  /\ stray \in BOOLEAN
  /\ moved \in BOOLEAN

LEMMA TypesInParts ==
  TypeOK /\ RowsOfRequests <=> LocalsOK /\ SharedOK /\ disk \in Image /\ HistoryOK
  BY DEF TypeOK, LocalsOK, SharedOK, HistoryOK, Label

\* A worker that answers is idle, and the others keep what they hold.
LEMMA AnswerKeepsLocals ==
  ASSUME LocalsOK, NEW w \in Worker, Answer(w)
  PROVE  LocalsOK'
<1>1. pc' \in [Worker -> Label] /\ row' \in [Worker -> Row \cup {NoRow}]
  BY DEF LocalsOK, Answer, Label
<1>2. at' \in [Worker -> Nat \ {0}] /\ value' \in [Worker -> Worker \cup {Free}]
  BY DEF LocalsOK, Answer
<1>3. RowsOfRequests'
  BY DEF LocalsOK, RowsOfRequests, Answer
<1> QED
  BY <1>1, <1>2, <1>3 DEF LocalsOK

\* Every step keeps what the workers hold, and a request keeps its row.
LEMMA LocalsNext ==
  ASSUME LocalsOK, SharedOK, [Next]_vars
  PROVE  LocalsOK'
<1>1. ASSUME NEW w \in Worker, NEW r \in Row, StartInsert(w, r) PROVE LocalsOK'
  BY <1>1 DEF StartInsert, LocalsOK, SharedOK, RowsOfRequests, Label, At, Goto, local
<1>2. ASSUME NEW w \in Worker, InsertStore(w) PROVE LocalsOK'
  BY <1>2 DEF InsertStore, LocalsOK, SharedOK, RowsOfRequests, Label, At, Goto
<1>3. ASSUME NEW w \in Worker, InsertAppend(w) PROVE LocalsOK'
  BY <1>3 DEF InsertAppend, LocalsOK, SharedOK, RowsOfRequests, Label, At, Goto
<1>4. ASSUME NEW w \in Worker, InsertEncode(w) PROVE LocalsOK'
  BY <1>4, AnswerKeepsLocals DEF InsertEncode
<1>5. ASSUME NEW w \in Worker, NEW r \in Row, StartRemove(w, r) PROVE LocalsOK'
  BY <1>5 DEF StartRemove, LocalsOK, SharedOK, RowsOfRequests, Label, At, Goto
<1>6. ASSUME NEW w \in Worker, RemoveFree(w) PROVE LocalsOK'
  <2>1. CASE Answer(w)
    BY <2>1, AnswerKeepsLocals
  <2>2. CASE ~Answer(w)
    <3>1. pc' \in [Worker -> Label] /\ row' = row /\ value' = value
      BY <1>6, <2>2 DEF RemoveFree, LocalsOK, Label, Goto
    <3>2. at' \in [Worker -> Nat \ {0}]
      BY <1>6, <2>2 DEF RemoveFree, LocalsOK, SharedOK, RowsOfRequests, At
    <3>3. RowsOfRequests'
      BY <1>6, <2>2 DEF RemoveFree, LocalsOK, RowsOfRequests, At, Goto
    <3> QED
      BY <3>1, <3>2, <3>3 DEF LocalsOK
  <2> QED
    BY <2>1, <2>2
<1>7. ASSUME NEW w \in Worker, RemoveSwap(w) PROVE LocalsOK'
  BY <1>7 DEF RemoveSwap, LocalsOK, SharedOK, RowsOfRequests, Label, At, Goto
<1>8. ASSUME NEW w \in Worker, RemoveEncode(w) PROVE LocalsOK'
  BY <1>8, AnswerKeepsLocals DEF RemoveEncode
<1>9. ASSUME NEW w \in Worker, NEW r \in Row, StartPatch(w, r) PROVE LocalsOK'
  <2>1. pc' \in [Worker -> Label] /\ row' \in [Worker -> Row \cup {NoRow}] /\ at' = at
    BY <1>9 DEF StartPatch, LocalsOK, Label, Goto
  <2>2. value' \in [Worker -> Worker \cup {Free}]
    <3>1. PICK v \in {w, Free} : value' = [value EXCEPT ![w] = v]
      BY <1>9 DEF StartPatch
    <3> QED
      BY <3>1 DEF LocalsOK
  <2>3. RowsOfRequests'
    BY <1>9 DEF StartPatch, LocalsOK, RowsOfRequests, Goto
  <2> QED
    BY <2>1, <2>2, <2>3 DEF LocalsOK
<1>10. ASSUME NEW w \in Worker, PatchLock(w) PROVE LocalsOK'
  <2>1. CASE Answer(w)
    BY <2>1, AnswerKeepsLocals
  <2>2. CASE ~Answer(w)
    BY <1>10, <2>2 DEF PatchLock, LocalsOK, SharedOK, RowsOfRequests, Label, At, Goto
  <2> QED
    BY <2>1, <2>2
<1>11. ASSUME NEW w \in Worker, PatchUnindex(w) PROVE LocalsOK'
  BY <1>11 DEF PatchUnindex, LocalsOK, SharedOK, RowsOfRequests, Label, At, Goto
<1>12. ASSUME NEW w \in Worker, PatchReindex(w) PROVE LocalsOK'
  <2>1. CASE Answer(w)
    BY <2>1, AnswerKeepsLocals
  <2>2. CASE ~Answer(w)
    BY <1>12, <2>2 DEF PatchReindex, LocalsOK, SharedOK, RowsOfRequests, Label, At, Goto
  <2> QED
    BY <2>1, <2>2
<1>13. ASSUME NEW w \in Worker, PatchRestore(w) PROVE LocalsOK'
  BY <1>13 DEF PatchRestore, LocalsOK, SharedOK, RowsOfRequests, Label, At, Goto
<1>14. ASSUME NEW w \in Worker, PatchReadI(w) PROVE LocalsOK'
  BY <1>14 DEF PatchReadI, LocalsOK, SharedOK, RowsOfRequests, Label, At, Goto
<1>15. ASSUME NEW w \in Worker, PatchEncode(w) PROVE LocalsOK'
  BY <1>15, AnswerKeepsLocals DEF PatchEncode
<1>16. CASE Rest \/ UNCHANGED vars
  BY <1>16 DEF Rest, vars, LocalsOK, RowsOfRequests
<1> QED
  BY <1>1, <1>2, <1>3, <1>4, <1>5, <1>6, <1>7, <1>8, <1>9, <1>10, <1>11, <1>12, <1>13, <1>14, <1>15, <1>16 DEF Next, Step, Request

\* Every step keeps what they share.
LEMMA SharedNext ==
  ASSUME LocalsOK, SharedOK, SwapInRange, [Next]_vars
  PROVE  SharedOK'
<1>1. ASSUME NEW w \in Worker, NEW r \in Row, StartInsert(w, r) PROVE SharedOK'
  BY <1>1 DEF StartInsert, SharedOK, LocalsOK, RowsOfRequests, At
<1>2. ASSUME NEW w \in Worker, InsertStore(w) PROVE SharedOK'
  BY <1>2 DEF InsertStore, SharedOK, LocalsOK, RowsOfRequests, At
<1>3. ASSUME NEW w \in Worker, InsertAppend(w) PROVE SharedOK'
  <2>1. row[w] \in Row
    BY <1>3 DEF InsertAppend, LocalsOK, RowsOfRequests, At
  <2>2. Rows' \in Seq(Row)
    <3>1. Append(Rows, row[w]) \in Seq(Row)
      BY <2>1, AppendElements DEF SharedOK
    <3> QED
      BY <1>3, <3>1 DEF InsertAppend
  <2>3. Len(Rows) + 1 \in Nat \ {0}
    BY LenProperties DEF SharedOK
  <2>4. I' \in [Row -> Nat \ {0}]
    BY <1>3, <2>3 DEF InsertAppend, SharedOK
  <2> QED
    BY <1>3, <2>2, <2>4 DEF InsertAppend, SharedOK
<1>4. ASSUME NEW w \in Worker, InsertEncode(w) PROVE SharedOK'
  BY <1>4 DEF InsertEncode, SharedOK, LocalsOK, RowsOfRequests, At
<1>5. ASSUME NEW w \in Worker, NEW r \in Row, StartRemove(w, r) PROVE SharedOK'
  BY <1>5 DEF StartRemove, SharedOK, LocalsOK, RowsOfRequests, At, shared
<1>6. ASSUME NEW w \in Worker, RemoveFree(w) PROVE SharedOK'
  BY <1>6 DEF RemoveFree, SharedOK, LocalsOK, RowsOfRequests, At
<1>7. ASSUME NEW w \in Worker, RemoveSwap(w) PROVE SharedOK'
  <2>1. at[w] \in 1 .. Len(Rows)
    BY <1>7 DEF RemoveSwap, SwapInRange, At
  <2>2. Len(Rows) \in 1 .. Len(Rows) /\ Rows[Len(Rows)] \in Row /\ at[w] \in Nat \ {0}
    BY <2>1, LenProperties, ElementOfSeq DEF SharedOK
  <2>3. Rows' \in Seq(Row)
    BY <1>7, <2>1, SwappedOutProperties DEF RemoveSwap, SharedOK
  <2>4. I' \in [Row -> Nat \ {0}]
    BY <1>7, <2>2 DEF RemoveSwap, SharedOK
  <2> QED
    BY <1>7, <2>3, <2>4 DEF RemoveSwap, SharedOK
<1>8. ASSUME NEW w \in Worker, RemoveEncode(w) PROVE SharedOK'
  BY <1>8 DEF RemoveEncode, SharedOK, LocalsOK, RowsOfRequests, At
<1>9. ASSUME NEW w \in Worker, NEW r \in Row, StartPatch(w, r) PROVE SharedOK'
  BY <1>9 DEF StartPatch, SharedOK, LocalsOK, RowsOfRequests, At, shared
<1>10. ASSUME NEW w \in Worker, PatchLock(w) PROVE SharedOK'
  BY <1>10 DEF PatchLock, SharedOK, LocalsOK, RowsOfRequests, At
<1>11. ASSUME NEW w \in Worker, PatchUnindex(w) PROVE SharedOK'
  BY <1>11 DEF PatchUnindex, SharedOK, LocalsOK, RowsOfRequests, At
<1>12. ASSUME NEW w \in Worker, PatchReindex(w) PROVE SharedOK'
  BY <1>12 DEF PatchReindex, SharedOK, LocalsOK, RowsOfRequests, At
<1>13. ASSUME NEW w \in Worker, PatchRestore(w) PROVE SharedOK'
  BY <1>13 DEF PatchRestore, SharedOK, LocalsOK, RowsOfRequests, At
<1>14. ASSUME NEW w \in Worker, PatchReadI(w) PROVE SharedOK'
  BY <1>14 DEF PatchReadI, SharedOK, LocalsOK, RowsOfRequests, At, shared
<1>15. ASSUME NEW w \in Worker, PatchEncode(w) PROVE SharedOK'
  BY <1>15 DEF PatchEncode, SharedOK, LocalsOK, RowsOfRequests, At
<1>16. CASE Rest \/ UNCHANGED vars
  BY <1>16 DEF Rest, vars, SharedOK
<1> QED
  BY <1>1, <1>2, <1>3, <1>4, <1>5, <1>6, <1>7, <1>8, <1>9, <1>10, <1>11, <1>12, <1>13, <1>14, <1>15, <1>16 DEF Next, Step, Request

\* Every step keeps the types.
LEMMA TypeNext ==
  ASSUME TypeOK, RowsOfRequests, SwapInRange, [Next]_vars
  PROVE  TypeOK' /\ RowsOfRequests'
<1>1. LocalsOK /\ SharedOK /\ disk \in Image /\ HistoryOK
  BY TypesInParts
<1>2. disk' \in Image
  <2>1. ASSUME NEW w \in Worker, InsertEncode(w) PROVE disk' \in Image
    <3>1. WriteInsert(row[w]) /\ row[w] \in Row /\ at[w] \in Nat \ {0} /\ value[w] \in Worker \cup {Free}
      BY <1>1, <2>1 DEF InsertEncode, LocalsOK, RowsOfRequests, At
    <3> QED
      BY <1>1, <3>1, WritesKeepImage
  <2>2. ASSUME NEW w \in Worker, RemoveEncode(w) PROVE disk' \in Image
    <3>1. WriteRemove(at[w]) /\ row[w] \in Row /\ at[w] \in Nat \ {0} /\ value[w] \in Worker \cup {Free}
      BY <1>1, <2>2 DEF RemoveEncode, LocalsOK, RowsOfRequests, At
    <3> QED
      BY <1>1, <3>1, WritesKeepImage
  <2>3. ASSUME NEW w \in Worker, PatchEncode(w) PROVE disk' \in Image
    <3>1. WritePatch(at[w], value[w]) /\ row[w] \in Row /\ at[w] \in Nat \ {0} /\ value[w] \in Worker \cup {Free}
      BY <1>1, <2>3 DEF PatchEncode, LocalsOK, RowsOfRequests, At
    <3> QED
      BY <1>1, <3>1, WritesKeepImage
  <2>4. CASE UNCHANGED disk
    BY <1>1, <2>4
  <2> QED
    BY <2>1, <2>2, <2>3, <2>4
       DEF Next, Step, Request, Rest, vars, shared, StartInsert, InsertStore, InsertAppend,
           StartRemove, RemoveFree, RemoveSwap, StartPatch, PatchLock, PatchUnindex,
           PatchReindex, PatchRestore, PatchReadI
<1>3. HistoryOK'
  <2>1. ASSUME NEW w \in Worker, RemoveSwap(w) \/ RemoveEncode(w) PROVE HistoryOK'
    BY <1>1, <2>1 DEF RemoveSwap, RemoveEncode, HistoryOK, LocalsOK, RowsOfRequests, At
  <2>2. ASSUME NEW w \in Worker, PatchReindex(w) \/ PatchEncode(w) PROVE HistoryOK'
    <3>1. winners' \in [Row -> SUBSET Worker]
      <4>1. ASSUME PatchReindex(w) PROVE winners' \in [Row -> SUBSET Worker]
        BY <1>1, <4>1 DEF PatchReindex, HistoryOK
      <4>2. ASSUME PatchEncode(w) PROVE winners' \in [Row -> SUBSET Worker]
        <5>1. row[w] \in Row /\ winners[row[w]] \cup {w} \in SUBSET Worker
          BY <1>1, <4>2 DEF PatchEncode, HistoryOK, LocalsOK, RowsOfRequests, At
        <5> QED
          BY <1>1, <4>2, <5>1 DEF PatchEncode, HistoryOK
      <4> QED
        BY <2>2, <4>1, <4>2
    <3> QED
      BY <1>1, <2>2, <3>1 DEF PatchReindex, PatchEncode, HistoryOK
  <2>3. ASSUME NEW w \in Worker, NEW r \in Row, StartInsert(w, r) \/ StartRemove(w, r) PROVE HistoryOK'
    BY <1>1, <2>3 DEF StartInsert, StartRemove, HistoryOK
  <2>4. CASE UNCHANGED history
    BY <1>1, <2>4 DEF history, HistoryOK
  <2> QED
    BY <2>1, <2>2, <2>3, <2>4
       DEF Next, Step, Request, Rest, vars, history, InsertStore, InsertAppend, InsertEncode,
           RemoveFree, StartPatch, PatchLock, PatchUnindex, PatchRestore, PatchReadI
<1>4. LocalsOK' /\ SharedOK'
  BY <1>1, LocalsNext, SharedNext
<1> QED
  BY <1>2, <1>3, <1>4 DEF TypeOK, LocalsOK, SharedOK, HistoryOK, Label, RowsOfRequests

-----------------------------------------------------------------------------
Places == RowsKnowTheirPlace /\ InsertersApart /\ SwapInRange

\* A step of w that neither inserts nor removes a row disturbs no place.
LEMMA StepAside ==
  ASSUME PlaceInv, NEW w \in Worker,
         UNCHANGED <<Rows, I, born, rowsMutex>>,
         pc'[w] \notin {"store", "append", "swap"},
         \A v \in Worker \ {w} : pc'[v] = pc[v] /\ row'[v] = row[v] /\ at'[v] = at[v]
  PROVE  Places'
<1>1. RowsKnowTheirPlace'
  BY DEF PlaceInv, RowsKnowTheirPlace
<1>2. InsertersApart'
  <2>1. \A v \in Worker : Inserting(v)' => v # w /\ Inserting(v) /\ row'[v] = row[v]
    BY DEF Inserting
  <2>2. In(Rows)' = In(Rows)
    BY DEF In
  <2> QED
    BY <2>1, <2>2 DEF PlaceInv, InsertersApart
<1>3. SwapInRange'
  BY DEF PlaceInv, SwapInRange
<1> QED
  BY <1>1, <1>2, <1>3 DEF Places

\* An answer is such a step.
LEMMA AnswerAside ==
  ASSUME PlaceInv, NEW w \in Worker, Answer(w), UNCHANGED <<Rows, I, born, rowsMutex>>
  PROVE  Places'
<1>1. pc'[w] \notin {"store", "append", "swap"}
  BY DEF Answer, PlaceInv, TypeOK
<1>2. \A v \in Worker \ {w} : pc'[v] = pc[v] /\ row'[v] = row[v] /\ at'[v] = at[v]
  BY DEF Answer, PlaceInv, TypeOK
<1> QED
  BY <1>1, <1>2, StepAside

\* The slice as the proofs use it.
LEMMA RowsAsFunction ==
  ASSUME TypeOK
  PROVE  /\ Rows \in Seq(Row)
         /\ Len(Rows) \in Nat
         /\ DOMAIN Rows = 1 .. Len(Rows)
         /\ \A k \in 1 .. Len(Rows) : Rows[k] \in Row
  BY LenProperties, ElementOfSeq DEF TypeOK

\* A row that starts or goes on to be inserted is in no request and not in Rows.
LEMMA InsertPlaces ==
  ASSUME PlaceInv, NEW w \in Worker,
         (\E r \in Row : StartInsert(w, r)) \/ InsertStore(w) \/ InsertAppend(w)
  PROVE  Places'
<1> USE DEF PlaceInv
<1>1. ASSUME NEW r \in Row, StartInsert(w, r) PROVE Places'
  <2>1. CASE UNCHANGED <<born, local>>
    <3>1. UNCHANGED <<Rows, I, born, rowsMutex, pc, row, at>>
      BY <1>1, <2>1 DEF StartInsert, local
    <3>2. pc'[w] \notin {"store", "append", "swap"}
      BY <1>1, <3>1 DEF StartInsert, At
    <3> QED
      BY <3>1, <3>2, StepAside
  <2>2. CASE ~UNCHANGED <<born, local>>
    <3>1. /\ r \notin born /\ born' = born \cup {r}
          /\ row' = [row EXCEPT ![w] = r] /\ pc' = [pc EXCEPT ![w] = "store"]
          /\ UNCHANGED <<Rows, I, rowsMutex, at>>
      BY <1>1, <2>2 DEF StartInsert, Goto
    <3>2. \A v \in Worker \ {w} : Inserting(v)' => Inserting(v) /\ row'[v] = row[v]
      BY <3>1 DEF Inserting, TypeOK
    <3>3. row'[w] = r /\ In(Rows)' = In(Rows)
      BY <3>1 DEF In, TypeOK
    <3>4. InsertersApart'
      BY <3>1, <3>2, <3>3 DEF InsertersApart
    <3>5. SwapInRange'
      BY <3>1 DEF SwapInRange, TypeOK
    <3>6. RowsKnowTheirPlace'
      BY <3>1 DEF RowsKnowTheirPlace
    <3> QED
      BY <3>4, <3>5, <3>6 DEF Places
  <2> QED
    BY <2>1, <2>2
<1>2. ASSUME InsertStore(w) PROVE Places'
  <2>1. /\ pc' = [pc EXCEPT ![w] = "append"] /\ pc[w] = "store"
        /\ UNCHANGED <<Rows, I, rowsMutex, born, row, at>>
    BY <1>2 DEF InsertStore, Goto, At
  <2>2. \A v \in Worker : Inserting(v)' <=> Inserting(v)
    BY <2>1 DEF Inserting, TypeOK
  <2>3. InsertersApart'
    BY <2>1, <2>2 DEF InsertersApart, In
  <2>4. SwapInRange'
    BY <2>1 DEF SwapInRange, TypeOK
  <2>5. RowsKnowTheirPlace'
    BY <2>1 DEF RowsKnowTheirPlace
  <2> QED
    BY <2>3, <2>4, <2>5 DEF Places
<1>3. ASSUME InsertAppend(w) PROVE Places'
  <2> DEFINE r == row[w]
  <2>1. /\ pc[w] = "append" /\ rowsMutex = Nobody /\ rowsMutex' = Nobody
        /\ Rows' = Append(Rows, r)
        /\ I' = [I EXCEPT ![r] = Len(Rows) + 1]
        /\ pc' = [pc EXCEPT ![w] = "encode insert"]
        /\ UNCHANGED <<born, row, at>>
    BY <1>3 DEF InsertAppend, Goto, At
  <2>2. r \in Row /\ r \in born \ In(Rows) /\ Inserting(w)
    BY <2>1 DEF RowsOfRequests, InsertersApart, Inserting
  <2>3. /\ DOMAIN Rows' = 1 .. Len(Rows) + 1
        /\ \A k \in 1 .. Len(Rows) : Rows'[k] = Rows[k]
        /\ Rows'[Len(Rows) + 1] = r
        /\ DOMAIN Rows = 1 .. Len(Rows)
        /\ Len(Rows) \in Nat
    <3>1. Rows \in Seq(Row)
      BY DEF TypeOK
    <3>2. /\ DOMAIN Append(Rows, r) = 1 .. Len(Rows) + 1
          /\ \A k \in 1 .. Len(Rows) : Append(Rows, r)[k] = Rows[k]
          /\ Append(Rows, r)[Len(Rows) + 1] = r
      BY <2>2, <3>1, AppendElements
    <3> HIDE DEF r
    <3> QED
      BY <2>1, <3>2, RowsAsFunction, Zenon
  <2>4. In(Rows)' = In(Rows) \cup {r}
    BY <2>3 DEF In
  <2>5. RowsKnowTheirPlace'
    <3> SUFFICES ASSUME NEW k \in 1 .. Len(Rows) + 1 PROVE I'[Rows'[k]] = k
      BY <2>3 DEF RowsKnowTheirPlace
    <3>1. CASE k = Len(Rows) + 1
      BY <2>1, <2>2, <2>3, <3>1 DEF TypeOK
    <3>2. CASE k \in 1 .. Len(Rows)
      <4>1. Rows'[k] = Rows[k] /\ Rows[k] # r
        BY <2>2, <2>3, <3>2 DEF In
      <4>2. I'[Rows[k]] = I[Rows[k]]
        BY <2>1, <3>2, <4>1, RowsAsFunction DEF TypeOK
      <4> QED
        BY <2>3, <3>2, <4>1, <4>2 DEF RowsKnowTheirPlace
    <3> QED
      BY <2>3, <3>1, <3>2
  <2>6. InsertersApart'
    <3>1. \A v \in Worker : Inserting(v)' => v # w /\ Inserting(v)
      BY <2>1 DEF Inserting, TypeOK
    <3>2. \A v \in Worker : Inserting(v)' => row[v] # r
      BY <2>2, <3>1 DEF InsertersApart
    <3> QED
      BY <2>1, <2>2, <2>4, <3>1, <3>2 DEF InsertersApart
  <2>7. SwapInRange'
    <3>1. \A v \in Worker : pc[v] # "swap"
      BY <2>1, ConcurrentAssumption DEF SwapInRange
    <3> QED
      BY <2>1, <3>1 DEF SwapInRange, TypeOK
  <2> QED
    BY <2>5, <2>6, <2>7 DEF Places
<1> QED
  BY <1>1, <1>2, <1>3

\* The removal reads row.I under the lock it keeps until the swap is done.
LEMMA RemovePlaces ==
  ASSUME PlaceInv, NEW w \in Worker, RemoveFree(w) \/ RemoveSwap(w)
  PROVE  Places'
<1> USE DEF PlaceInv
<1>1. CASE RemoveFree(w)
  <2>1. CASE Len(Rows) < I[row[w]]
    <3>1. Answer(w) /\ UNCHANGED <<Rows, I, born, rowsMutex>>
      BY <1>1, <2>1 DEF RemoveFree
    <3> QED
      BY <3>1, AnswerAside
  <2>2. CASE ~(Len(Rows) < I[row[w]])
    <3>1. /\ pc[w] = "free" /\ rowsMutex = Nobody /\ rowsMutex' = w
          /\ at' = [at EXCEPT ![w] = I[row[w]]]
          /\ pc' = [pc EXCEPT ![w] = "swap"]
          /\ UNCHANGED <<Rows, I, born, row>>
      BY <1>1, <2>2 DEF RemoveFree, Goto, At
    <3>2. row[w] \in Row /\ I[row[w]] \in 1 .. Len(Rows)
      <4>1. row[w] \in Row
        BY <3>1 DEF RowsOfRequests
      <4>2. I[row[w]] \in Nat \ {0}
        BY <4>1 DEF TypeOK
      <4> QED
        BY <2>2, <4>1, <4>2, RowsAsFunction
    <3>3. \A v \in Worker : pc[v] # "swap"
      BY <3>1, ConcurrentAssumption DEF SwapInRange
    <3>4. SwapInRange'
      BY <3>1, <3>2, <3>3 DEF SwapInRange, TypeOK
    <3>5. \A v \in Worker : Inserting(v)' => Inserting(v)
      BY <3>1 DEF Inserting, TypeOK
    <3>6. InsertersApart'
      BY <3>1, <3>5 DEF InsertersApart, In
    <3>7. RowsKnowTheirPlace'
      BY <3>1 DEF RowsKnowTheirPlace
    <3> QED
      BY <3>4, <3>6, <3>7 DEF Places
  <2> QED
    BY <2>1, <2>2
<1>2. CASE RemoveSwap(w)
  <2> DEFINE i == at[w]
             n == Len(Rows)
  <2>1. /\ pc[w] = "swap" /\ rowsMutex = w
        /\ i \in 1 .. n
        /\ I' = [I EXCEPT ![Rows[n]] = i]
        /\ Rows' = SwappedOut(Rows, i)
        /\ pc' = [pc EXCEPT ![w] = "encode remove"]
        /\ UNCHANGED <<born, row, at>>
    BY <1>2 DEF RemoveSwap, Goto, At, SwapInRange
  <2>2. /\ n \in Nat \ {0} /\ DOMAIN Rows = 1 .. n /\ Rows[n] \in Row
        /\ \A k \in 1 .. n : Rows[k] \in Row
    <3>1. n \in Nat /\ DOMAIN Rows = 1 .. n /\ \A k \in 1 .. n : Rows[k] \in Row
      BY RowsAsFunction
    <3>2. i \in 1 .. n
      BY <2>1
    <3>3. n # 0 /\ n \in 1 .. n
      <4> HIDE DEF i, n
      <4> QED
        BY <3>1, <3>2
    <3> QED
      BY <3>1, <3>2, <3>3
  <2>3. /\ DOMAIN Rows' = 1 .. n - 1
        /\ \A k \in 1 .. n - 1 : Rows'[k] = IF k = i THEN Rows[n] ELSE Rows[k]
    BY <2>1, SwappedOutProperties DEF TypeOK
  <2>4. In(Rows)' \subseteq In(Rows)
    BY <2>2, <2>3 DEF In
  <2>5. RowsKnowTheirPlace'
    <3> SUFFICES ASSUME NEW k \in 1 .. n - 1 PROVE I'[Rows'[k]] = k
      BY <2>3 DEF RowsKnowTheirPlace
    <3>1. CASE k = i
      BY <2>1, <2>2, <2>3, <3>1 DEF TypeOK
    <3>2. CASE k # i
      <4>1. Rows'[k] = Rows[k] /\ I[Rows[k]] = k /\ I[Rows[n]] = n
        BY <2>2, <2>3, <3>2 DEF RowsKnowTheirPlace
      <4>2. Rows[k] # Rows[n] /\ Rows[k] \in Row
        BY <2>2, <4>1
      <4> QED
        BY <2>1, <4>1, <4>2 DEF TypeOK
    <3> QED
      BY <3>1, <3>2
  <2>6. InsertersApart'
    <3>1. \A v \in Worker : Inserting(v)' => Inserting(v)
      BY <2>1 DEF Inserting, TypeOK
    <3> QED
      BY <2>1, <2>4, <3>1 DEF InsertersApart
  <2>7. SwapInRange'
    <3>1. \A v \in Worker : pc'[v] # "swap"
      BY <2>1 DEF SwapInRange, TypeOK
    <3> QED
      BY <3>1 DEF SwapInRange
  <2> QED
    BY <2>5, <2>6, <2>7 DEF Places
<1> QED
  BY <1>1, <1>2

\* Every other step stands aside.
LEMMA PlaceNext == PlaceInv /\ [Next]_vars => PlaceInv'
<1> SUFFICES ASSUME PlaceInv, [Next]_vars PROVE PlaceInv'
  OBVIOUS
<1>1. TypeOK' /\ RowsOfRequests'
  BY TypeNext DEF PlaceInv
<1>2. Places'
  <2>1. ASSUME NEW w \in Worker, InsertEncode(w) \/ RemoveEncode(w) \/ PatchEncode(w)
        PROVE  Places'
    <3>1. Answer(w) /\ UNCHANGED <<Rows, I, born, rowsMutex>>
      BY <2>1 DEF InsertEncode, RemoveEncode, PatchEncode
    <3> QED
      BY <3>1, AnswerAside
  <2>2. ASSUME NEW w \in Worker, PatchLock(w) \/ PatchReindex(w)
        PROVE  Places'
    <3>1. UNCHANGED <<Rows, I, born, rowsMutex>>
      BY <2>2 DEF PatchLock, PatchReindex
    <3>2. CASE Answer(w)
      BY <3>1, <3>2, AnswerAside
    <3>3. CASE ~Answer(w)
      <4>1. pc' = [pc EXCEPT ![w] = "unindex"] \/ pc' = [pc EXCEPT ![w] = "restore"]
        BY <2>2, <3>3 DEF PatchLock, PatchReindex, Goto
      <4>2. row' = row /\ at' = at
        BY <2>2, <3>3 DEF PatchLock, PatchReindex
      <4> QED
        BY <3>1, <4>1, <4>2, StepAside DEF PlaceInv, TypeOK
    <3> QED
      BY <3>2, <3>3
  <2>3. ASSUME NEW w \in Worker, PatchUnindex(w) \/ PatchRestore(w) \/ PatchReadI(w)
        PROVE  Places'
    <3>1. /\ UNCHANGED <<Rows, I, born, rowsMutex, row>>
          /\ \E label \in {"reindex", "read I", "encode patch"} : pc' = [pc EXCEPT ![w] = label]
      BY <2>3 DEF PatchUnindex, PatchRestore, PatchReadI, Goto, shared
    <3>2. \A v \in Worker \ {w} : at'[v] = at[v]
      BY <2>3 DEF PatchUnindex, PatchRestore, PatchReadI, PlaceInv, TypeOK
    <3> QED
      BY <3>1, <3>2, StepAside DEF PlaceInv, TypeOK
  <2>4. ASSUME NEW w \in Worker, NEW r \in Row, StartRemove(w, r) \/ StartPatch(w, r)
        PROVE  Places'
    <3>1. /\ UNCHANGED <<Rows, I, born, rowsMutex, at>>
          /\ row' = [row EXCEPT ![w] = r]
          /\ \E label \in {"free", "lock"} : pc' = [pc EXCEPT ![w] = label]
      BY <2>4 DEF StartRemove, StartPatch, Goto, shared
    <3> QED
      BY <3>1, StepAside DEF PlaceInv, TypeOK
  <2>5. CASE Rest \/ UNCHANGED vars
    BY <2>5 DEF Rest, vars, PlaceInv, Places, RowsKnowTheirPlace, InsertersApart, Inserting,
                SwapInRange, In
  <2> QED
    BY <2>1, <2>2, <2>3, <2>4, <2>5, InsertPlaces, RemovePlaces DEF Next, Step, Request
<1> QED
  BY <1>1, <1>2 DEF PlaceInv, Places

\* Every reachable state has its types, whatever the requests: collection.go's
\* slice, index, locks and journal never hold anything but what they should.
THEOREM SpecTypeOK == Spec => []TypeOK
<1>1. PlaceInv => TypeOK
  BY DEF PlaceInv
<1> QED
  BY <1>1, PlaceInit, PlaceNext, PTL DEF Spec

\* Every row in Rows holds its own position (removeByRow, collection.go:466-510,
\* and addRow, 204-221): rowsMutex covers the read of row.I and the swap, so no
\* interleaving of inserts and removals, double removals included, breaks it.
THEOREM SpecRowsKnowTheirPlace == Spec => []RowsKnowTheirPlace
<1>1. PlaceInv => RowsKnowTheirPlace
  BY DEF PlaceInv
<1> QED
  BY <1>1, PlaceInit, PlaceNext, PTL DEF Spec

-----------------------------------------------------------------------------
\* The second match of the filter, under PatchMutex, is still true when the
\* payload is set, and what the payload is set to when the answer is given.
HoldsPatchMutex(w) == Patching(w) => PatchMutex[row[w]] = w

FilterStillMatches(w) ==
  pc[w] \in {"unindex", "reindex"} => Matches(row[w], value[w])

PayloadStillSet(w) ==
  pc[w] \in {"restore", "read I", "encode patch"} =>
    /\ claim[row[w]] = value[w]
    /\ value[w] = w => winners[row[w]] = {}

ClaimInv ==
  /\ ClaimedOnce
  /\ \A w \in Worker :
       /\ value[w] \in {w, Free}
       /\ HoldsPatchMutex(w)
       /\ FilterStillMatches(w)
       /\ PayloadStillSet(w)

LEMMA ClaimInit == Init => ClaimInv
  BY DEF Init, ClaimInv, ClaimedOnce, HoldsPatchMutex, FilterStillMatches, PayloadStillSet, Patching

\* A step that leaves the claims, and the locks of the others, alone.
LEMMA ClaimAside ==
  ASSUME TypeOK, RowsOfRequests, ClaimInv, NEW w \in Worker,
         UNCHANGED <<claim, winners>>,
         value'[w] \in {w, Free},
         \A v \in Worker \ {w} : /\ pc'[v] = pc[v] /\ row'[v] = row[v] /\ value'[v] = value[v]
                                 /\ \A r \in Row : PatchMutex[r] = v => PatchMutex'[r] = v,
         HoldsPatchMutex(w)', FilterStillMatches(w)', PayloadStillSet(w)'
  PROVE  ClaimInv'
<1>1. ClaimedOnce'
  BY DEF ClaimInv, ClaimedOnce
<1>2. ASSUME NEW v \in Worker \ {w}
      PROVE  /\ value'[v] \in {v, Free} /\ HoldsPatchMutex(v)'
             /\ FilterStillMatches(v)' /\ PayloadStillSet(v)'
  <2>1. value'[v] \in {v, Free}
    BY DEF ClaimInv
  <2>2. HoldsPatchMutex(v)'
    <3> SUFFICES ASSUME Patching(v)' PROVE PatchMutex'[row'[v]] = v
      BY DEF HoldsPatchMutex
    <3>1. pc'[v] = pc[v] /\ row'[v] = row[v]
      OBVIOUS
    <3>2. Patching(v) /\ row[v] \in Row
      BY <3>1 DEF Patching, RowsOfRequests
    <3>3. PatchMutex[row[v]] = v
      BY <3>2 DEF ClaimInv, HoldsPatchMutex
    <3> QED
      BY <3>1, <3>2, <3>3
  <2>3. FilterStillMatches(v)'
    BY DEF ClaimInv, FilterStillMatches, Matches
  <2>4. PayloadStillSet(v)'
    BY DEF ClaimInv, PayloadStillSet
  <2> QED
    BY <2>1, <2>2, <2>3, <2>4
<1> QED
  BY <1>1, <1>2 DEF ClaimInv

\* A worker that answers owes nothing.
LEMMA AnswerOwesNothing ==
  ASSUME TypeOK, NEW w \in Worker, Answer(w)
  PROVE  /\ value'[w] \in {w, Free}
         /\ HoldsPatchMutex(w)' /\ FilterStillMatches(w)' /\ PayloadStillSet(w)'
         /\ \A v \in Worker \ {w} : pc'[v] = pc[v] /\ row'[v] = row[v] /\ value'[v] = value[v]
<1>1. pc'[w] = "idle" /\ value'[w] = Free
  BY DEF Answer, TypeOK
<1>2. \A v \in Worker \ {w} : pc'[v] = pc[v] /\ row'[v] = row[v] /\ value'[v] = value[v]
  BY DEF Answer, TypeOK
<1> QED
  BY <1>1, <1>2 DEF HoldsPatchMutex, FilterStillMatches, PayloadStillSet, Patching

\* Steps of inserts and removals.
LEMMA OthersKeepClaims ==
  ASSUME TypeOK, RowsOfRequests, ClaimInv, NEW w \in Worker,
         \/ \E r \in Row : StartInsert(w, r) \/ StartRemove(w, r)
         \/ InsertStore(w) \/ InsertAppend(w) \/ InsertEncode(w)
         \/ RemoveFree(w) \/ RemoveSwap(w) \/ RemoveEncode(w)
  PROVE  ClaimInv'
<1>1. UNCHANGED <<claim, winners, PatchMutex>>
  BY DEF StartInsert, StartRemove, InsertStore, InsertAppend, InsertEncode, RemoveFree,
         RemoveSwap, RemoveEncode, shared, history
<1>2. CASE Answer(w)
  BY <1>1, <1>2, AnswerOwesNothing, ClaimAside
<1>3. CASE ~Answer(w)
  <2>1. value' = value /\ \A v \in Worker \ {w} : pc'[v] = pc[v] /\ row'[v] = row[v]
    BY <1>3 DEF StartInsert, StartRemove, InsertStore, InsertAppend, InsertEncode, RemoveFree,
                RemoveSwap, RemoveEncode, Goto, local, TypeOK
  <2>2. pc'[w] \in {"idle", "store", "append", "encode insert", "free", "swap", "encode remove"}
    BY <1>3 DEF StartInsert, StartRemove, InsertStore, InsertAppend, InsertEncode, RemoveFree,
                RemoveSwap, RemoveEncode, Goto, At, local, TypeOK
  <2>3. HoldsPatchMutex(w)' /\ FilterStillMatches(w)' /\ PayloadStillSet(w)'
    BY <2>2 DEF HoldsPatchMutex, FilterStillMatches, PayloadStillSet, Patching
  <2> QED
    BY <1>1, <2>1, <2>3, ClaimAside DEF ClaimInv
<1> QED
  BY <1>2, <1>3

\* Steps of a patch before the payload is set.
LEMMA PatchPrepares ==
  ASSUME TypeOK, RowsOfRequests, ClaimInv, NEW w \in Worker,
         (\E r \in Row : StartPatch(w, r)) \/ PatchLock(w) \/ PatchUnindex(w)
  PROVE  ClaimInv'
<1>1. ASSUME NEW r \in Row, StartPatch(w, r) PROVE ClaimInv'
  <2>1. /\ pc' = [pc EXCEPT ![w] = "lock"] /\ row' = [row EXCEPT ![w] = r]
        /\ UNCHANGED <<claim, winners, PatchMutex>>
    BY <1>1 DEF StartPatch, Goto, shared, history
  <2>2. PICK u \in {w, Free} : value' = [value EXCEPT ![w] = u]
    BY <1>1 DEF StartPatch
  <2>3. pc'[w] = "lock" /\ value'[w] \in {w, Free}
    BY <2>1, <2>2 DEF TypeOK
  <2>4. HoldsPatchMutex(w)' /\ FilterStillMatches(w)' /\ PayloadStillSet(w)'
    BY <2>3 DEF HoldsPatchMutex, FilterStillMatches, PayloadStillSet, Patching
  <2>5. \A v \in Worker \ {w} : pc'[v] = pc[v] /\ row'[v] = row[v] /\ value'[v] = value[v]
    BY <2>1, <2>2 DEF TypeOK
  <2> QED
    BY <2>1, <2>3, <2>4, <2>5, ClaimAside
<1>2. ASSUME PatchLock(w) PROVE ClaimInv'
  <2>1. CASE Answer(w) /\ UNCHANGED PatchMutex
    <3>1. UNCHANGED <<claim, winners>>
      BY <1>2 DEF PatchLock, history
    <3> QED
      BY <2>1, <3>1, AnswerOwesNothing, ClaimAside
  <2>2. CASE ~(Answer(w) /\ UNCHANGED PatchMutex)
    <3>1. /\ pc[w] = "lock" /\ PatchMutex[row[w]] = Nobody /\ Matches(row[w], value[w])
          /\ PatchMutex' = [PatchMutex EXCEPT ![row[w]] = w]
          /\ pc' = [pc EXCEPT ![w] = "unindex"]
          /\ UNCHANGED <<claim, winners, row, value>>
      BY <1>2, <2>2 DEF PatchLock, Goto, At, history
    <3>2. row[w] \in Row /\ pc'[w] = "unindex" /\ PatchMutex'[row[w]] = w
      BY <3>1 DEF TypeOK, RowsOfRequests
    <3>3. HoldsPatchMutex(w)' /\ FilterStillMatches(w)' /\ PayloadStillSet(w)'
      BY <3>1, <3>2 DEF HoldsPatchMutex, FilterStillMatches, PayloadStillSet, Matches
    <3>4. \A v \in Worker \ {w} :
            pc'[v] = pc[v] /\ \A r \in Row : PatchMutex[r] = v => PatchMutex'[r] = v
      BY <3>1, ConcurrentAssumption DEF TypeOK
    <3> QED
      BY <3>1, <3>3, <3>4, ClaimAside DEF ClaimInv
  <2> QED
    BY <2>1, <2>2
<1>3. ASSUME PatchUnindex(w) PROVE ClaimInv'
  <2>1. /\ pc[w] = "unindex" /\ pc' = [pc EXCEPT ![w] = "reindex"]
        /\ UNCHANGED <<claim, winners, row, value, PatchMutex>>
    BY <1>3 DEF PatchUnindex, Goto, At, history
  <2>2. pc'[w] = "reindex" /\ \A v \in Worker \ {w} : pc'[v] = pc[v]
    BY <2>1 DEF TypeOK
  <2>3. HoldsPatchMutex(w)' /\ FilterStillMatches(w)' /\ PayloadStillSet(w)'
    BY <2>1, <2>2
       DEF ClaimInv, HoldsPatchMutex, FilterStillMatches, PayloadStillSet, Patching, Matches
  <2> QED
    BY <2>1, <2>2, <2>3, ClaimAside DEF ClaimInv
<1> QED
  BY <1>1, <1>2, <1>3

\* The payload is set while no other worker patches the row.
LEMMA PatchSetsPayload ==
  ASSUME TypeOK, RowsOfRequests, ClaimInv, NEW w \in Worker, PatchReindex(w)
  PROVE  ClaimInv'
<1> DEFINE r == row[w]
           u == value[w]
<1>1. /\ pc[w] = "reindex" /\ r \in Row /\ u \in {w, Free} /\ u \in Worker \cup {Free}
      /\ PatchMutex[r] = w /\ Matches(r, u)
  BY DEF PatchReindex, ClaimInv, HoldsPatchMutex, FilterStillMatches, Patching, RowsOfRequests,
         At, TypeOK
<1>2. /\ claim' = [claim EXCEPT ![r] = u]
      /\ winners' = IF u = Free THEN [winners EXCEPT ![r] = {}] ELSE winners
  BY DEF PatchReindex
<1>3. claim'[r] = u /\ winners'[r] = {}
  <2>1. CASE u = Free
    BY <1>1, <1>2, <2>1 DEF TypeOK
  <2>2. CASE u # Free
    <3>1. claim[r] = Free
      BY <1>1, <2>2 DEF Matches
    <3>2. \A v \in winners[r] : v \in Worker /\ claim[r] = v
      BY <1>1 DEF ClaimInv, ClaimedOnce, TypeOK
    <3>3. winners[r] = {}
      BY <3>1, <3>2, ConcurrentAssumption
    <3> QED
      BY <1>1, <1>2, <2>2, <3>3 DEF TypeOK
  <2> QED
    BY <2>1, <2>2
<1>4. \A x \in Row \ {r} : claim'[x] = claim[x] /\ winners'[x] = winners[x]
  BY <1>1, <1>2 DEF TypeOK
<1>5. ClaimedOnce'
  BY <1>3, <1>4 DEF ClaimInv, ClaimedOnce
<1>6. /\ value'[w] \in {w, Free} /\ HoldsPatchMutex(w)'
      /\ FilterStillMatches(w)' /\ PayloadStillSet(w)'
      /\ \A v \in Worker \ {w} : pc'[v] = pc[v] /\ row'[v] = row[v] /\ value'[v] = value[v]
  <2>1. CASE Answer(w)
    BY <2>1, AnswerOwesNothing
  <2>2. CASE ~Answer(w)
    <3>1. pc' = [pc EXCEPT ![w] = "restore"] /\ UNCHANGED <<PatchMutex, row, value>>
      BY <2>2 DEF PatchReindex, Goto
    <3>2. pc'[w] = "restore" /\ \A v \in Worker \ {w} : pc'[v] = pc[v]
      BY <3>1 DEF TypeOK
    <3> QED
      BY <1>1, <1>3, <3>1, <3>2
         DEF HoldsPatchMutex, FilterStillMatches, PayloadStillSet
  <2> QED
    BY <2>1, <2>2
<1>7. \A v \in Worker \ {w} : \A x \in Row : PatchMutex[x] = v => PatchMutex'[x] = v
  BY <1>1 DEF PatchReindex, TypeOK
<1>8. ASSUME NEW v \in Worker \ {w}
      PROVE  /\ value'[v] \in {v, Free} /\ HoldsPatchMutex(v)'
             /\ FilterStillMatches(v)' /\ PayloadStillSet(v)'
  <2>1. value'[v] \in {v, Free}
    BY <1>6 DEF ClaimInv
  <2>2. HoldsPatchMutex(v)'
    BY <1>6, <1>7 DEF ClaimInv, HoldsPatchMutex, Patching, RowsOfRequests
  <2>3. Patching(v) => row[v] \in Row \ {r}
    BY <1>1 DEF ClaimInv, HoldsPatchMutex, Patching, RowsOfRequests
  <2>4. FilterStillMatches(v)'
    <3> SUFFICES ASSUME pc'[v] \in {"unindex", "reindex"}
                 PROVE  Matches(row[v], value[v])' /\ row'[v] = row[v] /\ value'[v] = value[v]
      BY DEF FilterStillMatches, Matches
    <3>1. pc[v] \in {"unindex", "reindex"} /\ row'[v] = row[v] /\ value'[v] = value[v]
      BY <1>6
    <3>2. Matches(row[v], value[v]) /\ row[v] \in Row \ {r}
      BY <2>3, <3>1 DEF ClaimInv, FilterStillMatches, Patching
    <3>3. claim'[row[v]] = claim[row[v]]
      BY <1>4, <3>2
    <3> QED
      BY <3>1, <3>2, <3>3 DEF Matches
  <2>5. PayloadStillSet(v)'
    <3> SUFFICES ASSUME pc'[v] \in {"restore", "read I", "encode patch"}
                 PROVE  /\ claim'[row'[v]] = value'[v]
                        /\ value'[v] = v => winners'[row'[v]] = {}
      BY DEF PayloadStillSet
    <3>1. pc[v] \in {"restore", "read I", "encode patch"} /\ row'[v] = row[v] /\ value'[v] = value[v]
      BY <1>6
    <3>2. /\ row[v] \in Row \ {r} /\ claim[row[v]] = value[v]
          /\ value[v] = v => winners[row[v]] = {}
      BY <2>3, <3>1 DEF ClaimInv, PayloadStillSet, Patching
    <3>3. claim'[row[v]] = claim[row[v]] /\ winners'[row[v]] = winners[row[v]]
      BY <1>4, <3>2
    <3> QED
      BY <3>1, <3>2, <3>3
  <2> QED
    BY <2>1, <2>2, <2>4, <2>5
<1> QED
  BY <1>5, <1>6, <1>8 DEF ClaimInv

\* Steps of a patch after the payload is set, the answer included.
LEMMA PatchAnswers ==
  ASSUME TypeOK, RowsOfRequests, ClaimInv, NEW w \in Worker,
         PatchRestore(w) \/ PatchReadI(w) \/ PatchEncode(w)
  PROVE  ClaimInv'
<1>1. ASSUME PatchRestore(w) \/ PatchReadI(w) PROVE ClaimInv'
  <2>1. /\ pc[w] \in {"restore", "read I"}
        /\ \E label \in {"read I", "encode patch"} : pc' = [pc EXCEPT ![w] = label]
        /\ UNCHANGED <<claim, winners, row, value, PatchMutex>>
    BY <1>1 DEF PatchRestore, PatchReadI, Goto, At, history, shared
  <2>2. pc'[w] \in {"read I", "encode patch"} /\ \A v \in Worker \ {w} : pc'[v] = pc[v]
    BY <2>1 DEF TypeOK
  <2>3. HoldsPatchMutex(w)' /\ FilterStillMatches(w)' /\ PayloadStillSet(w)'
    BY <2>1, <2>2
       DEF ClaimInv, HoldsPatchMutex, FilterStillMatches, PayloadStillSet, Patching
  <2> QED
    BY <2>1, <2>2, <2>3, ClaimAside DEF ClaimInv
<1>2. ASSUME PatchEncode(w) PROVE ClaimInv'
  <2> DEFINE r == row[w]
  <2>1. /\ pc[w] = "encode patch" /\ r \in Row /\ PatchMutex[r] = w
        /\ value[w] \in {w, Free} /\ claim[r] = value[w]
        /\ value[w] = w => winners[r] = {}
    BY <1>2 DEF PatchEncode, ClaimInv, HoldsPatchMutex, PayloadStillSet, Patching,
                RowsOfRequests, At
  <2>2. /\ winners' = IF value[w] = w THEN [winners EXCEPT ![r] = @ \cup {w}] ELSE winners
        /\ PatchMutex' = [PatchMutex EXCEPT ![r] = Nobody]
        /\ claim' = claim /\ Answer(w)
    BY <1>2 DEF PatchEncode
  <2>3. CASE value[w] # w
    <3>1. UNCHANGED <<claim, winners>>
      BY <2>2, <2>3
    <3>2. \A v \in Worker \ {w} : \A x \in Row : PatchMutex[x] = v => PatchMutex'[x] = v
      BY <2>1, <2>2 DEF TypeOK
    <3> QED
      BY <2>2, <3>1, <3>2, AnswerOwesNothing, ClaimAside
  <2>4. CASE value[w] = w
    <3>1. winners'[r] = {w} /\ \A x \in Row \ {r} : winners'[x] = winners[x]
      BY <2>1, <2>2, <2>4 DEF TypeOK
    <3>2. ClaimedOnce'
      BY <2>1, <2>2, <2>4, <3>1 DEF ClaimInv, ClaimedOnce
    <3>3. ASSUME NEW v \in Worker \ {w}
          PROVE  /\ value'[v] \in {v, Free} /\ HoldsPatchMutex(v)'
                 /\ FilterStillMatches(v)' /\ PayloadStillSet(v)'
      <4>1. pc'[v] = pc[v] /\ row'[v] = row[v] /\ value'[v] = value[v]
        BY <2>2, AnswerOwesNothing
      <4>2. Patching(v) => row[v] \in Row \ {r}
        BY <2>1 DEF ClaimInv, HoldsPatchMutex, Patching, RowsOfRequests
      <4>3. HoldsPatchMutex(v)'
        BY <2>2, <4>1, <4>2 DEF ClaimInv, HoldsPatchMutex, Patching, TypeOK
      <4>4. FilterStillMatches(v)'
        BY <2>2, <4>1 DEF ClaimInv, FilterStillMatches, Matches
      <4>5. PayloadStillSet(v)'
        BY <2>2, <3>1, <4>1, <4>2 DEF ClaimInv, PayloadStillSet, Patching
      <4> QED
        BY <4>1, <4>3, <4>4, <4>5 DEF ClaimInv
    <3> QED
      BY <2>2, <3>2, <3>3, AnswerOwesNothing DEF ClaimInv
  <2> QED
    BY <2>3, <2>4
<1> QED
  BY <1>1, <1>2

LEMMA ClaimNext ==
  TypeOK /\ RowsOfRequests /\ ClaimInv /\ [Next]_vars => ClaimInv'
<1> SUFFICES ASSUME TypeOK, RowsOfRequests, ClaimInv, [Next]_vars PROVE ClaimInv'
  OBVIOUS
<1>1. CASE Rest \/ UNCHANGED vars
  <2>1. UNCHANGED <<claim, winners, pc, row, value, PatchMutex>>
    BY <1>1 DEF Rest, vars
  <2>2. ClaimedOnce'
    BY <2>1 DEF ClaimInv, ClaimedOnce
  <2>3. ASSUME NEW w \in Worker
        PROVE  /\ value'[w] \in {w, Free} /\ HoldsPatchMutex(w)'
               /\ FilterStillMatches(w)' /\ PayloadStillSet(w)'
    BY <2>1 DEF ClaimInv, HoldsPatchMutex, FilterStillMatches, PayloadStillSet, Patching, Matches
  <2> QED
    BY <2>2, <2>3 DEF ClaimInv
<1> QED
  BY <1>1, OthersKeepClaims, PatchPrepares, PatchSetsPayload, PatchAnswers
     DEF Next, Step, Request

\* Of all the workers that race for a free document at most one is told that it
\* has it, until a patch frees it (patch.go:39-57 and patchByRow under PatchMutex):
\* for any number of workers, rows and requests.
THEOREM SpecClaimedOnce == Spec => []ClaimedOnce
<1>1. PlaceInv => TypeOK /\ RowsOfRequests
  BY DEF PlaceInv
<1>2. ClaimInv => ClaimedOnce
  BY DEF ClaimInv
<1> QED
  BY <1>1, <1>2, PlaceInit, PlaceNext, ClaimInit, ClaimNext, PTL DEF Spec

-----------------------------------------------------------------------------
\* Requests and index know only rows that were inserted.  As long as no removal
\* went astray, a row that a removal has swapped out was in Rows, so no insert
\* is about to append it; the swap still finds the position it read.
Removing(w) == pc[w] = "encode remove"

Known ==
  /\ \A k \in Key : Entries[k] \in born \cup {NoRow}
  /\ \A w \in Worker : pc[w] # "idle" => row[w] \in born

OnceInRows ==
  /\ gone \subseteq born
  /\ ~stray => \A v \in Worker : Inserting(v) =>
       row[v] \notin gone /\ \A w \in Worker : Removing(w) => row[w] # row[v]

SwapsItsRow == \A w \in Worker : pc[w] = "swap" => at[w] = I[row[w]]

SwappedIsOut ==
  ~stray => \A w \in Worker : pc[w] = "encode remove" => row[w] \notin In(Rows)

\* The property, with a name for why a row that was inserted is not in Rows.
OnItsWay(w, r) == row[w] = r /\ pc[w] \in {"store", "append", "encode remove"}
Accounted ==
  ~stray =>
    /\ \A r \in gone : r \notin In(Rows)
    /\ \A r \in born \ In(Rows) : r \in gone \/ \E w \in Worker : OnItsWay(w, r)

LeaveInv == OnceInRows /\ SwapsItsRow /\ SwappedIsOut /\ Accounted

LEMMA LeaveImplies == LeaveInv => RowsLeaveByTheirOwnRemoval
  BY DEF LeaveInv, Accounted, OnItsWay, RowsLeaveByTheirOwnRemoval

LEMMA LeaveInit == Init => LeaveInv
<1> SUFFICES ASSUME Init PROVE LeaveInv
  OBVIOUS
<1>1. \A w \in Worker : pc[w] = "idle"
  BY DEF Init
<1>2. gone = {} /\ born = In(Rows)
  BY DEF Init
<1> QED
  BY <1>1, <1>2 DEF LeaveInv, OnceInRows, SwapsItsRow, SwappedIsOut, Accounted,
                    Removing, Inserting

LEMMA KnownInit == Init => Known
<1> SUFFICES ASSUME Init PROVE Known
  OBVIOUS
<1>1. ASSUME NEW k \in Key PROVE Entries[k] \in born \cup {NoRow}
  BY DEF Init
<1> QED
  BY <1>1 DEF Known, Init

\* The index gets a row from the request that has it in hand, and a traversal
\* hands out what is in Rows or in the index.
LEMMA KnownNext == PlaceInv /\ Known /\ [Next]_vars => Known'
<1> SUFFICES ASSUME PlaceInv, Known, [Next]_vars PROVE Known'
  OBVIOUS
<1> USE DEF PlaceInv
<1>1. HandedOut \cap Row \subseteq born
  <2>1. DOMAIN Entries = Key /\ In(Rows) \subseteq born
    BY DEF TypeOK, InsertersApart
  <2> QED
    BY <2>1, ConcurrentAssumption DEF HandedOut, Known, In
<1>2. ASSUME NEW w \in Worker, NEW r \in Row, StartInsert(w, r) PROVE Known'
  <2>1. CASE UNCHANGED <<born, local>>
    BY <1>2, <2>1 DEF StartInsert, Known, local
  <2>2. CASE ~UNCHANGED <<born, local>>
    <3>1. /\ born' = born \cup {r} /\ Entries' = Entries
          /\ row' = [row EXCEPT ![w] = r] /\ pc' = [pc EXCEPT ![w] = "store"]
      BY <1>2, <2>2 DEF StartInsert, Goto
    <3> QED
      BY <3>1 DEF Known, TypeOK
  <2> QED
    BY <2>1, <2>2
<1>3. ASSUME NEW w \in Worker, NEW r \in Row, StartRemove(w, r) \/ StartPatch(w, r)
      PROVE  Known'
  <2>1. /\ UNCHANGED <<born, Entries>> /\ r \in HandedOut
        /\ row' = [row EXCEPT ![w] = r]
        /\ \E label \in {"free", "lock"} : pc' = [pc EXCEPT ![w] = label]
    BY <1>3 DEF StartRemove, StartPatch, Goto, shared
  <2> QED
    BY <1>1, <2>1 DEF Known, TypeOK
<1>4. ASSUME NEW w \in Worker, Step(w) PROVE Known'
  <2>1. pc[w] # "idle" /\ row[w] \in born
    <3>1. pc[w] # "idle"
      BY <1>4 DEF Step, At, InsertStore, InsertAppend, InsertEncode, RemoveFree, RemoveSwap,
                  RemoveEncode, PatchLock, PatchUnindex, PatchReindex, PatchRestore,
                  PatchReadI, PatchEncode
    <3> QED
      BY <3>1 DEF Known
  <2>2. /\ born' = born
        /\ \/ Entries' = Entries
           \/ Entries' = [Entries EXCEPT ![KeyOf[row[w]]] = row[w]]
           \/ Entries' = [Entries EXCEPT ![KeyOf[row[w]]] = NoRow]
    BY <1>4 DEF Step, InsertStore, InsertAppend, InsertEncode, RemoveFree, RemoveSwap,
                RemoveEncode, PatchLock, PatchUnindex, PatchReindex, PatchRestore,
                PatchReadI, PatchEncode, shared
  <2>3. \/ Answer(w)
        \/ row' = row /\ \E label \in Label : pc' = [pc EXCEPT ![w] = label]
    BY <1>4 DEF Step, InsertStore, InsertAppend, InsertEncode, RemoveFree, RemoveSwap,
                RemoveEncode, PatchLock, PatchUnindex, PatchReindex, PatchRestore,
                PatchReadI, PatchEncode, Goto, Label
  <2>4. \A v \in Worker : pc'[v] # "idle" => row'[v] = row[v] /\ (v = w \/ pc[v] # "idle")
    BY <2>3 DEF Answer, TypeOK
  <2>5. \A v \in Worker : pc'[v] # "idle" => row'[v] \in born
    BY <2>1, <2>4 DEF Known
  <2>6. \A k \in Key : Entries'[k] \in born \cup {NoRow}
    BY <2>1, <2>2 DEF Known, TypeOK
  <2> QED
    BY <2>2, <2>5, <2>6 DEF Known
<1>5. CASE Rest \/ UNCHANGED vars
  BY <1>5 DEF Rest, vars, Known
<1> QED
  BY <1>2, <1>3, <1>4, <1>5 DEF Next, Request

\* A step that moves no row, of a worker that neither inserts nor has swapped.
LEMMA LeaveAside ==
  ASSUME PlaceInv, LeaveInv, NEW w \in Worker,
         UNCHANGED <<Rows, I, born, gone, stray>>,
         \A v \in Worker \ {w} : pc'[v] = pc[v] /\ row'[v] = row[v] /\ at'[v] = at[v],
         pc[w] \notin {"store", "append", "encode remove"},
         pc'[w] \notin {"store", "append", "swap", "encode remove"}
  PROVE  LeaveInv'
<1>1. \A v \in Worker : Inserting(v)' => v # w /\ Inserting(v) /\ row'[v] = row[v]
  BY DEF Inserting
<1>2. In(Rows)' = In(Rows)
  BY DEF In
<1>3. \A v \in Worker : Removing(v)' => v # w /\ Removing(v) /\ row'[v] = row[v]
  BY DEF Removing
<1>4. OnceInRows'
  BY <1>1, <1>3 DEF LeaveInv, OnceInRows
<1>5. SwapsItsRow'
  BY DEF LeaveInv, SwapsItsRow
<1>6. SwappedIsOut'
  BY <1>2 DEF LeaveInv, SwappedIsOut
<1>7. Accounted'
  <2>1. \A v \in Worker, r \in Row : OnItsWay(v, r) => OnItsWay(v, r)'
    BY DEF OnItsWay
  <2>2. born \subseteq Row
    BY DEF PlaceInv, TypeOK
  <2> QED
    BY <1>2, <2>1, <2>2 DEF LeaveInv, Accounted
<1> QED
  BY <1>4, <1>5, <1>6, <1>7 DEF LeaveInv

\* An answer to a request that has taken no row out is such a step.
LEMMA LeaveAnswer ==
  ASSUME PlaceInv, LeaveInv, NEW w \in Worker, Answer(w),
         UNCHANGED <<Rows, I, born, gone, stray>>,
         pc[w] \notin {"store", "append", "encode remove"}
  PROVE  LeaveInv'
<1>1. pc'[w] = "idle"
  BY DEF Answer, PlaceInv, TypeOK
<1>2. \A v \in Worker \ {w} : pc'[v] = pc[v] /\ row'[v] = row[v] /\ at'[v] = at[v]
  BY DEF Answer, PlaceInv, TypeOK
<1> QED
  BY <1>1, <1>2, LeaveAside

\* An insert has a row that nobody has seen, until it is in Rows.
LEMMA LeaveInsert ==
  ASSUME PlaceInv, Known, LeaveInv, NEW w \in Worker,
         (\E r \in Row : StartInsert(w, r)) \/ InsertStore(w) \/ InsertAppend(w)
  PROVE  LeaveInv'
<1> USE DEF PlaceInv
<1>1. ASSUME NEW r \in Row, StartInsert(w, r) PROVE LeaveInv'
  <2>1. CASE UNCHANGED <<born, local>>
    <3>1. UNCHANGED <<Rows, I, born, gone, stray, pc, row, at>> /\ pc[w] = "idle"
      BY <1>1, <2>1 DEF StartInsert, local, At
    <3> QED
      BY <3>1, LeaveAside
  <2>2. CASE ~UNCHANGED <<born, local>>
    <3>1. /\ r \notin born /\ born' = born \cup {r} /\ pc[w] = "idle"
          /\ row' = [row EXCEPT ![w] = r] /\ pc' = [pc EXCEPT ![w] = "store"]
          /\ UNCHANGED <<Rows, I, at, gone, stray>>
      BY <1>1, <2>2 DEF StartInsert, Goto, At
    <3>2. /\ row'[w] = r /\ pc'[w] = "store"
          /\ \A v \in Worker \ {w} : pc'[v] = pc[v] /\ row'[v] = row[v]
          /\ In(Rows)' = In(Rows)
      BY <3>1 DEF In, TypeOK
    <3>3. OnceInRows'
      <4>1. \A v \in Worker : Removing(v)' => v # w /\ Removing(v) /\ row'[v] = row[v]
        BY <3>2 DEF Removing
      <4>2. \A v \in Worker \ {w} : Inserting(v)' => Inserting(v) /\ row'[v] = row[v]
        BY <3>2 DEF Inserting
      <4>3. r \notin gone /\ \A v \in Worker : Removing(v) => row[v] # r
        BY <3>1 DEF LeaveInv, OnceInRows, Known, Removing
      <4>4. gone' \subseteq born'
        BY <3>1 DEF LeaveInv, OnceInRows
      <4> QED
        BY <3>1, <3>2, <4>1, <4>2, <4>3, <4>4 DEF LeaveInv, OnceInRows
    <3>4. SwapsItsRow' /\ SwappedIsOut'
      BY <3>1, <3>2 DEF LeaveInv, SwapsItsRow, SwappedIsOut
    <3>5. Accounted'
      <4>1. \A v \in Worker, q \in born : OnItsWay(v, q) => OnItsWay(v, q)'
        BY <3>1, <3>2 DEF OnItsWay
      <4>2. OnItsWay(w, r)'
        BY <3>2 DEF OnItsWay
      <4> QED
        BY <3>1, <3>2, <4>1, <4>2 DEF LeaveInv, Accounted
    <3> QED
      BY <3>3, <3>4, <3>5 DEF LeaveInv
  <2> QED
    BY <2>1, <2>2
<1>2. ASSUME InsertStore(w) PROVE LeaveInv'
  <2>1. /\ pc' = [pc EXCEPT ![w] = "append"] /\ pc[w] = "store"
        /\ UNCHANGED <<Rows, I, born, row, at, gone, stray>>
    BY <1>2 DEF InsertStore, Goto, At, history
  <2>2. /\ \A v \in Worker : Inserting(v)' <=> Inserting(v)
        /\ \A v \in Worker : Removing(v)' <=> Removing(v)
        /\ \A v \in Worker : pc'[v] \in {"swap", "encode remove"} => pc'[v] = pc[v]
        /\ \A v \in Worker, r \in born : OnItsWay(v, r) => OnItsWay(v, r)'
    BY <2>1 DEF Inserting, Removing, OnItsWay, TypeOK
  <2>3. OnceInRows'
    BY <2>1, <2>2 DEF LeaveInv, OnceInRows
  <2>4. SwapsItsRow' /\ SwappedIsOut'
    BY <2>1, <2>2 DEF LeaveInv, SwapsItsRow, SwappedIsOut, In
  <2>5. Accounted'
    <3>1. In(Rows)' = In(Rows)
      BY <2>1 DEF In
    <3> QED
      BY <2>1, <2>2, <3>1 DEF LeaveInv, Accounted
  <2> QED
    BY <2>3, <2>4, <2>5 DEF LeaveInv
<1>3. ASSUME InsertAppend(w) PROVE LeaveInv'
  <2> DEFINE r == row[w]
  <2>1. /\ pc[w] = "append" /\ rowsMutex = Nobody
        /\ Rows' = Append(Rows, r)
        /\ pc' = [pc EXCEPT ![w] = "encode insert"]
        /\ UNCHANGED <<born, row, at, gone, stray>>
    BY <1>3 DEF InsertAppend, Goto, At, history
  <2>2. r \in Row /\ Inserting(w)
    BY <2>1 DEF RowsOfRequests, Inserting
  <2>3. In(Rows)' = In(Rows) \cup {r}
    <3>1. Rows \in Seq(Row)
      BY DEF TypeOK
    <3>2. /\ DOMAIN Append(Rows, r) = 1 .. Len(Rows) + 1
          /\ \A k \in 1 .. Len(Rows) : Append(Rows, r)[k] = Rows[k]
          /\ Append(Rows, r)[Len(Rows) + 1] = r
          /\ DOMAIN Rows = 1 .. Len(Rows) /\ Len(Rows) \in Nat
      BY <2>2, <3>1, AppendElements
    <3> HIDE DEF r
    <3>3. /\ DOMAIN Rows' = 1 .. Len(Rows) + 1
          /\ \A k \in 1 .. Len(Rows) : Rows'[k] = Rows[k]
          /\ Rows'[Len(Rows) + 1] = r
      BY <2>1, <3>2, Zenon
    <3> QED
      BY <3>2, <3>3 DEF In
  <2>4. \A v \in Worker : pc[v] # "swap"
    BY <2>1, ConcurrentAssumption DEF SwapInRange
  <2>5. /\ \A v \in Worker : Inserting(v)' => Inserting(v)
        /\ \A v \in Worker : Removing(v)' <=> Removing(v)
        /\ \A v \in Worker : pc'[v] \in {"swap", "encode remove"} => pc'[v] = pc[v]
    BY <2>1 DEF Inserting, Removing, TypeOK
  <2>6. OnceInRows'
    BY <2>1, <2>5 DEF LeaveInv, OnceInRows
  <2>7. SwapsItsRow'
    BY <2>4, <2>5 DEF SwapsItsRow
  <2>8. SwappedIsOut'
    <3>1. ~stray => \A v \in Worker : pc[v] = "encode remove" => row[v] # r
      BY <2>2 DEF LeaveInv, OnceInRows, Removing
    <3> QED
      BY <2>1, <2>3, <2>5, <3>1 DEF LeaveInv, SwappedIsOut
  <2>9. Accounted'
    <3>1. ~stray => r \notin gone
      BY <2>2 DEF LeaveInv, OnceInRows
    <3>2. \A v \in Worker, q \in born \ {r} : OnItsWay(v, q) => OnItsWay(v, q)'
      BY <2>1 DEF OnItsWay, TypeOK
    <3> QED
      BY <2>1, <2>3, <3>1, <3>2 DEF LeaveInv, Accounted
  <2> QED
    BY <2>6, <2>7, <2>8, <2>9 DEF LeaveInv
<1> QED
  BY <1>1, <1>2, <1>3

\* The swap takes out the row whose position was read, and nothing else.
LEMMA SwapTakesOutItsRow ==
  ASSUME PlaceInv, LeaveInv, NEW w \in Worker, RemoveSwap(w), row[w] \in In(Rows)
  PROVE  In(Rows)' = In(Rows) \ {row[w]}
<1> DEFINE i == at[w]
           n == Len(Rows)
<1> USE DEF PlaceInv
<1>1. /\ pc[w] = "swap" /\ i \in 1 .. n /\ i = I[row[w]]
      /\ Rows' = SwappedOut(Rows, i)
  BY DEF RemoveSwap, At, SwapInRange, LeaveInv, SwapsItsRow
<1>2. n \in Nat /\ DOMAIN Rows = 1 .. n
  BY RowsAsFunction
<1>3. Rows[i] = row[w]
  BY <1>1, <1>2 DEF In, RowsKnowTheirPlace
<1>4. /\ DOMAIN Rows' = 1 .. n - 1
      /\ \A k \in 1 .. n - 1 : Rows'[k] = IF k = i THEN Rows[n] ELSE Rows[k]
  <2>1. Rows \in Seq(Row) /\ i \in 1 .. Len(Rows)
    BY <1>1 DEF TypeOK
  <2> QED
    BY <1>1, <2>1, SwappedOutProperties
<1>5. \A j, k \in 1 .. n : Rows[j] = Rows[k] => j = k
  BY <1>2 DEF RowsKnowTheirPlace
<1> HIDE DEF i, n
<1>6. ASSUME NEW r \in In(Rows)' PROVE r \in In(Rows) \ {row[w]}
  <2>1. PICK k \in 1 .. n - 1 : r = Rows'[k]
    BY <1>4, <1>6 DEF In
  <2>2. k \in 1 .. n /\ n \in 1 .. n /\ k # n
    BY <1>2, <2>1
  <2>3. PICK j \in 1 .. n : r = Rows[j] /\ j # i
    <3>1. CASE k = i
      BY <1>4, <2>1, <2>2, <3>1
    <3>2. CASE k # i
      BY <1>4, <2>1, <2>2, <3>2
    <3> QED
      BY <3>1, <3>2
  <2> QED
    BY <1>1, <1>2, <1>3, <1>5, <2>3 DEF In
<1>7. ASSUME NEW r \in In(Rows), r # row[w] PROVE r \in In(Rows)'
  <2>1. PICK k \in 1 .. n : r = Rows[k]
    BY <1>2 DEF In
  <2>2. k # i
    BY <1>3, <1>7, <2>1
  <2>3. CASE k = n
    <3>1. i \in 1 .. n - 1
      BY <1>1, <1>2, <2>2, <2>3
    <3> QED
      BY <1>4, <2>1, <2>3, <3>1 DEF In
  <2>4. CASE k # n
    <3>1. k \in 1 .. n - 1
      BY <1>2, <2>1, <2>4
    <3> QED
      BY <1>4, <2>1, <2>2, <3>1 DEF In
  <2> QED
    BY <2>3, <2>4
<1> QED
  BY <1>6, <1>7

\* A removal reads row.I, swaps, and is answered when its row is out.
LEMMA LeaveRemove ==
  ASSUME PlaceInv, Known, LeaveInv, NEW w \in Worker,
         RemoveFree(w) \/ RemoveSwap(w) \/ RemoveEncode(w)
  PROVE  LeaveInv'
<1> USE DEF PlaceInv
<1>1. CASE RemoveFree(w)
  <2>1. UNCHANGED <<Rows, I, born, gone, stray>> /\ pc[w] = "free"
    BY <1>1 DEF RemoveFree, At, history
  <2>2. CASE Len(Rows) < I[row[w]]
    BY <1>1, <2>1, <2>2, LeaveAnswer DEF RemoveFree
  <2>3. CASE ~(Len(Rows) < I[row[w]])
    <3>1. /\ at' = [at EXCEPT ![w] = I[row[w]]] /\ row' = row
          /\ pc' = [pc EXCEPT ![w] = "swap"]
      BY <1>1, <2>3 DEF RemoveFree, Goto
    <3>2. /\ \A v \in Worker : Inserting(v)' <=> Inserting(v)
          /\ \A v \in Worker : Removing(v)' <=> Removing(v)
          /\ \A v \in Worker : pc'[v] = "encode remove" <=> pc[v] = "encode remove"
          /\ \A v \in Worker, r \in born : OnItsWay(v, r) => OnItsWay(v, r)'
      BY <2>1, <3>1 DEF Inserting, Removing, OnItsWay, TypeOK
    <3>3. In(Rows)' = In(Rows)
      BY <2>1 DEF In
    <3>4. OnceInRows'
      BY <2>1, <3>1, <3>2 DEF LeaveInv, OnceInRows
    <3>5. SwapsItsRow'
      BY <2>1, <3>1 DEF LeaveInv, SwapsItsRow, TypeOK
    <3>6. SwappedIsOut'
      BY <2>1, <3>1, <3>2, <3>3 DEF LeaveInv, SwappedIsOut
    <3>7. Accounted'
      BY <2>1, <3>2, <3>3 DEF LeaveInv, Accounted
    <3> QED
      BY <3>4, <3>5, <3>6, <3>7 DEF LeaveInv
  <2> QED
    BY <2>2, <2>3
<1>2. CASE RemoveSwap(w)
  <2>1. /\ pc[w] = "swap" /\ rowsMutex = w
        /\ stray' = (stray \/ row[w] \notin In(Rows))
        /\ pc' = [pc EXCEPT ![w] = "encode remove"]
        /\ UNCHANGED <<born, row, at, gone>>
    BY <1>2 DEF RemoveSwap, Goto, At, SwapInRange
  <2>2. /\ \A v \in Worker : Inserting(v)' <=> Inserting(v)
        /\ \A v \in Worker : Removing(v)' => v = w \/ Removing(v)
        /\ \A v \in Worker \ {w} : pc'[v] = pc[v]
        /\ \A v \in Worker, r \in born : OnItsWay(v, r) => OnItsWay(v, r)'
        /\ OnItsWay(w, row[w])'
    BY <2>1 DEF Inserting, Removing, OnItsWay, TypeOK
  <2>3. OnceInRows'
    <3>1. ~stray' => ~stray /\ \A v \in Worker : Inserting(v) => row[v] # row[w]
      BY <2>1 DEF InsertersApart
    <3> QED
      BY <2>1, <2>2, <3>1 DEF LeaveInv, OnceInRows
  <2>4. SwapsItsRow'
    <3>1. \A v \in Worker : pc'[v] # "swap"
      BY <2>1 DEF SwapInRange, TypeOK
    <3> QED
      BY <3>1 DEF SwapsItsRow
  <2>5. ~stray' => ~stray /\ In(Rows)' = In(Rows) \ {row[w]}
    BY <1>2, <2>1, SwapTakesOutItsRow
  <2>6. SwappedIsOut'
    BY <2>1, <2>2, <2>5 DEF LeaveInv, SwappedIsOut
  <2>7. Accounted'
    BY <2>1, <2>2, <2>5 DEF LeaveInv, Accounted
  <2> QED
    BY <2>3, <2>4, <2>6, <2>7 DEF LeaveInv
<1>3. CASE RemoveEncode(w)
  <2>1. /\ pc[w] = "encode remove" /\ Answer(w) /\ gone' = gone \cup {row[w]}
        /\ UNCHANGED <<Rows, I, born, stray>>
    BY <1>3 DEF RemoveEncode, At
  <2>2. /\ pc'[w] = "idle"
        /\ \A v \in Worker \ {w} : pc'[v] = pc[v] /\ row'[v] = row[v] /\ at'[v] = at[v]
    BY <2>1 DEF Answer, TypeOK
  <2>3. /\ \A v \in Worker : Inserting(v)' => v # w /\ Inserting(v)
        /\ \A v \in Worker : Removing(v)' => v # w /\ Removing(v)
        /\ Removing(w)
    BY <2>1, <2>2 DEF Inserting, Removing
  <2>4. In(Rows)' = In(Rows)
    BY <2>1 DEF In
  <2>5. OnceInRows'
    BY <2>1, <2>2, <2>3 DEF LeaveInv, OnceInRows, Known
  <2>6. SwapsItsRow'
    BY <2>1, <2>2 DEF LeaveInv, SwapsItsRow
  <2>7. SwappedIsOut'
    BY <2>1, <2>2, <2>4 DEF LeaveInv, SwappedIsOut
  <2>8. Accounted'
    <3>1. \A v \in Worker \ {w}, r \in born : OnItsWay(v, r) => OnItsWay(v, r)'
      BY <2>2 DEF OnItsWay
    <3>2. \A r \in born : OnItsWay(w, r) => r \in gone'
      BY <2>1 DEF OnItsWay
    <3>3. ~stray => row[w] \notin In(Rows)
      BY <2>1 DEF LeaveInv, SwappedIsOut
    <3> QED
      BY <2>1, <2>4, <3>1, <3>2, <3>3 DEF LeaveInv, Accounted
  <2> QED
    BY <2>5, <2>6, <2>7, <2>8 DEF LeaveInv
<1> QED
  BY <1>1, <1>2, <1>3

\* Every other step moves no row.
LEMMA LeaveNext == PlaceInv /\ Known /\ LeaveInv /\ [Next]_vars => LeaveInv'
<1> SUFFICES ASSUME PlaceInv, Known, LeaveInv, [Next]_vars PROVE LeaveInv'
  OBVIOUS
<1> USE DEF PlaceInv
<1>1. ASSUME NEW w \in Worker, InsertEncode(w) \/ PatchEncode(w) PROVE LeaveInv'
  <2>1. /\ Answer(w) /\ UNCHANGED <<Rows, I, born, gone, stray>>
        /\ pc[w] \in {"encode insert", "encode patch"}
    BY <1>1 DEF InsertEncode, PatchEncode, At, history
  <2> QED
    BY <2>1, LeaveAnswer
<1>2. ASSUME NEW w \in Worker, PatchLock(w) \/ PatchReindex(w) PROVE LeaveInv'
  <2>1. UNCHANGED <<Rows, I, born, gone, stray>> /\ pc[w] \in {"lock", "reindex"}
    BY <1>2 DEF PatchLock, PatchReindex, At, history
  <2>2. CASE Answer(w)
    BY <2>1, <2>2, LeaveAnswer
  <2>3. CASE ~Answer(w)
    <3>1. pc' = [pc EXCEPT ![w] = "unindex"] \/ pc' = [pc EXCEPT ![w] = "restore"]
      BY <1>2, <2>3 DEF PatchLock, PatchReindex, Goto
    <3>2. row' = row /\ at' = at
      BY <1>2, <2>3 DEF PatchLock, PatchReindex
    <3>3. pc'[w] \in {"unindex", "restore"} /\ \A v \in Worker \ {w} : pc'[v] = pc[v]
      BY <3>1 DEF TypeOK
    <3> QED
      BY <2>1, <3>2, <3>3, LeaveAside
  <2> QED
    BY <2>2, <2>3
<1>3. ASSUME NEW w \in Worker, PatchUnindex(w) \/ PatchRestore(w) \/ PatchReadI(w)
      PROVE  LeaveInv'
  <2>1. /\ UNCHANGED <<Rows, I, born, gone, stray, row>>
        /\ pc[w] \in {"unindex", "restore", "read I"}
        /\ \E label \in {"reindex", "read I", "encode patch"} : pc' = [pc EXCEPT ![w] = label]
    BY <1>3 DEF PatchUnindex, PatchRestore, PatchReadI, Goto, At, shared, history
  <2>2. \A v \in Worker \ {w} : at'[v] = at[v]
    BY <1>3 DEF PatchUnindex, PatchRestore, PatchReadI, TypeOK
  <2>3. /\ pc'[w] \in {"reindex", "read I", "encode patch"}
        /\ \A v \in Worker \ {w} : pc'[v] = pc[v]
    BY <2>1 DEF TypeOK
  <2> QED
    BY <2>1, <2>2, <2>3, LeaveAside
<1>4. ASSUME NEW w \in Worker, NEW r \in Row, StartRemove(w, r) \/ StartPatch(w, r)
      PROVE  LeaveInv'
  <2>1. /\ UNCHANGED <<Rows, I, born, gone, stray, at>> /\ pc[w] = "idle"
        /\ row' = [row EXCEPT ![w] = r]
        /\ \E label \in {"free", "lock"} : pc' = [pc EXCEPT ![w] = label]
    BY <1>4 DEF StartRemove, StartPatch, Goto, At, shared, history
  <2>2. /\ pc'[w] \in {"free", "lock"} /\ row'[w] = r
        /\ \A v \in Worker \ {w} : pc'[v] = pc[v] /\ row'[v] = row[v]
    BY <2>1 DEF TypeOK
  <2> QED
    BY <2>1, <2>2, LeaveAside
<1>5. CASE Rest \/ UNCHANGED vars
  <2>1. UNCHANGED <<Rows, I, born, pc, row, at, gone, stray>>
    BY <1>5 DEF Rest, vars
  <2>2. /\ In(Rows)' = In(Rows)
        /\ \A v \in Worker : Inserting(v)' <=> Inserting(v)
        /\ \A v \in Worker : Removing(v)' <=> Removing(v)
        /\ \A v \in Worker : \A r : OnItsWay(v, r)' <=> OnItsWay(v, r)
    BY <2>1 DEF In, Inserting, Removing, OnItsWay
  <2>3. OnceInRows'
    BY <2>1, <2>2 DEF LeaveInv, OnceInRows
  <2>4. SwapsItsRow' /\ SwappedIsOut' /\ Accounted'
    BY <2>1, <2>2 DEF LeaveInv, SwapsItsRow, SwappedIsOut, Accounted
  <2> QED
    BY <2>3, <2>4 DEF LeaveInv
<1> QED
  BY <1>1, <1>2, <1>3, <1>4, <1>5, LeaveInsert, LeaveRemove DEF Next, Step, Request

\* As long as no removal went through for a row that is not in Rows, be it taken
\* out already or handed out by the index before it is appended, a row leaves
\* Rows by its own removal and no other (removeByRow, collection.go:466-510):
\* rowsMutex covers the read of row.I and the swap, and every row knows its
\* position.
THEOREM SpecRowsLeaveByTheirOwnRemoval == Spec => []RowsLeaveByTheirOwnRemoval
  BY LeaveImplies, PlaceInit, PlaceNext, KnownInit, KnownNext, LeaveInit, LeaveNext, PTL DEF Spec

-----------------------------------------------------------------------------
\* While requests only patch: their rows are in Rows, memory and journal have
\* the same rows, and the same claims but for the patches between payload and
\* journal.  Such a patch always comes to its journal write: its own removal
\* of the key leaves the key free, because no other row has it, and the holder
\* of PatchMutex is the only one to touch it.
PatchOf(w) == (pc[w] = "lock" \/ Patching(w)) /\ row[w] \in In(Rows)
Owes(w, r) == row[w] = r /\ pc[w] \in {"restore", "read I", "encode patch"}
Unindexed(w) == pc[w] = "reindex" => Entries[KeyOf[row[w]]] = NoRow
NamesItsRow(w) == pc[w] = "encode patch" => at[w] \in DOMAIN Rows /\ Rows[at[w]] = row[w]

SameRows ==
  /\ disk.ok /\ disk.Rows = Rows
  /\ \A q, r \in In(Rows) : KeyOf[q] = KeyOf[r] => q = r
SameClaims ==
  \A r \in Row : disk.claim[r] = claim[r] \/ \E w \in Worker : Owes(w, r)

IndexedRows == \A k \in Key : Entries[k] \in In(Rows) \cup {NoRow}

WhilePatched ==
  /\ \A w \in Worker : (pc[w] = "idle" \/ PatchOf(w)) /\ Unindexed(w) /\ NamesItsRow(w)
  /\ SameRows
  /\ SameClaims

ReplayInv == ~moved => WhilePatched
StillIndexed == ~moved => IndexedRows

LEMMA ReplayInit == Init => ReplayInv
<1> SUFFICES ASSUME Init PROVE WhilePatched
  BY DEF ReplayInv
<1>1. \A w \in Worker : pc[w] = "idle"
  BY DEF Init
<1>2. SameRows
  BY ConcurrentAssumption DEF Init, SameRows, In
<1>3. SameClaims
  BY DEF Init, SameClaims
<1> QED
  BY <1>1, <1>2, <1>3 DEF WhilePatched, Unindexed, NamesItsRow

LEMMA ReplayImplies == TypeOK /\ ReplayInv => PatchesAreReplayed
<1> SUFFICES ASSUME TypeOK, ReplayInv, Quiet, ~moved
             PROVE  disk.ok /\ disk.Rows = Rows /\ disk.claim = claim
  BY DEF PatchesAreReplayed
<1>1. \A r \in Row : disk.claim[r] = claim[r]
  BY DEF ReplayInv, WhilePatched, SameClaims, Owes, Quiet
<1>2. disk.claim \in [Row -> Worker \cup {Free}] /\ claim \in [Row -> Worker \cup {Free}]
  BY DEF TypeOK, Image
<1>3. disk.claim = claim
  BY <1>1, <1>2
<1> QED
  BY <1>3 DEF ReplayInv, WhilePatched, SameRows

\* Two patches under PatchMutex are of two rows, and of two keys.
LEMMA PatchesApart ==
  ASSUME RowsOfRequests, ClaimInv, WhilePatched, NEW v \in Worker, NEW w \in Worker, v # w,
         Patching(v), Patching(w)
  PROVE  row[v] # row[w] /\ KeyOf[row[v]] # KeyOf[row[w]]
<1>1. PatchMutex[row[v]] = v /\ PatchMutex[row[w]] = w
  BY DEF ClaimInv, HoldsPatchMutex
<1>2. row[v] \in In(Rows) /\ row[w] \in In(Rows)
  BY DEF WhilePatched, PatchOf, Patching
<1> QED
  BY <1>1, <1>2 DEF WhilePatched, SameRows

\* What a step leaves as it was for the other patches.
OthersStand(w) ==
  \A v \in Worker \ {w} :
    /\ pc'[v] = pc[v] /\ row'[v] = row[v] /\ at'[v] = at[v]
    /\ pc[v] = "reindex" => Entries'[KeyOf[row[v]]] = Entries[KeyOf[row[v]]]

LEMMA OthersGoOn ==
  ASSUME WhilePatched, NEW w \in Worker, OthersStand(w), Rows' = Rows
  PROVE  \A v \in Worker \ {w} :
           /\ pc'[v] = "idle" \/ PatchOf(v)'
           /\ Unindexed(v)' /\ NamesItsRow(v)'
           /\ \A r : Owes(v, r) => Owes(v, r)'
<1> SUFFICES ASSUME NEW v \in Worker \ {w}
             PROVE  /\ pc'[v] = "idle" \/ PatchOf(v)'
                    /\ Unindexed(v)' /\ NamesItsRow(v)'
                    /\ \A r : Owes(v, r) => Owes(v, r)'
  OBVIOUS
<1>1. /\ pc'[v] = pc[v] /\ row'[v] = row[v] /\ at'[v] = at[v]
      /\ pc[v] = "reindex" => Entries'[KeyOf[row[v]]] = Entries[KeyOf[row[v]]]
  BY DEF OthersStand
<1>2. /\ pc[v] = "idle" \/ PatchOf(v)
      /\ Unindexed(v) /\ NamesItsRow(v)
  BY DEF WhilePatched
<1>3. In(Rows)' = In(Rows)
  BY DEF In
<1> QED
  BY <1>1, <1>2, <1>3 DEF PatchOf, Patching, Unindexed, NamesItsRow, Owes

\* A step that sets no payload and writes no journal.
LEMMA ReplayAside ==
  ASSUME WhilePatched, NEW w \in Worker, OthersStand(w),
         UNCHANGED <<Rows, disk, claim>>,
         pc'[w] = "idle" \/ PatchOf(w)', Unindexed(w)', NamesItsRow(w)',
         \A r : Owes(w, r) => Owes(w, r)'
  PROVE  WhilePatched'
<1>1. \A v \in Worker : \A r : Owes(v, r) => Owes(v, r)'
  BY OthersGoOn
<1>2. SameClaims'
  BY <1>1 DEF WhilePatched, SameClaims
<1>3. SameRows'
  BY DEF WhilePatched, SameRows, In
<1>4. \A v \in Worker : (pc'[v] = "idle" \/ PatchOf(v)') /\ Unindexed(v)' /\ NamesItsRow(v)'
  BY OthersGoOn
<1> QED
  BY <1>2, <1>3, <1>4 DEF WhilePatched

LEMMA PatchesGoOn ==
  ASSUME PlaceInv, ClaimInv, WhilePatched, IndexedRows, NEW w \in Worker,
         \/ \E r \in Row : StartPatch(w, r)
         \/ PatchLock(w) \/ PatchUnindex(w) \/ PatchRestore(w) \/ PatchReadI(w)
  PROVE  WhilePatched'
<1> USE DEF PlaceInv
<1>1. ASSUME NEW r \in Row, StartPatch(w, r) PROVE WhilePatched'
  <2>0. In(Entries) \cap Row \subseteq In(Rows)
    <3>1. DOMAIN Entries = Key
      BY DEF TypeOK
    <3> SUFFICES ASSUME NEW k \in Key, Entries[k] \in Row PROVE Entries[k] \in In(Rows)
      BY <3>1 DEF In
    <3> QED
      BY ConcurrentAssumption DEF IndexedRows
  <2>1. /\ UNCHANGED <<Rows, disk, claim, Entries, at>> /\ pc[w] = "idle" /\ r \in In(Rows)
        /\ row' = [row EXCEPT ![w] = r] /\ pc' = [pc EXCEPT ![w] = "lock"]
    BY <1>1, <2>0 DEF StartPatch, HandedOut, Goto, At, shared
  <2>2. pc'[w] = "lock" /\ row'[w] = r /\ OthersStand(w)
    BY <2>1 DEF OthersStand, TypeOK
  <2>3. PatchOf(w)' /\ Unindexed(w)' /\ NamesItsRow(w)' /\ \A q : ~Owes(w, q)
    BY <2>1, <2>2 DEF PatchOf, Unindexed, NamesItsRow, Owes, In
  <2> QED
    BY <2>1, <2>2, <2>3, ReplayAside
<1>2. CASE PatchLock(w)
  <2>1. /\ UNCHANGED <<Rows, disk, claim, Entries>> /\ pc[w] = "lock"
        /\ Answer(w) \/ (pc' = [pc EXCEPT ![w] = "unindex"] /\ UNCHANGED <<row, at>>)
    BY <1>2 DEF PatchLock, Goto, At
  <2>2. OthersStand(w)
    BY <2>1 DEF OthersStand, Answer, TypeOK
  <2>3. pc'[w] = "idle" \/ (pc'[w] = "unindex" /\ row'[w] = row[w])
    BY <2>1 DEF Answer, TypeOK
  <2>4. row[w] \in In(Rows) /\ In(Rows)' = In(Rows)
    BY <2>1 DEF WhilePatched, PatchOf, In
  <2>5. pc'[w] = "idle" \/ PatchOf(w)'
    BY <2>3, <2>4 DEF PatchOf, Patching
  <2>6. Unindexed(w)' /\ NamesItsRow(w)' /\ \A q : ~Owes(w, q)
    BY <2>1, <2>3 DEF Unindexed, NamesItsRow, Owes
  <2> QED
    BY <2>1, <2>2, <2>5, <2>6, ReplayAside
<1>3. CASE PatchUnindex(w)
  <2>1. /\ UNCHANGED <<Rows, disk, claim, row, at>> /\ pc[w] = "unindex"
        /\ pc' = [pc EXCEPT ![w] = "reindex"]
        /\ Entries' = [Entries EXCEPT ![KeyOf[row[w]]] = NoRow]
    BY <1>3 DEF PatchUnindex, Goto, At
  <2>2. Patching(w) /\ row[w] \in In(Rows) /\ row[w] \in Row /\ KeyOf[row[w]] \in Key
    BY <2>1, ConcurrentAssumption DEF Patching, WhilePatched, PatchOf, RowsOfRequests
  <2>3. OthersStand(w)
    <3> SUFFICES ASSUME NEW v \in Worker \ {w}, pc[v] = "reindex"
                 PROVE  Entries'[KeyOf[row[v]]] = Entries[KeyOf[row[v]]]
      BY <2>1 DEF OthersStand, TypeOK
    <3>1. Patching(v)
      BY DEF Patching
    <3>2. KeyOf[row[v]] # KeyOf[row[w]]
      BY <2>2, <3>1, PatchesApart
    <3>3. KeyOf[row[v]] \in Key
      BY ConcurrentAssumption DEF RowsOfRequests
    <3> QED
      BY <2>1, <3>2, <3>3 DEF TypeOK
  <2>4. pc'[w] = "reindex"
    BY <2>1 DEF TypeOK
  <2>5. PatchOf(w)'
    BY <2>1, <2>2, <2>4 DEF PatchOf, Patching, In
  <2>6. Unindexed(w)' /\ NamesItsRow(w)'
    BY <2>1, <2>2, <2>4 DEF Unindexed, NamesItsRow, TypeOK
  <2>7. \A q : ~Owes(w, q)
    BY <2>1 DEF Owes
  <2> QED
    BY <2>1, <2>3, <2>5, <2>6, <2>7, ReplayAside
<1>4. CASE PatchRestore(w)
  <2>1. /\ UNCHANGED <<Rows, disk, claim, row, at>> /\ pc[w] = "restore"
        /\ pc' = [pc EXCEPT ![w] = "read I"]
        /\ Entries' = [Entries EXCEPT ![KeyOf[row[w]]] = row[w]]
    BY <1>4 DEF PatchRestore, Goto, At
  <2>2. Patching(w) /\ row[w] \in In(Rows)
    BY <2>1 DEF Patching, WhilePatched, PatchOf
  <2>3. OthersStand(w)
    <3> SUFFICES ASSUME NEW v \in Worker \ {w}, pc[v] = "reindex"
                 PROVE  Entries'[KeyOf[row[v]]] = Entries[KeyOf[row[v]]]
      BY <2>1 DEF OthersStand, TypeOK
    <3>1. Patching(v)
      BY DEF Patching
    <3>2. KeyOf[row[v]] # KeyOf[row[w]]
      BY <2>2, <3>1, PatchesApart
    <3>3. KeyOf[row[v]] \in Key
      BY ConcurrentAssumption DEF RowsOfRequests
    <3> QED
      BY <2>1, <3>2, <3>3 DEF TypeOK
  <2>4. pc'[w] = "read I"
    BY <2>1 DEF TypeOK
  <2>5. PatchOf(w)' /\ Unindexed(w)' /\ NamesItsRow(w)'
    BY <2>1, <2>2, <2>4 DEF PatchOf, Patching, In, Unindexed, NamesItsRow
  <2>6. \A q : Owes(w, q) => Owes(w, q)'
    BY <2>1, <2>4 DEF Owes
  <2> QED
    BY <2>1, <2>3, <2>5, <2>6, ReplayAside
<1>5. CASE PatchReadI(w)
  <2>1. /\ UNCHANGED <<Rows, disk, claim, Entries, row>> /\ pc[w] = "read I"
        /\ pc' = [pc EXCEPT ![w] = "encode patch"]
        /\ at' = [at EXCEPT ![w] = I[row[w]]]
    BY <1>5 DEF PatchReadI, Goto, At, shared
  <2>2. Patching(w) /\ row[w] \in In(Rows)
    BY <2>1 DEF Patching, WhilePatched, PatchOf
  <2>3. OthersStand(w) /\ pc'[w] = "encode patch" /\ at'[w] = I[row[w]]
    BY <2>1 DEF OthersStand, TypeOK
  <2>4. I[row[w]] \in DOMAIN Rows /\ Rows[I[row[w]]] = row[w]
    BY <2>2 DEF In, RowsKnowTheirPlace
  <2>5. PatchOf(w)' /\ Unindexed(w)' /\ NamesItsRow(w)'
    BY <2>1, <2>2, <2>3, <2>4 DEF PatchOf, Patching, In, Unindexed, NamesItsRow
  <2>6. \A q : Owes(w, q) => Owes(w, q)'
    BY <2>1, <2>3 DEF Owes
  <2> QED
    BY <2>1, <2>3, <2>5, <2>6, ReplayAside
<1> QED
  BY <1>1, <1>2, <1>3, <1>4, <1>5

\* The payload is set: the key is still free, so the patch owes its journal write.
LEMMA PatchOwes ==
  ASSUME PlaceInv, ClaimInv, WhilePatched, NEW w \in Worker, PatchReindex(w)
  PROVE  WhilePatched'
<1> USE DEF PlaceInv
<1>1. pc[w] = "reindex" /\ Entries[KeyOf[row[w]]] = NoRow
  BY DEF PatchReindex, At, WhilePatched, Unindexed
<1>2. /\ claim' = [claim EXCEPT ![row[w]] = value[w]]
      /\ pc' = [pc EXCEPT ![w] = "restore"]
      /\ UNCHANGED <<Rows, disk, Entries, row, at>>
  BY <1>1 DEF PatchReindex, Goto
<1>3. OthersStand(w) /\ pc'[w] = "restore"
  BY <1>2 DEF OthersStand, TypeOK
<1>4. row[w] \in In(Rows) /\ In(Rows)' = In(Rows)
  BY <1>1, <1>2 DEF WhilePatched, PatchOf, In
<1>5. PatchOf(w)' /\ Unindexed(w)' /\ NamesItsRow(w)' /\ Owes(w, row[w])'
  BY <1>2, <1>3, <1>4 DEF PatchOf, Patching, Unindexed, NamesItsRow, Owes
<1>6. SameClaims'
  <2> SUFFICES ASSUME NEW r \in Row
               PROVE  disk'.claim[r] = claim'[r] \/ \E v \in Worker : Owes(v, r)'
    BY DEF SameClaims
  <2>1. CASE r = row[w]
    BY <1>2, <1>3, <2>1 DEF Owes
  <2>2. CASE r # row[w]
    <3>1. claim'[r] = claim[r] /\ disk' = disk
      BY <1>2, <2>2 DEF TypeOK
    <3>2. ~Owes(w, r)
      BY <2>2 DEF Owes
    <3>3. \A v \in Worker : Owes(v, r) => Owes(v, r)'
      BY <1>2, <1>3, <3>2, OthersGoOn
    <3> QED
      BY <3>1, <3>3 DEF WhilePatched, SameClaims
  <2> QED
    BY <2>1, <2>2
<1>7. SameRows'
  BY <1>2, <1>4 DEF WhilePatched, SameRows
<1>8. \A v \in Worker : (pc'[v] = "idle" \/ PatchOf(v)') /\ Unindexed(v)' /\ NamesItsRow(v)'
  BY <1>2, <1>3, <1>5, OthersGoOn
<1> QED
  BY <1>6, <1>7, <1>8 DEF WhilePatched

\* The journal gets the claim that is in memory, under the position of its row.
LEMMA PatchIsWritten ==
  ASSUME PlaceInv, ClaimInv, WhilePatched, NEW w \in Worker, PatchEncode(w)
  PROVE  WhilePatched'
<1> USE DEF PlaceInv
<1>1. /\ pc[w] = "encode patch" /\ Answer(w) /\ WritePatch(at[w], value[w])
      /\ UNCHANGED <<Rows, claim, Entries>>
  BY DEF PatchEncode, At
<1>2. /\ at[w] \in DOMAIN Rows /\ Rows[at[w]] = row[w]
      /\ disk.ok /\ disk.Rows = Rows
  BY <1>1 DEF WhilePatched, NamesItsRow, SameRows
<1>3. at[w] \in 1 .. Len(Rows) /\ Len(Rows) \in Nat /\ row[w] \in Row
  BY <1>1, <1>2, RowsAsFunction DEF RowsOfRequests
<1>4. disk' = [disk EXCEPT !.claim[row[w]] = value[w]]
  <2>1. ~(at[w] > Len(disk.Rows))
    BY <1>2, <1>3
  <2> QED
    BY <1>1, <1>2, <2>1 DEF WritePatch
<1>5. value[w] = claim[row[w]]
  BY <1>1 DEF ClaimInv, PayloadStillSet
<1>6. /\ disk'.ok = disk.ok /\ disk'.Rows = disk.Rows
      /\ \A r \in Row : disk'.claim[r] = IF r = row[w] THEN claim[r] ELSE disk.claim[r]
  BY <1>3, <1>4, <1>5 DEF TypeOK, Image
<1>7. OthersStand(w) /\ pc'[w] = "idle"
  BY <1>1 DEF OthersStand, Answer, TypeOK
<1>8. SameClaims'
  <2> SUFFICES ASSUME NEW r \in Row, r # row[w]
               PROVE  disk'.claim[r] = claim'[r] \/ \E v \in Worker : Owes(v, r)'
    BY <1>1, <1>6 DEF SameClaims
  <2>1. disk'.claim[r] = disk.claim[r] /\ claim'[r] = claim[r]
    BY <1>1, <1>6
  <2>2. ~Owes(w, r)
    BY DEF Owes
  <2>3. \A v \in Worker : Owes(v, r) => Owes(v, r)'
    BY <1>1, <1>7, <2>2, OthersGoOn
  <2> QED
    BY <2>1, <2>3 DEF WhilePatched, SameClaims
<1>9. SameRows'
  <2>1. In(Rows)' = In(Rows)
    BY <1>1 DEF In
  <2> QED
    BY <1>1, <1>6, <2>1 DEF WhilePatched, SameRows
<1>10. \A v \in Worker : (pc'[v] = "idle" \/ PatchOf(v)') /\ Unindexed(v)' /\ NamesItsRow(v)'
  BY <1>1, <1>7, OthersGoOn DEF Unindexed, NamesItsRow
<1> QED
  BY <1>8, <1>9, <1>10 DEF WhilePatched

\* A step of an insert or a removal is not among them.
LEMMA OnlyPatchesRun ==
  ASSUME ReplayInv, ~moved', NEW w \in Worker,
         \/ \E r \in Row : StartInsert(w, r) \/ StartRemove(w, r)
         \/ InsertStore(w) \/ InsertAppend(w) \/ InsertEncode(w)
         \/ RemoveFree(w) \/ RemoveSwap(w) \/ RemoveEncode(w)
  PROVE  FALSE
<1>1. ASSUME NEW r \in Row, StartInsert(w, r) \/ StartRemove(w, r) PROVE FALSE
  BY <1>1 DEF StartInsert, StartRemove
<1>2. ASSUME \/ InsertStore(w) \/ InsertAppend(w) \/ InsertEncode(w)
             \/ RemoveFree(w) \/ RemoveSwap(w) \/ RemoveEncode(w)
      PROVE  FALSE
  <2>1. pc[w] \in {"store", "append", "encode insert", "free", "swap", "encode remove"}
    BY <1>2 DEF InsertStore, InsertAppend, InsertEncode, RemoveFree, RemoveSwap, RemoveEncode, At
  <2>2. moved' = moved
    <3>1. CASE InsertStore(w) \/ InsertAppend(w) \/ InsertEncode(w)
      BY <3>1 DEF InsertStore, InsertAppend, InsertEncode, history
    <3>2. CASE RemoveFree(w) \/ RemoveSwap(w) \/ RemoveEncode(w)
      BY <3>2 DEF RemoveFree, RemoveSwap, RemoveEncode, history
    <3> QED
      BY <1>2, <3>1, <3>2
  <2> QED
    BY <2>1, <2>2 DEF ReplayInv, WhilePatched, PatchOf, Patching
<1> QED
  BY <1>1, <1>2

LEMMA ReplayNext ==
  PlaceInv /\ ClaimInv /\ ReplayInv /\ StillIndexed /\ [Next]_vars => ReplayInv'
<1> SUFFICES ASSUME PlaceInv, ClaimInv, ReplayInv, StillIndexed, [Next]_vars, ~moved' PROVE WhilePatched'
  BY DEF ReplayInv
<1>2. ASSUME NEW w \in Worker,
             \/ \E r \in Row : StartInsert(w, r) \/ StartRemove(w, r)
             \/ InsertStore(w) \/ InsertAppend(w) \/ InsertEncode(w)
             \/ RemoveFree(w) \/ RemoveSwap(w) \/ RemoveEncode(w)
      PROVE  FALSE
  BY <1>2, OnlyPatchesRun
<1>3. ASSUME NEW w \in Worker,
             \/ \E r \in Row : StartPatch(w, r)
             \/ PatchLock(w) \/ PatchUnindex(w) \/ PatchReindex(w)
             \/ PatchRestore(w) \/ PatchReadI(w) \/ PatchEncode(w)
      PROVE  WhilePatched'
  <2>1. ~moved
    BY <1>3 DEF StartPatch, PatchLock, PatchUnindex, PatchReindex, PatchRestore, PatchReadI,
                PatchEncode, history
  <2> QED
    BY <1>3, <2>1, PatchesGoOn, PatchOwes, PatchIsWritten DEF ReplayInv, StillIndexed
<1>4. CASE Rest \/ UNCHANGED vars
  <2>1. UNCHANGED <<Rows, claim, Entries, disk, pc, row, at, moved>>
    BY <1>4 DEF Rest, vars
  <2>2. /\ In(Rows)' = In(Rows)
        /\ \A w \in Worker : /\ PatchOf(w)' <=> PatchOf(w)
                             /\ Unindexed(w)' <=> Unindexed(w)
                             /\ NamesItsRow(w)' <=> NamesItsRow(w)
                             /\ \A r : Owes(w, r)' <=> Owes(w, r)
    BY <2>1 DEF In, PatchOf, Patching, Unindexed, NamesItsRow, Owes
  <2>3. SameRows' /\ SameClaims'
    BY <2>1, <2>2 DEF ReplayInv, WhilePatched, SameRows, SameClaims
  <2> QED
    BY <2>1, <2>2, <2>3 DEF ReplayInv, WhilePatched
<1> QED
  BY <1>2, <1>3, <1>4 DEF Next, Step, Request

\* A patch puts into the index the row it has in hand, which is in Rows.
LEMMA StillIndexedInit == Init => StillIndexed
<1> SUFFICES ASSUME Init, NEW k \in Key PROVE Entries[k] \in In(Rows) \cup {NoRow}
  BY DEF StillIndexed, IndexedRows
<1> QED
  BY DEF Init

LEMMA StillIndexedNext ==
  PlaceInv /\ ReplayInv /\ StillIndexed /\ [Next]_vars => StillIndexed'
<1> SUFFICES ASSUME PlaceInv, ReplayInv, StillIndexed, [Next]_vars, ~moved' PROVE IndexedRows'
  BY DEF StillIndexed
<1> USE DEF PlaceInv
<1>1. ASSUME NEW w \in Worker,
             \/ \E r \in Row : StartPatch(w, r)
             \/ PatchLock(w) \/ PatchUnindex(w) \/ PatchReindex(w)
             \/ PatchRestore(w) \/ PatchReadI(w) \/ PatchEncode(w)
      PROVE  IndexedRows'
  <2>1. /\ Rows' = Rows /\ moved' = moved
        /\ \/ Entries' = Entries
           \/ Entries' = [Entries EXCEPT ![KeyOf[row[w]]] = NoRow]
           \/ PatchRestore(w) /\ Entries' = [Entries EXCEPT ![KeyOf[row[w]]] = row[w]]
    BY <1>1 DEF StartPatch, PatchLock, PatchUnindex, PatchReindex, PatchRestore, PatchReadI,
                PatchEncode, shared, history
  <2>2. PatchRestore(w) => row[w] \in In(Rows)
    BY <2>1 DEF ReplayInv, WhilePatched, PatchOf, PatchRestore, At
  <2>3. IndexedRows /\ In(Rows)' = In(Rows)
    BY <2>1 DEF StillIndexed, In
  <2> QED
    BY <2>1, <2>2, <2>3 DEF IndexedRows, TypeOK
<1>2. ASSUME NEW w \in Worker,
             \/ \E r \in Row : StartInsert(w, r) \/ StartRemove(w, r)
             \/ InsertStore(w) \/ InsertAppend(w) \/ InsertEncode(w)
             \/ RemoveFree(w) \/ RemoveSwap(w) \/ RemoveEncode(w)
      PROVE  FALSE
  BY <1>2, OnlyPatchesRun
<1>3. CASE Rest \/ UNCHANGED vars
  <2>1. UNCHANGED <<Rows, Entries, moved>>
    BY <1>3 DEF Rest, vars
  <2> QED
    BY <2>1 DEF StillIndexed, IndexedRows, In
<1> QED
  BY <1>1, <1>2, <1>3 DEF Next, Step, Request

\* As long as documents are only patched, what OpenCollection replays is what
\* was in memory (patch.go:39-57, patchByRow at collection.go:512-571):
\* PatchMutex covers payload and journal write, so the last claim written of a
\* row is its last claim, whatever the order of the rows in the journal.
THEOREM SpecPatchesAreReplayed == Spec => []PatchesAreReplayed
<1>1. PlaceInv => TypeOK /\ RowsOfRequests
  BY DEF PlaceInv
<1> QED
  BY <1>1, PlaceInit, PlaceNext, ClaimInit, ClaimNext, ReplayInit, ReplayNext, StillIndexedInit,
     StillIndexedNext, ReplayImplies, PTL
     DEF Spec
=============================================================================

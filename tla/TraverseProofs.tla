---------------------------- MODULE TraverseProofs ----------------------------
(***************************************************************************)
(* Walks over a collection of any size: every variable keeps its type; a   *)
(* row that stays in the collection is missed by no full scan and by no    *)
(* look-up of its id, under any removals (Inv); and a request that no      *)
(* other handler interferes with hands out what it asks for (AloneInv, on  *)
(* top of Inv).                                                            *)
(***************************************************************************)
EXTENDS Traverse, FiniteSetTheorems, SequenceTheorems, WellFoundedInduction, TLAPS

Born == Row \ unborn

\* Only rows that were inserted are in a cell, in an index, or in the walk, and
\* they have had a place.
RowsOK ==
  /\ array \in Cells /\ len \in 0 .. Len(array)
  /\ I \in [Row -> Nat] /\ \A r \in Born : I[r] >= 1
  /\ unborn \subseteq Row /\ indexed \subseteq Born
  /\ \A k \in 1 .. Len(array) : array[k] \in Born \cup {NoRow}
  /\ \A k \in 1 .. len : array[k] \in Row
HeldOK ==
  held # NoArray => held \in Cells /\ \A k \in 1 .. Len(held) : held[k] \in Born \cup {NoRow}
PatchOK == patching \in Born \cup {NoRow}
HandedOK == handed \in Seq(Row)

\* The walk and the place it is at.
Walk == [request : Request, by : {"scan", "btree", "map"}, at : Int, bound : Nat,
         skip : Nat, limit : Nat \cup {All}]
Place ==
  /\ walk \in Walk /\ walk.skip <= walk.request.skip
  /\ walk.request.op = "get" => walk.by \in {"map", "scan"}
  /\ walk.by = "map" =>
       /\ walk.bound \in {0, 1}
       /\ walk.bound = 1 => walk.request.from \in Born
  /\ walk.by # "btree" => walk.at >= 1
  /\ walk.by = "scan" /\ held # NoArray => walk.bound <= Len(held)
  /\ walk.by = "scan" /\ held = NoArray =>
       walk.bound <= Len(array) /\ \A k \in 1 .. walk.bound : array[k] \in Row
WalkOK == Walking => Place
TypeInv == RowsOK /\ HeldOK /\ PatchOK /\ HandedOK /\ WalkOK

\* What stays is in Rows; of a scan or a get it is handed out already, or in a
\* cell the scan has still to read.
StaysIn == stayed \subseteq Contents
Ahead == {array[k] : k \in walk.at .. walk.bound}
ScansAll ==
  walk.by = "scan" /\ walk.request.op # "get" /\ walk.limit = All /\ walk.request.skip = 0
  => stayed \cap walk.request.filter \subseteq ToSet(handed) \cup Ahead
LooksUp ==
  walk.request.op = "get" =>
    /\ walk.limit \in {0, 1} /\ walk.skip = 0
    /\ walk.limit = 0 => walk.request.from \in ToSet(handed)
    /\ walk.limit = 1 /\ walk.by = "scan" =>
         stayed \cap walk.request.filter \subseteq Ahead
NoneIsMissed ==
  ~inserted /\ Walking => held = NoArray /\ ScansAll /\ LooksUp

Inv == TypeInv /\ StaysIn /\ NoneIsMissed

LEMMA RowsFinite == ASSUME NEW S, S \subseteq Row PROVE IsFiniteSet(S)
  BY TraverseAssumption, FS_Subset

\* The number of rows of S below r.
Rank(S, r) == Cardinality({x \in S : x < r})

\* Each place in the order is one of a row: the numbers of smaller rows differ,
\* so all of them occur.
LEMMA SortedRank ==
  ASSUME NEW S, S \subseteq Row
  PROVE  /\ \A k \in 1 .. Cardinality(S) :
              Sorted(S)[k] \in S /\ Rank(S, Sorted(S)[k]) = k - 1
         /\ \A r \in S : Rank(S, r) \in 0 .. Cardinality(S) - 1
         /\ \A r \in S, k \in 1 .. Cardinality(S) : Rank(S, r) = k - 1 => Sorted(S)[k] = r
<1>1. IsFiniteSet(S) /\ Cardinality(S) \in Nat /\ \A r \in S : r \in Nat
  <2>1. IsFiniteSet(S)
    BY RowsFinite
  <2> QED
    BY <2>1, FS_CardinalityType, TraverseAssumption
<1>2. \A r : {x \in S : x < r} \in SUBSET S
  OBVIOUS
<1>3. \A r : IsFiniteSet({x \in S : x < r}) /\ Rank(S, r) \in Nat
  <2> SUFFICES ASSUME NEW r PROVE IsFiniteSet({x \in S : x < r}) /\ Rank(S, r) \in Nat
    OBVIOUS
  <2> DEFINE T == {x \in S : x < r}
  <2>1. T \in SUBSET S
    OBVIOUS
  <2> HIDE DEF T
  <2>2. IsFiniteSet(T) /\ Cardinality(T) \in Nat
    BY <1>1, <2>1, FS_Subset, FS_CardinalityType
  <2> QED
    BY <2>2 DEF T, Rank
<1>4. ASSUME NEW r \in S PROVE Rank(S, r) \in 0 .. Cardinality(S) - 1
  <2> DEFINE T == {x \in S : x < r}
  <2>1. T \in SUBSET S /\ T # S
    BY <1>1
  <2> HIDE DEF T
  <2>2. Cardinality(T) <= Cardinality(S) /\ Cardinality(T) # Cardinality(S)
    BY <1>1, <2>1, FS_Subset
  <2>3. Rank(S, r) = Cardinality(T)
    BY DEF Rank, T
  <2>4. Rank(S, r) \in Nat /\ Cardinality(S) \in Nat
    BY <1>1, <1>3
  <2> QED
    BY <2>2, <2>3, <2>4
<1>5. ASSUME NEW r \in S, NEW s \in S, r < s PROVE Rank(S, r) # Rank(S, s)
  <2> DEFINE T == {x \in S : x < r}
             U == {x \in S : x < s}
  <2>1. T \in SUBSET U /\ T # U
    BY <1>1, <1>5
  <2>2. IsFiniteSet(U)
    BY <1>3
  <2> HIDE DEF T, U
  <2>3. Cardinality(T) # Cardinality(U)
    BY <2>1, <2>2, FS_Subset
  <2> QED
    BY <2>3 DEF T, U, Rank
<1>6. \A r, s \in S : Rank(S, r) = Rank(S, s) => r = s
  <2>1. \A r, s \in S : r = s \/ r < s \/ s < r
    BY <1>1
  <2> QED
    BY <1>5, <2>1
<1>7. ASSUME NEW k \in 1 .. Cardinality(S)
      PROVE  \E r \in S : Rank(S, r) = k - 1
  <2> SUFFICES ASSUME \A r \in S : Rank(S, r) # k - 1 PROVE FALSE
    OBVIOUS
  <2> DEFINE n == Cardinality(S)
             U == (0 .. n - 1) \ {k - 1}
             f == [r \in S |-> Rank(S, r)]
  <2>0. n \in Nat /\ k - 1 \in 0 .. n - 1
    BY <1>1
  <2>1. f \in [S -> U]
    BY <1>4
  <2> HIDE DEF n
  <2>2. IsFiniteSet(0 .. n - 1) /\ Cardinality(0 .. n - 1) = n
    BY <2>0, FS_Interval
  <2>3. IsFiniteSet(U) /\ Cardinality(U) = n - 1
    <3> DEFINE W == 0 .. n - 1
    <3>1. IsFiniteSet(W) /\ Cardinality(W) = n /\ k - 1 \in W
      BY <2>0, <2>2
    <3> HIDE DEF W
    <3>2. IsFiniteSet(W \ {k - 1}) /\ Cardinality(W \ {k - 1}) = n - 1
      BY <3>1, FS_RemoveElement
    <3> QED
      BY <3>2 DEF W
  <2>4. Cardinality(U) < Cardinality(S)
    <3> HIDE DEF U
    <3>1. Cardinality(U) = n - 1 /\ n \in Nat /\ n = Cardinality(S)
      BY <2>0, <2>3 DEF n
    <3> QED
      BY <3>1
  <2>5. \E r, s \in S : r # s /\ f[r] = f[s]
    <3> HIDE DEF U, f
    <3> QED
      BY <1>1, <2>1, <2>3, <2>4, FS_PigeonHole
  <2> QED
    BY <1>6, <2>5
<1>8. ASSUME NEW k \in 1 .. Cardinality(S)
      PROVE  Sorted(S)[k] \in S /\ Rank(S, Sorted(S)[k]) = k - 1
  <2>1. Sorted(S)[k] = CHOOSE r \in S : Rank(S, r) = k - 1
    BY DEF Sorted, Rank
  <2> QED
    BY <1>7, <2>1
<1>9. ASSUME NEW r \in S, NEW k \in 1 .. Cardinality(S), Rank(S, r) = k - 1
      PROVE  Sorted(S)[k] = r
  BY <1>6, <1>8, <1>9
<1> QED
  BY <1>4, <1>8, <1>9

\* What a loop is at was inserted once.
LEMMA CurrentBorn ==
  ASSUME TypeInv, Looping
  PROVE  Place /\ Current \in Born /\ walk.limit # 0
<1>1. /\ Place /\ Current # NoRow /\ walk.limit # 0
      /\ walk.at \in Int /\ walk.bound \in Nat /\ walk.by \in {"scan", "btree", "map"}
  BY DEF TypeInv, WalkOK, Looping, Over, Place, Walk
<1>2. CASE walk.by = "scan"
  <2>1. Current = Scanned /\ walk.at \in 1 .. walk.bound
    BY <1>1, <1>2 DEF Current, Scanned, Place
  <2>2. CASE held = NoArray
    <3>1. Current = array[walk.at] /\ walk.at \in 1 .. Len(array)
      BY <1>1, <1>2, <2>1, <2>2 DEF Scanned, Place, TypeInv, RowsOK, Cells
    <3> QED
      BY <1>1, <3>1 DEF TypeInv, RowsOK
  <2>3. CASE held # NoArray
    <3>1. Current = held[walk.at] /\ walk.at \in 1 .. Len(held)
      BY <1>1, <1>2, <2>1, <2>3 DEF Scanned, Place, TypeInv, HeldOK, Cells
    <3> QED
      BY <1>1, <2>3, <3>1 DEF TypeInv, HeldOK
  <2> QED
    BY <2>2, <2>3
<1>3. CASE walk.by = "map"
  <2>1. Current = Loaded /\ walk.at <= walk.bound /\ walk.at >= 1
    BY <1>1, <1>3 DEF Current, Loaded, Place
  <2> QED
    BY <1>1, <1>3, <2>1 DEF Loaded, Place
<1>4. CASE walk.by = "btree"
  <2>1. Current = Entry
    BY <1>4 DEF Current
  <2>2. Entry # NoRow
    BY <1>1, <2>1
  <2>3. walk.at \in 1 .. Cardinality(indexed)
    BY <2>2 DEF Entry
  <2>4. Entry = Sorted(indexed)[walk.at]
    BY <2>2, <2>3 DEF Entry
  <2>5. indexed \subseteq Row /\ indexed \subseteq Born
    BY DEF TypeInv, RowsOK, Born
  <2> QED
    BY <1>1, <2>1, <2>3, <2>4, <2>5, SortedRank
<1> QED
  BY <1>1, <1>2, <1>3, <1>4

-----------------------------------------------------------------------------
LEMMA InvInit == Init => Inv
<1> SUFFICES ASSUME Init PROVE Inv
  OBVIOUS
<1>1. ~Walking /\ Contents = {} /\ array = << >> /\ len = 0 /\ held = NoArray /\ handed = << >>
  BY DEF Init, Walking, Contents
<1>2. RowsOK
  BY <1>1 DEF Init, RowsOK, Born, Cells
<1> QED
  BY <1>1, <1>2
     DEF Init, Inv, TypeInv, HeldOK, PatchOK, HandedOK, WalkOK, StaysIn, NoneIsMissed

\* A removal changes the one cell of a row that leaves; every other row that
\* stays keeps its cell, and those of a scan still hold rows.
LEMMA RemoveByRowProperties ==
  ASSUME RowsOK, StaysIn, NEW r \in Born, RemoveByRow(r)
  PROVE  /\ RowsOK' /\ StaysIn' /\ Born' = Born
         /\ stayed' \subseteq stayed
         /\ Len(array') = Len(array)
         /\ \A k \in 1 .. Len(array) : array[k] \in Row => array'[k] \in Row
         /\ \A k \in 1 .. Len(array) : array[k] \in stayed' => array'[k] = array[k]
<1> DEFINE i == I[r]
<1>1. /\ i \in 1 .. len /\ len \in 1 .. Len(array) /\ r \in Row
      /\ array \in Cells /\ I \in [Row -> Nat] /\ len \in Nat /\ Len(array) \in Nat
      /\ array[len] \in Row /\ array[i] \in Row
  <2>1. r \in Row /\ array \in Cells /\ len \in 0 .. Len(array) /\ I \in [Row -> Nat]
    BY DEF RowsOK, Born
  <2>2. Len(array) \in Nat
    BY <2>1 DEF Cells
  <2>3. i \in 1 .. len
    BY <2>1, <2>2 DEF RowsOK, RemoveByRow
  <2> QED
    BY <2>1, <2>2, <2>3 DEF RowsOK
<1>2. /\ array' = [array EXCEPT ![i] = array[len]]
      /\ I' = [I EXCEPT ![array[len]] = i]
      /\ len' = len - 1 /\ indexed' = indexed \ {r} /\ unborn' = unborn
      /\ stayed' = stayed \ {array[i]}
  BY DEF RemoveByRow, SwapOut
<1> HIDE DEF i
<1>3. /\ Len(array') = Len(array) /\ array' \in Cells
      /\ array'[i] = array[len]
      /\ \A k \in 1 .. Len(array) : k # i => array'[k] = array[k]
  BY <1>1, <1>2 DEF Cells
<1>4. Born' = Born
  BY <1>2 DEF Born
<1>5. /\ \A k \in 1 .. Len(array) : array[k] \in Row => array'[k] \in Row
      /\ \A k \in 1 .. Len(array) : array[k] \in stayed' => array'[k] = array[k]
  BY <1>1, <1>2, <1>3
<1>6. RowsOK'
  <2>1. I' \in [Row -> Nat] /\ \A x \in Born : I'[x] >= 1
    BY <1>1, <1>2 DEF RowsOK, Born
  <2>2. \A k \in 1 .. Len(array) : array'[k] \in Born \cup {NoRow}
    BY <1>1, <1>3 DEF RowsOK
  <2>3. \A k \in 1 .. len' : array'[k] \in Row
    BY <1>1, <1>2, <1>5 DEF RowsOK
  <2>4. unborn' \subseteq Row /\ indexed' \subseteq Born /\ len' \in 0 .. Len(array)
    BY <1>1, <1>2 DEF RowsOK
  <2> QED
    BY <1>3, <1>4, <2>1, <2>2, <2>3, <2>4 DEF RowsOK
<1>7. StaysIn'
  <2> SUFFICES ASSUME NEW x \in stayed' PROVE \E k \in 1 .. len' : array'[k] = x
    BY DEF StaysIn, Contents
  <2>1. PICK k \in 1 .. len : array[k] = x
    BY <1>2 DEF StaysIn, Contents
  <2>2. k # i
    BY <1>2, <2>1
  <2>3. CASE k = len
    <3>1. i \in 1 .. len' /\ array'[i] = x
      BY <1>1, <1>2, <1>3, <2>1, <2>2, <2>3
    <3> QED
      BY <3>1
  <2>4. CASE k # len
    <3>1. k \in 1 .. len' /\ array'[k] = x
      BY <1>1, <1>2, <1>3, <2>1, <2>2, <2>4
    <3> QED
      BY <3>1
  <2> QED
    BY <2>3, <2>4
<1> QED
  BY <1>2, <1>3, <1>4, <1>5, <1>6, <1>7

LEMMA InsertNext ==
  ASSUME Inv, NEW r \in Row, Insert(r)
  PROVE  Inv'
<1>1. /\ RowsOK /\ HeldOK /\ PatchOK /\ HandedOK /\ WalkOK /\ StaysIn
      /\ len \in Nat /\ Len(array) \in Nat /\ len <= Len(array) /\ NoRow \notin Row
  <2>1. len \in 0 .. Len(array) /\ Len(array) \in Nat
    BY DEF Inv, TypeInv, RowsOK, Cells
  <2> QED
    BY <2>1, TraverseAssumption DEF Inv, TypeInv
<1>2. /\ len' = len + 1 /\ I' = [I EXCEPT ![r] = len + 1] /\ indexed' = indexed \cup {r}
      /\ unborn' = unborn \ {r} /\ UNCHANGED <<patching, walk, handed, stayed>>
      /\ (Walking => inserted')
  BY DEF Insert
<1>3. /\ array' \in Cells /\ Len(array') \in Nat /\ len + 1 <= Len(array')
      /\ array'[len + 1] = r
      /\ Len(array) <= Len(array')
      /\ \A k \in 1 .. Len(array) : k # len + 1 => array'[k] = array[k]
      /\ \A k \in 1 .. Len(array') : array'[k] \in {array[j] : j \in 1 .. Len(array)} \cup {r, NoRow}
      /\ held' = held \/ (held = NoArray /\ held' = array)
  <2>1. CASE len < Len(array)
    <3>1. array' = [array EXCEPT ![len + 1] = r] /\ UNCHANGED held
      BY <2>1 DEF Insert
    <3>2. /\ array' \in Cells /\ Len(array') = Len(array) /\ array'[len + 1] = r
          /\ \A k \in 1 .. Len(array) : k # len + 1 => array'[k] = array[k]
      BY <1>1, <2>1, <3>1 DEF RowsOK, Cells
    <3> QED
      BY <1>1, <2>1, <3>1, <3>2
  <2>2. CASE ~(len < Len(array))
    <3> DEFINE N == IF len = 0 THEN 1 ELSE 2 * len
               cell(k) == CASE k <= len -> array[k] [] k = len + 1 -> r [] OTHER -> NoRow
    <3>1. array' = [k \in 1 .. N |-> cell(k)] /\ held' = IF Walking /\ held = NoArray THEN array ELSE held
      BY <2>2 DEF Insert
    <3>2. N \in Nat /\ len + 1 <= N /\ Len(array) = len
      BY <1>1, <2>2
    <3>3. /\ cell(len + 1) = r
          /\ \A k \in 1 .. len : cell(k) = array[k]
          /\ \A k \in 1 .. N : cell(k) \in {array[j] : j \in 1 .. Len(array)} \cup {r, NoRow}
      BY <1>1, <3>2
    <3>4. \A k \in 1 .. N : cell(k) \in Row \cup {NoRow}
      BY <1>1, <3>2, <3>3 DEF RowsOK
    <3> HIDE DEF N, cell
    <3>5. array' \in Cells /\ Len(array') = N
      BY <3>1, <3>2, <3>4 DEF Cells
    <3> QED
      BY <1>1, <3>1, <3>2, <3>3, <3>5
  <2> QED
    BY <2>1, <2>2
<1>4. Born' = Born \cup {r}
  BY <1>1, <1>2 DEF RowsOK, Born
<1>5. RowsOK'
  <2>1. I' \in [Row -> Nat] /\ \A x \in Born' : I'[x] >= 1
    BY <1>1, <1>2, <1>4 DEF RowsOK, Born
  <2>2. \A k \in 1 .. Len(array') : array'[k] \in Born' \cup {NoRow}
    BY <1>1, <1>3, <1>4 DEF RowsOK
  <2>3. \A k \in 1 .. len' : array'[k] \in Row
    BY <1>1, <1>2, <1>3 DEF RowsOK
  <2>4. len' \in 0 .. Len(array') /\ unborn' \subseteq Row /\ indexed' \subseteq Born'
    BY <1>1, <1>2, <1>3, <1>4 DEF RowsOK
  <2> QED
    BY <1>3, <2>1, <2>2, <2>3, <2>4 DEF RowsOK
<1>6. HeldOK' /\ PatchOK' /\ HandedOK'
  BY <1>1, <1>2, <1>3, <1>4 DEF HeldOK, PatchOK, HandedOK, RowsOK
<1>7. WalkOK'
  <2> SUFFICES ASSUME Walking PROVE Place'
    BY <1>2 DEF WalkOK, Walking
  <2>1. Place
    BY <1>1 DEF WalkOK
  <2>2. walk.by = "scan" /\ held = NoArray =>
          walk.bound <= Len(array') /\ \A k \in 1 .. walk.bound : array'[k] \in Row
    BY <1>1, <1>3, <2>1 DEF Place, Walk
  <2> QED
    BY <1>2, <1>3, <1>4, <2>1, <2>2 DEF Place, Walk
<1>8. StaysIn' /\ NoneIsMissed'
  BY <1>1, <1>2, <1>3 DEF StaysIn, Contents, NoneIsMissed, Walking
<1> QED
  BY <1>5, <1>6, <1>7, <1>8 DEF Inv, TypeInv

\* The place of a walk after a removal under it, and what is ahead of a scan.
LEMMA RemovalAhead ==
  ASSUME TypeInv, StaysIn, NEW r \in Born, RemoveByRow(r), UNCHANGED <<held, walk>>, Place
  PROVE  /\ Place'
         /\ walk.by = "scan" /\ held = NoArray => Ahead \cap stayed' \subseteq Ahead'
<1>1. /\ RowsOK' /\ Born' = Born /\ Len(array') = Len(array) /\ Len(array) \in Nat
      /\ \A k \in 1 .. Len(array) : array[k] \in Row => array'[k] \in Row
      /\ \A k \in 1 .. Len(array) : array[k] \in stayed' => array'[k] = array[k]
  BY RemoveByRowProperties DEF TypeInv, RowsOK, Cells
<1>2. walk.at \in Int /\ walk.bound \in Nat
  BY DEF Place, Walk
<1>3. Place'
  BY <1>1, <1>2 DEF Place
<1>4. walk.by = "scan" /\ held = NoArray => walk.at >= 1 /\ walk.bound <= Len(array)
  BY DEF Place
<1>5. walk.by = "scan" /\ held = NoArray => Ahead \cap stayed' \subseteq Ahead'
  <2> SUFFICES ASSUME walk.by = "scan", held = NoArray,
                      NEW k \in walk.at .. walk.bound, array[k] \in stayed'
               PROVE  \E j \in walk.at .. walk.bound : array'[j] = array[k]
    BY DEF Ahead
  <2>1. k \in 1 .. Len(array)
    BY <1>1, <1>2, <1>4
  <2> QED
    BY <1>1, <2>1
<1> QED
  BY <1>3, <1>5

LEMMA RemoveNext ==
  ASSUME Inv, NEW r \in Row, Remove(r)
  PROVE  Inv'
<1>1. /\ TypeInv /\ StaysIn /\ NoneIsMissed /\ RemoveByRow(r)
      /\ UNCHANGED <<patching, walk, held, handed, inserted>>
  BY DEF Inv, Remove
<1>2. r \in Born
  <2>1. PICK k \in 1 .. len : r = array[k]
    BY DEF Remove, Contents
  <2>2. len \in 0 .. Len(array) /\ Len(array) \in Nat /\ array[k] \in Row
    BY <1>1 DEF TypeInv, RowsOK, Cells
  <2> QED
    BY <1>1, <2>1, <2>2, TraverseAssumption DEF TypeInv, RowsOK
<1>3. RowsOK' /\ StaysIn' /\ Born' = Born /\ stayed' \subseteq stayed
  BY <1>1, <1>2, RemoveByRowProperties DEF TypeInv
<1>4. HeldOK' /\ PatchOK' /\ HandedOK'
  BY <1>1, <1>3 DEF TypeInv, HeldOK, PatchOK, HandedOK
<1>5. Walking' = Walking
  BY <1>1 DEF Walking
<1>6. WalkOK'
  BY <1>1, <1>2, <1>5, RemovalAhead DEF TypeInv, WalkOK
<1>7. NoneIsMissed'
  <2> SUFFICES ASSUME ~inserted, Walking PROVE held = NoArray /\ ScansAll' /\ LooksUp'
    BY <1>1, <1>5 DEF NoneIsMissed
  <2>1. held = NoArray /\ ScansAll /\ LooksUp /\ Place
    BY <1>1 DEF NoneIsMissed, TypeInv, WalkOK
  <2>2. walk.by = "scan" => Ahead \cap stayed' \subseteq Ahead'
    BY <1>1, <1>2, <2>1, RemovalAhead
  <2>3. ScansAll'
    BY <1>1, <1>3, <2>1, <2>2 DEF ScansAll
  <2>4. LooksUp'
    BY <1>1, <1>3, <2>1, <2>2 DEF LooksUp
  <2> QED
    BY <2>1, <2>3, <2>4
<1> QED
  BY <1>3, <1>4, <1>6, <1>7 DEF Inv, TypeInv

\* A patch changes the index only, between two steps of a get.
LEMMA PatchNext ==
  ASSUME Inv, Reindex \/ \E r \in Row : Unindex(r)
  PROVE  Inv'
<1>1. /\ RowsOK /\ HeldOK /\ PatchOK /\ HandedOK /\ WalkOK /\ StaysIn /\ NoneIsMissed
      /\ UNCHANGED <<array, len, I, unborn, walk, held, handed, stayed, inserted>>
  BY DEF Inv, TypeInv, Reindex, Unindex, history
<1>2. indexed' \subseteq Born /\ patching' \in Born \cup {NoRow}
  <2>1. CASE Reindex
    BY <1>1, <2>1 DEF Reindex, RowsOK, PatchOK
  <2>2. ASSUME NEW r \in Row, Unindex(r)
        PROVE  indexed' \subseteq Born /\ patching' \in Born \cup {NoRow}
    <3>1. PICK k \in 1 .. len : r = array[k]
      BY <2>2 DEF Unindex, Contents
    <3>2. len \in 0 .. Len(array) /\ Len(array) \in Nat
      BY <1>1 DEF RowsOK, Cells
    <3>3. r \in Born
      BY <1>1, <3>1, <3>2, TraverseAssumption DEF RowsOK
    <3> QED
      BY <1>1, <2>2, <3>3 DEF Unindex, RowsOK
  <2> QED
    BY <2>1, <2>2
<1>3. RowsOK' /\ HeldOK' /\ PatchOK' /\ HandedOK' /\ WalkOK'
  BY <1>1, <1>2 DEF RowsOK, HeldOK, PatchOK, HandedOK, WalkOK, Walking, Place, Born
<1>4. StaysIn' /\ NoneIsMissed'
  BY <1>1 DEF StaysIn, Contents, NoneIsMissed, Walking, ScansAll, LooksUp, Ahead
<1> QED
  BY <1>3, <1>4 DEF Inv, TypeInv

-----------------------------------------------------------------------------
\* The steps of the walk itself change no row, but for a removal.
LEMMA RowsKept ==
  ASSUME Inv, UNCHANGED <<rows, patching, inserted>>
  PROVE  /\ RowsOK' /\ PatchOK' /\ UNCHANGED <<array, len, unborn>> /\ Born' = Born
         /\ (stayed' = stayed \/ stayed' \subseteq Contents => StaysIn')
<1>1. RowsOK' /\ PatchOK' /\ Born' = Born
  BY DEF Inv, TypeInv, RowsOK, PatchOK, Born, rows
<1>2. stayed' = stayed \/ stayed' \subseteq Contents => StaysIn'
  BY DEF Inv, StaysIn, Contents, rows
<1> QED
  BY <1>1, <1>2 DEF rows

LEMMA StartNext ==
  ASSUME Inv, NEW q \in Request, Start(q)
  PROVE  Inv'
<1>1. /\ UNCHANGED <<rows, patching, inserted>> /\ held' = NoArray /\ handed' = << >>
      /\ stayed' = Contents /\ UNCHANGED <<array, len, indexed>>
      /\ walk' = [request |-> q, by |-> q.by, at |-> First(q),
                  bound |-> CASE q.by = "scan" -> len
                              [] q.by = "map" -> IF q.from \in indexed THEN 1 ELSE 0
                              [] q.by = "btree" -> 0,
                  skip |-> q.skip, limit |-> q.limit]
  BY DEF Start, rows
<1>2. RowsOK' /\ PatchOK' /\ Born' = Born /\ StaysIn'
  BY <1>1, RowsKept
<1>3. HeldOK' /\ HandedOK'
  BY <1>1 DEF HeldOK, HandedOK
<1>4. q \in [op : {"find", "remove", "get"}, by : {"scan", "btree", "map"}, reverse : BOOLEAN,
             from : Row \cup {NoRow}, to : Row \cup {NoRow},
             filter : SUBSET Row, fails : SUBSET Row, skip : Nat, limit : Nat \cup {All}]
      /\ (q.op = "get" => q.by = "map" /\ q.filter = {q.from} /\ q.skip = 0 /\ q.limit = 1)
  BY TraverseAssumption
<1>5. /\ len \in Nat /\ len <= Len(array) /\ \A k \in 1 .. len : array[k] \in Row
      /\ indexed \subseteq Born /\ indexed \subseteq Row
  <2>1. len \in 0 .. Len(array) /\ Len(array) \in Nat
    BY DEF Inv, TypeInv, RowsOK, Cells
  <2> QED
    BY <2>1 DEF Inv, TypeInv, RowsOK, Born
<1>6. First(q) \in Int /\ (q.by # "btree" => First(q) = 1)
  <2>1. ASSUME NEW S \in SUBSET Row PROVE Cardinality(S) \in Nat
    BY RowsFinite, FS_CardinalityType
  <2>2. /\ Cardinality(indexed) \in Nat
        /\ UpTo(q.to) \in Nat /\ Below(q.from) \in Nat
    BY <1>5, <2>1 DEF UpTo, Below
  <2> QED
    BY <2>2 DEF First
<1>7. /\ walk'.request = q /\ walk'.by = q.by /\ walk'.at = First(q)
      /\ walk'.skip = q.skip /\ walk'.limit = q.limit
      /\ (q.by = "scan" => walk'.bound = len)
      /\ (q.by = "map" => walk'.bound = IF q.from \in indexed THEN 1 ELSE 0)
      /\ (q.by = "btree" => walk'.bound = 0)
  BY <1>1, <1>4
<1>8. walk' \in Walk
  <2>1. walk'.bound \in Nat
    BY <1>4, <1>5, <1>7
  <2> QED
    BY <1>1, <1>4, <1>6, <1>7, <2>1 DEF Walk
<1>9. WalkOK'
  BY <1>1, <1>2, <1>4, <1>5, <1>6, <1>7, <1>8 DEF WalkOK, Place
<1>10. NoneIsMissed'
  <2>1. q.by = "scan" => Ahead' = Contents
    BY <1>1, <1>6, <1>7 DEF Ahead, Contents
  <2>2. ScansAll' /\ LooksUp'
    BY <1>1, <1>4, <1>7, <2>1 DEF ScansAll, LooksUp
  <2> QED
    BY <1>1, <2>2 DEF NoneIsMissed
<1> QED
  BY <1>2, <1>3, <1>9, <1>10 DEF Inv, TypeInv

LEMMA FinishNext ==
  ASSUME Inv, Finish
  PROVE  Inv'
<1>1. /\ UNCHANGED <<rows, patching, inserted>> /\ held' = NoArray /\ handed' = << >>
      /\ stayed' = {} /\ walk' = Idle
  BY DEF Finish
<1>2. RowsOK' /\ PatchOK' /\ StaysIn'
  BY <1>1, RowsKept
<1> QED
  BY <1>1, <1>2 DEF Inv, TypeInv, HeldOK, HandedOK, WalkOK, NoneIsMissed, Walking

\* A get that has missed the index scans all of Rows.
LEMMA FallThroughNext ==
  ASSUME Inv, FallThrough
  PROVE  Inv'
<1>1. /\ UNCHANGED <<rows, patching, inserted, handed, stayed, array, len>> /\ held' = NoArray
      /\ Walking /\ walk.request.op = "get" /\ walk.by = "map" /\ walk.limit # 0
  BY DEF FallThrough, Misses, Getting, history, rows
<1>2. RowsOK' /\ PatchOK' /\ Born' = Born /\ StaysIn' /\ StaysIn
  BY <1>1, RowsKept DEF Inv
<1>3. HeldOK' /\ HandedOK'
  BY <1>1 DEF HeldOK, HandedOK, Inv, TypeInv
<1>4. Place
  BY <1>1 DEF Inv, TypeInv, WalkOK
<1>5. len \in Nat /\ len <= Len(array) /\ \A k \in 1 .. len : array[k] \in Row
  <2>1. len \in 0 .. Len(array) /\ Len(array) \in Nat
    BY DEF Inv, TypeInv, RowsOK, Cells
  <2> QED
    BY <2>1 DEF Inv, TypeInv, RowsOK
<1>6. /\ walk' \in Walk
      /\ walk'.request = walk.request /\ walk'.by = "scan" /\ walk'.at = 1 /\ walk'.bound = len
      /\ walk'.skip = walk.skip /\ walk'.limit = walk.limit
  <2>1. walk' = [walk EXCEPT !.by = "scan", !.at = 1, !.bound = len]
    BY DEF FallThrough
  <2>2. walk \in Walk
    BY <1>4 DEF Place
  <2>3. walk' = [request |-> walk.request, by |-> "scan", at |-> 1, bound |-> len,
                 skip |-> walk.skip, limit |-> walk.limit]
    BY <2>1, <2>2 DEF Walk
  <2> QED
    BY <1>5, <2>2, <2>3 DEF Walk
<1>7. WalkOK'
  <2>1. walk'.skip <= walk'.request.skip
    BY <1>4, <1>6 DEF Place
  <2>2. walk'.bound <= Len(array') /\ \A k \in 1 .. walk'.bound : array'[k] \in Row
    BY <1>1, <1>5, <1>6
  <2>3. walk'.at >= 1 /\ walk'.by # "map" /\ held' = NoArray /\ walk'.by = "scan"
    BY <1>1, <1>6
  <2> QED
    BY <1>6, <2>1, <2>2, <2>3 DEF WalkOK, Place
<1>8. NoneIsMissed'
  <2>1. Ahead' = Contents
    BY <1>1, <1>6 DEF Ahead, Contents
  <2>2. ScansAll'
    BY <1>1, <1>6 DEF ScansAll
  <2>3. LooksUp => LooksUp'
    BY <1>1, <1>2, <1>6, <2>1 DEF LooksUp, StaysIn
  <2> QED
    BY <1>1, <2>2, <2>3 DEF NoneIsMissed, Inv
<1> QED
  BY <1>2, <1>3, <1>7, <1>8 DEF Inv, TypeInv

\* A step of the loop: the walk is one place further.
Advances(s, l) == walk' = [walk EXCEPT !.at = Advanced, !.skip = s, !.limit = l]

LEMMA AdvancedWalk ==
  ASSUME Place, NEW s \in 0 .. walk.skip, NEW l \in Nat \cup {All}, Advances(s, l)
  PROVE  /\ walk' \in Walk /\ walk'.skip <= walk'.request.skip
         /\ walk'.request = walk.request /\ walk'.by = walk.by /\ walk'.bound = walk.bound
         /\ walk'.skip = s /\ walk'.limit = l
         /\ walk.by # "btree" => walk'.at = walk.at + 1 /\ walk'.at >= 1
<1>1. /\ walk \in Walk /\ walk.at \in Int /\ walk.skip \in Nat /\ walk.skip <= walk.request.skip
      /\ walk.request \in Request
  BY DEF Place, Walk
<1>2. walk.request.skip \in Nat
  BY <1>1, TraverseAssumption
<1>3. Advanced \in Int /\ (walk.by # "btree" => Advanced = walk.at + 1)
  BY <1>1 DEF Advanced
<1>4. s \in Nat /\ s <= walk.request.skip
  BY <1>1, <1>2
<1>5. /\ walk' \in Walk /\ walk'.at = Advanced
      /\ walk'.request = walk.request /\ walk'.by = walk.by /\ walk'.bound = walk.bound
      /\ walk'.skip = s /\ walk'.limit = l
  BY <1>1, <1>3, <1>4 DEF Advances, Walk
<1>6. walk.by # "btree" => walk.at >= 1
  BY DEF Place
<1> QED
  BY <1>1, <1>3, <1>4, <1>5, <1>6

\* What is ahead of a scan is its current row and what is ahead of the next step.
LEMMA AheadAdvances ==
  ASSUME TypeInv, Looping, held = NoArray, walk.by = "scan",
         walk'.at = walk.at + 1, walk'.bound = walk.bound
  PROVE  Ahead \subseteq {Current} \cup {array[k] : k \in walk'.at .. walk'.bound}
<1>1. Current = array[walk.at] /\ walk.at \in Int /\ walk.bound \in Nat
  <2>1. Place /\ Current # NoRow
    BY CurrentBorn, TraverseAssumption DEF Born
  <2> QED
    BY <2>1 DEF Current, Scanned, Place, Walk
<1> QED
  BY <1>1 DEF Ahead

\* The loop goes on without a removal: handed has the row, or it is not one
\* that the request asks for.
LEMMA LoopKeeps ==
  ASSUME Inv, Looping, NEW s \in 0 .. walk.skip, NEW l \in Nat \cup {All}, Advances(s, l),
         UNCHANGED <<rows, patching, held, history>>,
         \/ handed' = handed /\ l = walk.limit /\ Current \notin walk.request.filter
         \/ handed' = handed /\ l = walk.limit /\ walk.request.skip # 0
         \/ handed' = Append(handed, Current) /\ l = Left /\ Current \in walk.request.filter
  PROVE  Inv'
<1>1. /\ TypeInv /\ StaysIn /\ NoneIsMissed /\ Walking
      /\ UNCHANGED <<array, patching, held, stayed, inserted>>
  BY DEF Inv, Looping, history, rows
<1>2. RowsOK' /\ PatchOK' /\ Born' = Born /\ StaysIn'
  BY <1>1, RowsKept
<1>3. Place /\ Current \in Born /\ Current \in Row /\ walk.limit # 0
  BY <1>1, CurrentBorn DEF Born
<1>4. /\ walk' \in Walk /\ walk'.skip <= walk'.request.skip
      /\ walk'.request = walk.request /\ walk'.by = walk.by /\ walk'.bound = walk.bound
      /\ walk'.skip = s /\ walk'.limit = l
      /\ walk.by # "btree" => walk'.at = walk.at + 1 /\ walk'.at >= 1
  BY <1>3, AdvancedWalk
<1>5. HeldOK'
  BY <1>1, <1>2 DEF TypeInv, HeldOK
<1>6. HandedOK' /\ ToSet(handed) \subseteq ToSet(handed')
      /\ (handed' = Append(handed, Current) => Current \in ToSet(handed'))
  <2>1. handed \in Seq(Row)
    BY <1>1 DEF TypeInv, HandedOK
  <2>2. CASE handed' = handed
    BY <2>1, <2>2 DEF HandedOK, ToSet
  <2>3. CASE handed' = Append(handed, Current)
    <3>1. /\ handed' \in Seq(Row) /\ Len(handed') = Len(handed) + 1
          /\ handed'[Len(handed) + 1] = Current
          /\ \A k \in 1 .. Len(handed) : handed'[k] = handed[k]
      BY <1>3, <2>1, <2>3
    <3>2. DOMAIN handed = 1 .. Len(handed) /\ DOMAIN handed' = 1 .. Len(handed')
          /\ Len(handed) \in Nat
      BY <2>1, <3>1
    <3> QED
      BY <3>1, <3>2 DEF HandedOK, ToSet
  <2> QED
    BY <2>2, <2>3
<1>7. WalkOK'
  BY <1>1, <1>2, <1>3, <1>4 DEF WalkOK, Place
<1>8. NoneIsMissed'
  <2> SUFFICES ASSUME ~inserted PROVE held = NoArray /\ ScansAll' /\ LooksUp'
    BY <1>1 DEF NoneIsMissed
  <2>1. held = NoArray /\ ScansAll /\ LooksUp
    BY <1>1 DEF NoneIsMissed
  <2>2. walk.by = "scan" => Ahead \subseteq {Current} \cup Ahead'
    BY <1>1, <1>4, <2>1, AheadAdvances DEF Ahead
  <2>3. walk.limit \in Nat \cup {All} /\ (l = All /\ l = Left => walk.limit = All)
    BY <1>3 DEF Place, Walk, Left, All
  <2>4. ScansAll'
    <3> SUFFICES ASSUME walk.by = "scan", walk.request.op # "get", l = All, walk.request.skip = 0
                 PROVE  stayed \cap walk.request.filter \subseteq ToSet(handed') \cup Ahead'
      BY <1>1, <1>4 DEF ScansAll
    <3>1. walk.limit = All
      BY <2>3
    <3>2. stayed \cap walk.request.filter \subseteq ToSet(handed) \cup {Current} \cup Ahead'
      BY <2>1, <2>2, <3>1 DEF ScansAll
    <3> QED
      BY <1>6, <3>2
  <2>5. LooksUp'
    <3> SUFFICES ASSUME walk.request.op = "get"
                 PROVE  /\ l \in {0, 1} /\ s = 0
                        /\ l = 0 => walk.request.from \in ToSet(handed')
                        /\ l = 1 /\ walk.by = "scan" =>
                             stayed \cap walk.request.filter \subseteq Ahead'
      BY <1>1, <1>4 DEF LooksUp
    <3>1. walk.request.filter = {walk.request.from} /\ walk.request.skip = 0
      BY <1>3, TraverseAssumption DEF Place, Walk
    <3>2. walk.limit = 1 /\ walk.skip = 0 /\ s = 0
      BY <1>3, <2>1 DEF LooksUp
    <3>3. Left = 0
      BY <3>2 DEF Left, All
    <3>4. walk.by = "scan" => stayed \cap walk.request.filter \subseteq {Current} \cup Ahead'
      BY <2>1, <2>2, <3>2 DEF LooksUp
    <3> QED
      BY <1>6, <3>1, <3>2, <3>3, <3>4
  <2> QED
    BY <2>1, <2>4, <2>5
<1> QED
  BY <1>2, <1>5, <1>6, <1>7, <1>8 DEF Inv, TypeInv

LEMMA LoopNext ==
  ASSUME Inv, Pass \/ Skip \/ Find
  PROVE  Inv'
<1>1. Looping /\ UNCHANGED <<rows, patching, held, history>>
  BY DEF Pass, Skip, Find, Chosen
<1>2. Place /\ walk.limit # 0
  BY <1>1, CurrentBorn DEF Inv
<1>3. /\ walk \in Walk /\ walk.skip \in Nat /\ walk.limit \in Nat \cup {All}
      /\ walk.request.skip \in Nat /\ walk.skip <= walk.request.skip
  <2>1. walk \in Walk /\ walk.skip <= walk.request.skip
    BY <1>2 DEF Place
  <2> QED
    BY <2>1, TraverseAssumption DEF Walk
<1>4. CASE Pass
  <2>1. Advances(walk.skip, walk.limit)
    BY <1>3, <1>4 DEF Pass, Advances, Walk
  <2> QED
    BY <1>1, <1>3, <1>4, <2>1, LoopKeeps DEF Pass
<1>5. CASE Skip
  <2>1. Advances(walk.skip - 1, walk.limit) /\ walk.skip > 0
    BY <1>3, <1>5 DEF Skip, Advances, Walk
  <2>2. walk.skip - 1 \in 0 .. walk.skip /\ walk.request.skip # 0
    BY <1>3, <2>1
  <2> QED
    BY <1>1, <1>3, <1>5, <2>1, <2>2, LoopKeeps DEF Skip
<1>6. CASE Find
  <2>1. Advances(walk.skip, Left)
    BY <1>3, <1>6 DEF Find, Advances, Walk
  <2>2. Left \in Nat \cup {All} /\ walk.skip \in 0 .. walk.skip
    BY <1>2, <1>3 DEF Left
  <2> QED
    BY <1>1, <1>6, <2>1, <2>2, LoopKeeps DEF Find, Chosen
<1> QED
  BY <1>4, <1>5, <1>6

\* A removal that fails ends the walk.
LEMMA RemoveFailsNext ==
  ASSUME Inv, RemoveFails
  PROVE  Inv'
<1>1. /\ UNCHANGED <<rows, patching, held, handed, stayed, inserted, array, len>>
      /\ Walking /\ walk.request.op = "remove" /\ walk' = [walk EXCEPT !.limit = 0]
  BY DEF RemoveFails, Chosen, Looping, history, rows
<1>2. RowsOK' /\ PatchOK' /\ Born' = Born /\ StaysIn'
  BY <1>1, RowsKept
<1>3. HeldOK' /\ HandedOK'
  BY <1>1, <1>2 DEF HeldOK, HandedOK, Inv, TypeInv
<1>4. Place
  BY <1>1 DEF Inv, TypeInv, WalkOK
<1>5. walk' \in Walk /\ walk'.limit = 0
      /\ walk'.request = walk.request /\ walk'.by = walk.by /\ walk'.at = walk.at
      /\ walk'.bound = walk.bound /\ walk'.skip = walk.skip
  <2>1. walk \in Walk
    BY <1>4 DEF Place
  <2> QED
    BY <1>1, <2>1 DEF Walk
<1>6. WalkOK'
  BY <1>1, <1>2, <1>4, <1>5 DEF WalkOK, Place
<1>7. NoneIsMissed'
  BY <1>1, <1>5 DEF NoneIsMissed, Inv, ScansAll, LooksUp, All
<1> QED
  BY <1>2, <1>3, <1>6, <1>7 DEF Inv, TypeInv

\* A walk that removes what it walks over.
LEMMA RemoveCurrentNext ==
  ASSUME Inv, RemoveCurrent
  PROVE  Inv'
<1>1. /\ TypeInv /\ StaysIn /\ NoneIsMissed /\ Looping /\ Walking
      /\ walk.request.op = "remove" /\ walk.skip = 0 /\ RemoveByRow(Current)
      /\ handed' = Append(handed, Current) /\ UNCHANGED <<patching, held, inserted>>
      /\ walk' = [walk EXCEPT !.at = Advanced, !.limit = Left]
  BY DEF Inv, RemoveCurrent, Chosen, Looping
<1>2. Place /\ Current \in Born /\ Current \in Row /\ walk.limit # 0
  BY <1>1, CurrentBorn DEF Born
<1>3. /\ RowsOK' /\ StaysIn' /\ Born' = Born /\ stayed' \subseteq stayed
      /\ Len(array') = Len(array) /\ Len(array) \in Nat
      /\ \A k \in 1 .. Len(array) : array[k] \in Row => array'[k] \in Row
      /\ \A k \in 1 .. Len(array) : array[k] \in stayed' => array'[k] = array[k]
  BY <1>1, <1>2, RemoveByRowProperties DEF TypeInv, RowsOK, Cells
<1>4. /\ walk' \in Walk /\ walk'.skip <= walk'.request.skip
      /\ walk'.request = walk.request /\ walk'.by = walk.by /\ walk'.bound = walk.bound
      /\ walk'.limit = Left
      /\ walk.by # "btree" => walk'.at = walk.at + 1 /\ walk'.at >= 1
  <2>1. walk \in Walk /\ walk.limit \in Nat \cup {All}
    BY <1>2 DEF Place, Walk
  <2>2. Advances(0, Left)
    BY <1>1, <2>1 DEF Advances, Walk
  <2>3. Left \in Nat \cup {All} /\ 0 \in 0 .. walk.skip
    BY <1>1, <1>2, <2>1 DEF Left
  <2> QED
    BY <1>2, <2>2, <2>3, AdvancedWalk
<1>5. HeldOK' /\ PatchOK'
  BY <1>1, <1>3 DEF TypeInv, HeldOK, PatchOK
<1>6. HandedOK' /\ ToSet(handed) \cup {Current} \subseteq ToSet(handed')
  <2>1. handed \in Seq(Row)
    BY <1>1 DEF TypeInv, HandedOK
  <2>2. /\ handed' \in Seq(Row) /\ Len(handed') = Len(handed) + 1
        /\ handed'[Len(handed) + 1] = Current
        /\ \A k \in 1 .. Len(handed) : handed'[k] = handed[k]
    BY <1>1, <1>2, <2>1
  <2>3. DOMAIN handed = 1 .. Len(handed) /\ DOMAIN handed' = 1 .. Len(handed')
        /\ Len(handed) \in Nat
    BY <2>1, <2>2
  <2> QED
    BY <2>2, <2>3 DEF HandedOK, ToSet
<1>7. WalkOK'
  <2>1. walk.bound \in Nat
    BY <1>2 DEF Place, Walk
  <2>2. walk.by = "scan" /\ held = NoArray =>
          walk.bound <= Len(array') /\ \A k \in 1 .. walk.bound : array'[k] \in Row
    BY <1>2, <1>3, <2>1 DEF Place
  <2> QED
    BY <1>1, <1>2, <1>3, <1>4, <2>2 DEF WalkOK, Place
<1>8. NoneIsMissed'
  <2> SUFFICES ASSUME ~inserted PROVE held = NoArray /\ ScansAll' /\ LooksUp'
    BY <1>1 DEF NoneIsMissed
  <2>1. held = NoArray /\ ScansAll
    BY <1>1 DEF NoneIsMissed
  <2>2. LooksUp'
    BY <1>1, <1>4 DEF LooksUp
  <2>3. ScansAll'
    <3> SUFFICES ASSUME walk.by = "scan", Left = All, walk.request.skip = 0,
                        NEW x \in stayed' \cap walk.request.filter
                 PROVE  x \in ToSet(handed') \cup Ahead'
      BY <1>1, <1>4 DEF ScansAll
    <3>1. walk.limit = All
      BY <1>2 DEF Place, Walk, Left, All
    <3>2. x \in ToSet(handed) \cup Ahead
      BY <1>1, <1>3, <2>1, <3>1 DEF ScansAll
    <3>3. Ahead \subseteq {Current} \cup {array[k] : k \in walk'.at .. walk'.bound}
      BY <1>1, <1>4, <2>1, AheadAdvances
    <3>4. ASSUME NEW k \in walk'.at .. walk'.bound, x = array[k]
          PROVE  x \in Ahead'
      <4>1. k \in 1 .. Len(array)
        BY <1>2, <1>3, <1>4, <2>1 DEF Place, Walk
      <4> QED
        BY <1>3, <3>4, <4>1 DEF Ahead
    <3> QED
      BY <1>6, <3>2, <3>3, <3>4
  <2> QED
    BY <2>1, <2>2, <2>3
<1> QED
  BY <1>3, <1>5, <1>6, <1>7, <1>8 DEF Inv, TypeInv

LEMMA InvNext ==
  ASSUME Inv, [Next]_vars
  PROVE  Inv'
<1>1. CASE Next
  BY <1>1, InsertNext, RemoveNext, PatchNext, StartNext, FallThroughNext, FinishNext, LoopNext,
     RemoveCurrentNext, RemoveFailsNext DEF Next, Step
<1>2. CASE UNCHANGED vars
  <2>1. UNCHANGED <<rows, array, len, I, indexed, unborn, patching, walk, held, handed, stayed, inserted>>
    BY <1>2 DEF vars, rows, history
  <2> QED
    BY <2>1 DEF Inv, TypeInv, RowsOK, HeldOK, PatchOK, HandedOK, WalkOK, Walking, Place, Born,
                StaysIn, Contents, NoneIsMissed, ScansAll, LooksUp, Ahead
<1> QED
  BY <1>1, <1>2

LEMMA InvariantHolds == Spec => []Inv
<1>1. Inv /\ [Next]_vars => Inv'
  BY InvNext
<1> QED
  BY <1>1, InvInit, PTL DEF Spec

-----------------------------------------------------------------------------
\* Every variable keeps its type: what a walk hands out was inserted once, also
\* when a removal under it has left a stale row in a cell it still reads.
THEOREM SpecTypeOK == Spec => []TypeOK
<1>1. Inv => TypeOK
  <2> SUFFICES ASSUME Inv PROVE TypeOK
    OBVIOUS
  <2>1. RowsOK /\ HeldOK /\ PatchOK /\ HandedOK /\ WalkOK
    BY DEF Inv, TypeInv
  <2>2. len \in 0 .. Len(array) /\ Len(array) \in Nat
    BY <2>1 DEF RowsOK, Cells
  <2>3. Contents \subseteq Row /\ Contents \cap unborn = {}
    BY <2>1, <2>2, TraverseAssumption DEF RowsOK, Born, Contents
  <2>4. Walking => /\ walk.request \in Request
                   /\ walk.skip \in 0 .. walk.request.skip
                   /\ walk.limit \in Nat \cup {All}
    <3> SUFFICES ASSUME Walking
                 PROVE  /\ walk.request \in Request
                        /\ walk.skip \in 0 .. walk.request.skip
                        /\ walk.limit \in Nat \cup {All}
      OBVIOUS
    <3>1. walk \in Walk /\ walk.skip <= walk.request.skip
      BY <2>1 DEF WalkOK, Place
    <3> QED
      BY <3>1, TraverseAssumption DEF Walk
  <2> QED
    BY <2>1, <2>2, <2>3, <2>4
       DEF TypeOK, RowsOK, HeldOK, PatchOK, HandedOK, Born, Walking
<1> QED
  BY <1>1, InvariantHolds, PTL

\* However many rows there are, and whatever other handlers and the walk itself
\* remove meanwhile (removeByRow moves the last row into the hole,
\* collection.go:466-488), a full scan without limit and a look-up of an id miss
\* no row that stays in the collection (0_traverse.go, findRowByID).
THEOREM SpecNothingThatStaysIsMissed == Spec => []NothingThatStaysIsMissed
<1>1. Inv => NothingThatStaysIsMissed
  <2> SUFFICES ASSUME Inv, Over, ~inserted,
                      \/ walk.request.op = "get"
                      \/ /\ walk.by = "scan" /\ Current = NoRow
                         /\ walk.limit = All /\ walk.request.skip = 0
               PROVE  stayed \cap walk.request.filter \subseteq ToSet(handed)
    BY DEF NothingThatStaysIsMissed
  <2>1. /\ Walking /\ ~Misses
        /\ Current = NoRow \/ walk.limit = 0 \/ Current \in walk.request.fails
    BY DEF Over
  <2>2. Place /\ held = NoArray /\ ScansAll /\ LooksUp
    BY <2>1 DEF Inv, TypeInv, WalkOK, NoneIsMissed
  <2>3. walk.by = "scan" /\ Current = NoRow => Ahead = {}
    <3> SUFFICES ASSUME walk.by = "scan", Current = NoRow PROVE walk.at > walk.bound
      BY <2>2 DEF Ahead, Place, Walk
    <3>1. Scanned = NoRow
      BY DEF Current
    <3> QED
      BY <2>2, <3>1, TraverseAssumption DEF Scanned, Place, Walk
  <2>4. CASE walk.request.op = "get"
    <3>1. walk.request.filter = {walk.request.from}
      BY <2>2, <2>4, TraverseAssumption DEF Place, Walk
    <3>2. CASE walk.limit = 0
      BY <2>2, <2>4, <3>1, <3>2 DEF LooksUp
    <3>3. CASE walk.limit # 0
      <4>1. walk.request.fails = {}
        BY <2>2, <2>4, TraverseAssumption DEF Place, Walk
      <4>2. walk.limit = 1 /\ Current = NoRow /\ walk.by = "scan"
        BY <2>1, <2>2, <2>4, <3>3, <4>1 DEF LooksUp, Misses, Getting, Place
      <4> QED
        BY <2>2, <2>3, <2>4, <4>2 DEF LooksUp
    <3> QED
      BY <3>2, <3>3
  <2>5. CASE walk.request.op # "get"
    <3>1. walk.by = "scan" /\ Current = NoRow /\ walk.limit = All /\ walk.request.skip = 0
      BY <2>5
    <3> QED
      BY <2>2, <2>3, <2>5, <3>1 DEF ScansAll
  <2> QED
    BY <2>4, <2>5
<1> QED
  BY <1>1, InvariantHolds, PTL

-----------------------------------------------------------------------------
(***************************************************************************)
(* Requests no other handler interferes with.  The rows a request walks    *)
(* over (source) are numbered; p of them are read.  What the loop has made *)
(* of those is Progress(p), and Reads(p) says that what it reads from here *)
(* on are the others.                                                      *)
(***************************************************************************)
LEMMA Least ==
  ASSUME NEW S, S \subseteq Nat, S # {}
  PROVE  \E x \in S : \A y \in S : x <= y
<1>1. IsWellFoundedOn(OpToRel(<, Nat), Nat)
  BY NatLessThanWellFounded
<1>2. PICK x \in S : \A y \in S : ~ (<<y, x>> \in OpToRel(<, Nat))
  BY <1>1, WFMin
<1>3. \A y \in S : y \in Nat /\ x \in Nat /\ ~ (y < x)
  BY <1>2 DEF OpToRel
<1> QED
  BY <1>3

\* Induction over the places of a sequence.
LEMMA Upwards ==
  ASSUME NEW d \in Nat, NEW S, 0 \in S, \A n \in 0 .. d - 1 : n \in S => n + 1 \in S
  PROVE  0 .. d \subseteq S
<1> SUFFICES ASSUME NEW n \in 0 .. d, n \notin S PROVE FALSE
  OBVIOUS
<1> DEFINE Out == {m \in 0 .. d : m \notin S}
<1>1. Out \subseteq Nat /\ Out # {}
  OBVIOUS
<1> HIDE DEF Out
<1>2. PICK m \in Out : \A k \in Out : m <= k
  BY <1>1, Least
<1> USE DEF Out
<1>3. m \in 0 .. d /\ m \notin S /\ m # 0
  BY <1>2
<1>4. m - 1 \in 0 .. d - 1 /\ m - 1 \notin Out
  BY <1>2, <1>3
<1>5. m - 1 \in S /\ (m - 1) + 1 = m
  BY <1>3, <1>4
<1> QED
  BY <1>3, <1>4, <1>5

\* The recursion of Matching, and that it has a solution.
MatchStep(s, filter, m, k) ==
  IF k = 0 THEN << >> ELSE IF s[k] \in filter THEN Append(m[k - 1], s[k]) ELSE m[k - 1]

LEMMA MatchingExists ==
  ASSUME NEW s, NEW filter, NEW d \in Nat
  PROVE  \E m : m = [k \in 0 .. d |-> MatchStep(s, filter, m, k)]
<1> DEFINE Good == {n \in 0 .. d : \E m : m = [k \in 0 .. n |-> MatchStep(s, filter, m, k)]}
<1>1. 0 \in Good
  <2> DEFINE f == [k \in 0 .. 0 |-> << >>]
  <2>1. f = [k \in 0 .. 0 |-> MatchStep(s, filter, f, k)]
    BY DEF MatchStep
  <2> HIDE DEF f
  <2>2. \E h : h = [k \in 0 .. 0 |-> MatchStep(s, filter, h, k)]
    BY <2>1
  <2> QED
    BY <2>2
<1>2. ASSUME NEW n \in 0 .. d - 1, n \in Good PROVE n + 1 \in Good
  <2>1. PICK f : f = [k \in 0 .. n |-> MatchStep(s, filter, f, k)]
    BY <1>2
  <2> DEFINE g == [k \in 0 .. n + 1 |-> IF k = n + 1 THEN MatchStep(s, filter, f, n + 1) ELSE f[k]]
  <2>2. \A k \in 0 .. n + 1 : g[k] = MatchStep(s, filter, g, k)
    <3> SUFFICES ASSUME NEW k \in 0 .. n + 1 PROVE g[k] = MatchStep(s, filter, g, k)
      OBVIOUS
    <3>1. k # 0 => k - 1 \in 0 .. n /\ g[k - 1] = f[k - 1]
      OBVIOUS
    <3>2. g[k] = MatchStep(s, filter, f, k)
      <4>1. CASE k = n + 1
        BY <4>1
      <4>2. CASE k # n + 1
        <5>1. k \in 0 .. n /\ g[k] = f[k]
          BY <4>2
        <5>2. \A i \in 0 .. n : f[i] = MatchStep(s, filter, f, i)
          BY <2>1
        <5> QED
          BY <5>1, <5>2
      <4> QED
        BY <4>1, <4>2
    <3> HIDE DEF g
    <3> QED
      BY <3>1, <3>2 DEF MatchStep
  <2>3. g = [k \in 0 .. n + 1 |-> MatchStep(s, filter, g, k)]
    BY <2>2
  <2> HIDE DEF g
  <2> QED
    BY <2>3
<1> HIDE DEF Good
<1>3. d \in Good
  BY <1>1, <1>2, Upwards
<1> QED
  BY <1>3 DEF Good

LEMMA MatchingSteps ==
  ASSUME NEW s \in Seq(Row), NEW filter
  PROVE  /\ Matching(s, filter)[0] = << >>
         /\ \A k \in 1 .. Len(s) : Matching(s, filter)[k] =
              IF s[k] \in filter THEN Append(Matching(s, filter)[k - 1], s[k])
                                 ELSE Matching(s, filter)[k - 1]
<1> DEFINE M == Matching(s, filter)
<1>1. Len(s) \in Nat
  OBVIOUS
<1>2. M = [k \in 0 .. Len(s) |-> MatchStep(s, filter, M, k)]
  <2>1. \E m : m = [k \in 0 .. Len(s) |-> MatchStep(s, filter, m, k)]
    BY <1>1, MatchingExists
  <2>2. M = CHOOSE m : m = [k \in 0 .. Len(s) |-> MatchStep(s, filter, m, k)]
    BY DEF Matching, MatchStep
  <2> HIDE DEF M
  <2> QED
    BY <2>1, <2>2
<1> HIDE DEF M
<1>3. M[0] = << >> /\ \A k \in 1 .. Len(s) : M[k] = MatchStep(s, filter, M, k)
  <2>1. \A k \in 0 .. Len(s) : M[k] = MatchStep(s, filter, M, k)
    BY <1>2
  <2> QED
    BY <1>1, <2>1 DEF MatchStep
<1>4. \A k \in 1 .. Len(s) : M[k] = IF s[k] \in filter THEN Append(M[k - 1], s[k]) ELSE M[k - 1]
  BY <1>3 DEF MatchStep
<1> QED
  BY <1>3, <1>4 DEF M

\* The matches are rows of s, and each list of them starts with the earlier ones.
LEMMA MatchingProperties ==
  ASSUME NEW s \in Seq(Row), NEW filter
  PROVE  /\ \A k \in 0 .. Len(s) : Matching(s, filter)[k] \in Seq(Row)
         /\ \A p \in 0 .. Len(s) : \A k \in p .. Len(s) :
              /\ Len(Matching(s, filter)[p]) <= Len(Matching(s, filter)[k])
              /\ \A j \in 1 .. Len(Matching(s, filter)[p]) :
                   Matching(s, filter)[k][j] = Matching(s, filter)[p][j]
         /\ \A p \in 0 .. Len(s) :
              (\A i \in 1 .. p : s[i] \notin filter) => Matching(s, filter)[p] = << >>
<1> DEFINE M == Matching(s, filter)
<1>1. /\ Len(s) \in Nat /\ \A k \in 1 .. Len(s) : s[k] \in Row
      /\ M[0] = << >>
      /\ \A k \in 1 .. Len(s) : M[k] = IF s[k] \in filter THEN Append(M[k - 1], s[k]) ELSE M[k - 1]
  BY MatchingSteps
<1> HIDE DEF M
<1>2. \A k \in 0 .. Len(s) : M[k] \in Seq(Row)
  <2> DEFINE S == {k \in 0 .. Len(s) : M[k] \in Seq(Row)}
  <2>a. << >> \in Seq(Row)
    OBVIOUS
  <2>b. \A t \in Seq(Row), r \in Row : Append(t, r) \in Seq(Row)
    OBVIOUS
  <2>1. 0 \in S
    <3>1. M[0] \in Seq(Row)
      BY <1>1, <2>a, Zenon
    <3>2. 0 \in 0 .. Len(s)
      BY <1>1
    <3> QED
      BY <3>1, <3>2
  <2>2. ASSUME NEW n \in 0 .. Len(s) - 1, n \in S PROVE n + 1 \in S
    <3>1. n + 1 \in 1 .. Len(s) /\ (n + 1) - 1 = n /\ M[n] \in Seq(Row) /\ s[n + 1] \in Row
      BY <1>1, <2>2
    <3>2. M[n + 1] = M[n] \/ M[n + 1] = Append(M[n], s[n + 1])
      BY <1>1, <3>1
    <3>3. M[n + 1] \in Seq(Row)
      BY <2>b, <3>1, <3>2, Zenon
    <3> QED
      BY <3>1, <3>3
  <2> HIDE DEF S
  <2>3. 0 .. Len(s) \subseteq S
    BY <1>1, <2>1, <2>2, Upwards
  <2> QED
    BY <2>3 DEF S
<1>3. ASSUME NEW p \in 0 .. Len(s)
      PROVE  \A k \in p .. Len(s) :
               Len(M[p]) <= Len(M[k]) /\ \A j \in 1 .. Len(M[p]) : M[k][j] = M[p][j]
  <2> DEFINE Starts(k) == Len(M[p]) <= Len(M[k]) /\ \A j \in 1 .. Len(M[p]) : M[k][j] = M[p][j]
             S == {k \in 0 .. Len(s) : k < p \/ Starts(k)}
  <2>1. 0 \in S
    <3>1. M[p] \in Seq(Row) /\ Starts(p)
      BY <1>2
    <3> QED
      BY <1>1, <3>1
  <2>2. ASSUME NEW n \in 0 .. Len(s) - 1, n \in S PROVE n + 1 \in S
    <3>1. n + 1 \in 1 .. Len(s) /\ (n + 1) - 1 = n /\ M[n] \in Seq(Row) /\ M[p] \in Seq(Row)
      BY <1>1, <1>2
    <3>2. M[n + 1] = M[n] \/ M[n + 1] = Append(M[n], s[n + 1])
      BY <1>1, <3>1
    <3>3. CASE Starts(n)
      <4>1. /\ Len(M[n]) <= Len(M[n + 1]) /\ \A j \in 1 .. Len(M[n]) : M[n + 1][j] = M[n][j]
            /\ M[n + 1] \in Seq(Row)
        BY <1>1, <1>2, <3>1, <3>2
      <4>2. Starts(n + 1)
        BY <3>1, <3>3, <4>1
      <4> QED
        BY <3>1, <4>2
    <3>4. CASE n < p
      <4>1. CASE n + 1 < p
        BY <3>1, <4>1
      <4>2. CASE n + 1 = p
        <5>1. Starts(n + 1)
          BY <3>1, <4>2
        <5> QED
          BY <3>1, <5>1
      <4> QED
        BY <3>4, <4>1, <4>2
    <3> QED
      BY <2>2, <3>3, <3>4
  <2> HIDE DEF S, Starts
  <2>3. 0 .. Len(s) \subseteq S
    BY <1>1, <2>1, <2>2, Upwards
  <2> SUFFICES ASSUME NEW k \in p .. Len(s) PROVE Starts(k)
    BY DEF Starts
  <2>4. k \in S /\ ~(k < p)
    BY <1>1, <2>3
  <2> QED
    BY <2>4 DEF S
<1>4. ASSUME NEW p \in 0 .. Len(s), \A i \in 1 .. p : s[i] \notin filter
      PROVE  M[p] = << >>
  <2> DEFINE S == {k \in 0 .. p : M[k] = << >>}
  <2>1. 0 \in S
    BY <1>1
  <2>2. ASSUME NEW n \in 0 .. p - 1, n \in S PROVE n + 1 \in S
    <3>1. n + 1 \in 1 .. p /\ n + 1 \in 1 .. Len(s) /\ (n + 1) - 1 = n /\ M[n] = << >>
      BY <1>1, <2>2
    <3>2. M[n + 1] = M[n]
      BY <1>1, <1>4, <3>1
    <3> QED
      BY <3>1, <3>2
  <2> HIDE DEF S
  <2>3. 0 .. p \subseteq S
    <3>1. p \in Nat
      BY <1>1
    <3> QED
      BY <3>1, <2>1, <2>2, Upwards
  <2> QED
    BY <2>3 DEF S
<1> QED
  BY <1>2, <1>3, <1>4 DEF M

\* The rows of L come first in S.
Initial(L, S) == L \subseteq S /\ \A x \in L, y \in S \ L : x < y

LEMMA RowCardinality ==
  /\ \A S \in SUBSET Row : IsFiniteSet(S) /\ Cardinality(S) \in Nat
  /\ \A S \in SUBSET Row : \A T \in SUBSET S :
       Cardinality(T) <= Cardinality(S) /\ (T # S => Cardinality(T) < Cardinality(S))
  /\ \A S, T \in SUBSET Row : S \cap T = {} =>
       Cardinality(S \cup T) = Cardinality(S) + Cardinality(T)
<1>1. \A S \in SUBSET Row : IsFiniteSet(S) /\ Cardinality(S) \in Nat
  BY RowsFinite, FS_CardinalityType
<1>2. ASSUME NEW S \in SUBSET Row, NEW T \in SUBSET S
      PROVE  Cardinality(T) <= Cardinality(S) /\ (T # S => Cardinality(T) < Cardinality(S))
  <2>1. Cardinality(T) \in Nat /\ Cardinality(S) \in Nat /\ IsFiniteSet(S)
    BY <1>1
  <2>2. Cardinality(T) <= Cardinality(S) /\ (Cardinality(T) = Cardinality(S) => T = S)
    BY <2>1, FS_Subset
  <2> QED
    BY <2>1, <2>2
<1>3. ASSUME NEW S \in SUBSET Row, NEW T \in SUBSET Row, S \cap T = {}
      PROVE  Cardinality(S \cup T) = Cardinality(S) + Cardinality(T)
  <2>1. IsFiniteSet(S) /\ IsFiniteSet(T) /\ Cardinality(S) \in Nat /\ Cardinality(T) \in Nat
    BY <1>1
  <2>2. Cardinality(S \cup T) = Cardinality(S) + Cardinality(T) - Cardinality(S \cap T)
    BY <2>1, FS_Union
  <2>3. Cardinality(S \cap T) = 0
    BY <1>3, FS_EmptySet
  <2> QED
    BY <2>1, <2>2, <2>3
<1> QED
  BY <1>1, <1>2, <1>3

\* The first places are those of the rows that come first.
LEMMA InitialPlaces ==
  ASSUME NEW S, S \subseteq Row, NEW L, Initial(L, S), NEW k \in 1 .. Cardinality(S)
  PROVE  Sorted(S)[k] \in L <=> k <= Cardinality(L)
<1> DEFINE r == Sorted(S)[k]
           T == {x \in S : x < r}
<1>1. r \in S /\ Cardinality(T) = k - 1 /\ r \in Nat /\ \A x \in S : x \in Nat
  BY SortedRank, TraverseAssumption DEF Rank
<1>2. T \subseteq S /\ L \subseteq S /\ S \in SUBSET Row
  BY DEF Initial
<1>3. Cardinality(T) \in Nat /\ Cardinality(L) \in Nat /\ Cardinality(S) \in Nat /\ k \in Nat
  <2> HIDE DEF T
  <2>1. T \in SUBSET Row /\ L \in SUBSET Row
    BY <1>2
  <2> QED
    BY <1>2, <2>1, RowCardinality
<1>4. ASSUME r \in L PROVE k <= Cardinality(L)
  <2>1. T \in SUBSET L /\ T # L
    BY <1>1, <1>4 DEF Initial
  <2> HIDE DEF T
  <2>2. Cardinality(T) < Cardinality(L)
    BY <1>2, <2>1, RowCardinality
  <2> QED
    BY <1>1, <1>3, <2>2
<1>5. ASSUME r \notin L PROVE ~(k <= Cardinality(L))
  <2>1. L \in SUBSET T
    BY <1>1, <1>5 DEF Initial
  <2> HIDE DEF T
  <2>2. Cardinality(L) <= Cardinality(T)
    BY <1>2, <2>1, RowCardinality
  <2> QED
    BY <1>1, <1>3, <2>2
<1> QED
  BY <1>4, <1>5

\* Behind the rows L that come first, the rows R come in their own order.
LEMMA RangeShift ==
  ASSUME NEW S, S \subseteq Row, NEW L, Initial(L, S),
         NEW R, R \subseteq S \ L, Initial(L \cup R, S),
         NEW i \in 1 .. Cardinality(R)
  PROVE  /\ Cardinality(L) + i \in 1 .. Cardinality(S)
         /\ Sorted(S)[Cardinality(L) + i] = Sorted(R)[i]
<1> DEFINE r == Sorted(R)[i]
           T == {x \in S : x < r}
           U == {x \in R : x < r}
<1>1. /\ r \in R /\ Cardinality(U) = i - 1 /\ r \in Nat /\ \A x \in S : x \in Nat
      /\ L \in SUBSET Row /\ R \in SUBSET Row /\ U \in SUBSET Row /\ S \in SUBSET Row
  <2>1. R \subseteq Row
    OBVIOUS
  <2> QED
    BY <2>1, SortedRank, TraverseAssumption DEF Rank, Initial
<1>2. T = L \cup U /\ L \cap U = {}
  <2>1. \A x \in L : x < r
    BY <1>1 DEF Initial
  <2>2. \A x \in T : x \in L \cup R
    <3> SUFFICES ASSUME NEW x \in S, x < r, x \notin L \cup R PROVE FALSE
      OBVIOUS
    <3>1. r < x
      BY <1>1 DEF Initial
    <3> QED
      BY <1>1, <3>1
  <2>3. L \subseteq S
    BY DEF Initial
  <2> QED
    BY <2>1, <2>2, <2>3
<1>3. Rank(S, r) = Cardinality(L) + (i - 1)
  <2>1. Rank(S, r) = Cardinality(T)
    BY DEF Rank
  <2> HIDE DEF T, U
  <2> QED
    BY <1>1, <1>2, <2>1, RowCardinality
<1>4. /\ Cardinality(L) \in Nat /\ Cardinality(R) \in Nat /\ Cardinality(S) \in Nat
      /\ Rank(S, r) \in 0 .. Cardinality(S) - 1
  <2>1. r \in S
    BY <1>1
  <2> HIDE DEF r
  <2> QED
    BY <1>1, <2>1, RowCardinality, SortedRank
<1>5. Cardinality(L) + i \in 1 .. Cardinality(S) /\ Rank(S, r) = (Cardinality(L) + i) - 1
  BY <1>3, <1>4
<1>6. Sorted(S)[Cardinality(L) + i] = r
  <2>1. r \in S
    BY <1>1
  <2> HIDE DEF r
  <2> QED
    BY <1>5, <2>1, SortedRank
<1> QED
  BY <1>5, <1>6

\* A removal at a place leaves what is in the places before it.
LEMMA SortedWithout ==
  ASSUME NEW S, S \subseteq Row, NEW a \in 1 .. Cardinality(S)
  PROVE  LET T == S \ {Sorted(S)[a]} IN
         /\ Cardinality(T) = Cardinality(S) - 1
         /\ \A j \in 1 .. a - 1 : Sorted(T)[j] = Sorted(S)[j]
<1> DEFINE c == Sorted(S)[a]
           T == S \ {c}
           L == {x \in S : x < c}
<1>1. /\ c \in S /\ Cardinality(L) = a - 1 /\ c \in Nat /\ \A x \in S : x \in Nat
      /\ S \in SUBSET Row
  BY SortedRank, TraverseAssumption DEF Rank
<1>2. Cardinality(T) = Cardinality(S) - 1
  <2>1. IsFiniteSet(S)
    BY RowsFinite
  <2> HIDE DEF c
  <2> QED
    BY <1>1, <2>1, FS_RemoveElement
<1>3. /\ Initial(L, S) /\ Initial(L, T) /\ Initial({}, S) /\ Initial({}, T)
      /\ L \subseteq S /\ L \subseteq T /\ T \subseteq Row
  BY <1>1 DEF Initial
<1>4. ASSUME NEW j \in 1 .. a - 1 PROVE Sorted(T)[j] = Sorted(S)[j]
  <2>1. Cardinality({}) = 0 /\ j \in 1 .. Cardinality(L) /\ 0 + j = j
        /\ {} \cup L = L /\ L \subseteq S \ {} /\ L \subseteq T \ {}
    BY <1>1, <1>3, FS_EmptySet
  <2> HIDE DEF L, T, c
  <2>2. Sorted(S)[Cardinality({}) + j] = Sorted(L)[j]
    BY <1>3, <2>1, RangeShift
  <2>3. Sorted(T)[Cardinality({}) + j] = Sorted(L)[j]
    BY <1>3, <2>1, RangeShift
  <2> QED
    BY <2>1, <2>2, <2>3
<1> QED
  BY <1>2, <1>4

-----------------------------------------------------------------------------
\* As long as no other handler interferes, every row is in its place, and the
\* indexes have all rows but the one being patched.
PlacesOK == \A k \in 1 .. len : I[array[k]] = k
Ground ==
  /\ PlacesOK
  /\ indexed = Contents \ {patching}
  /\ patching \in Contents \cup {NoRow}

IsGet == walk.request.op = "get"
LooksInMap == IsGet /\ walk.by = "map"

\* The first p rows of source are read: what the walk reads from here on are
\* the other ones, in this order, and then nothing.
ReadsScan(p) ==
  /\ walk.at = p + 1 /\ walk.bound = Len(source)
  /\ \A i \in p + 1 .. Len(source) :
       array[i] = source[i] /\ source[i] \in Contents /\ I[source[i]] <= i
  /\ \A i, k \in p + 1 .. Len(source) : source[i] = source[k] => i = k
ReadsMap(p) ==
  /\ walk.at = p + 1 /\ walk.bound = Len(source) /\ Len(source) <= 1
  /\ p < Len(source) => source[p + 1] = walk.request.from /\ walk.request.from \in Contents

EndsAt(q, r) ==
  \/ ~q.reverse /\ q.to # NoRow /\ ~(r < q.to)
  \/ q.reverse /\ q.from # NoRow /\ ~(q.from < r)
HasAt(S, q, k, r) == k \in 1 .. Cardinality(S) /\ Sorted(S)[k] = r /\ ~EndsAt(q, r)
NoneAt(S, q, k) == k \in 1 .. Cardinality(S) => EndsAt(q, Sorted(S)[k])
UpFrom(S, q, s, p, at) ==
  /\ \A i \in p + 1 .. Len(s) : HasAt(S, q, at + (i - (p + 1)), s[i])
  /\ NoneAt(S, q, at + (Len(s) - p))
DownFrom(S, q, s, p, at) ==
  /\ \A i \in p + 1 .. Len(s) : HasAt(S, q, at - (i - (p + 1)), s[i])
  /\ NoneAt(S, q, at - (Len(s) - p))
Reads(p) ==
  CASE walk.by = "scan" -> ReadsScan(p)
    [] walk.by = "map" -> ReadsMap(p)
    [] walk.by = "btree" ->
         IF walk.request.reverse THEN DownFrom(indexed, walk.request, source, p, walk.at)
                                 ELSE UpFrom(indexed, walk.request, source, p, walk.at)

\* What the loop has made of the first p rows: n of them match.
Met(p) == Matching(source, walk.request.filter)[p]
Progress(p) ==
  LET q == walk.request
      n == Len(Met(p)) IN
  /\ walk.skip = IF n <= q.skip THEN q.skip - n ELSE 0
  /\ Len(handed) = IF n <= q.skip THEN 0 ELSE n - q.skip
  /\ \A j \in 1 .. Len(handed) : handed[j] = Met(p)[q.skip + j]
  /\ walk.limit = IF q.limit = All THEN All ELSE q.limit - Len(handed)
  /\ q.limit # All => Len(handed) <= q.limit

\* The filter ends in an error on none of the first p rows.
Clean(p) == \A i \in 1 .. p : source[i] \notin walk.request.fails

Follows ==
  \E p \in 0 .. Len(source) :
    /\ Progress(p) /\ Clean(p)
    /\ LooksInMap => walk.limit = 0 \/ p = 0
    /\ ~LooksInMap => walk.limit = 0 \/ Reads(p)

\* A get may fall through to a scan of Rows, which is as it was.
Scannable == Len(source) = len /\ \A i \in 1 .. len : source[i] = array[i]

Following ==
  /\ source \in Seq(Row)
  /\ patching # NoRow => IsGet
  /\ walk.by = walk.request.by \/ IsGet
  /\ Contents = IF walk.request.op = "remove" THEN before \ ToSet(handed) ELSE before
  /\ IsGet => Scannable
  /\ LooksInMap /\ walk.bound = 1 => walk.request.from \in Contents
  /\ Ascending(walk.request) \/ Follows

AloneInv == Alone => Ground /\ (Walking => Following)

LEMMA GroundProperties ==
  ASSUME Inv
  PROVE  /\ len \in Nat /\ Len(array) \in Nat /\ len <= Len(array) /\ array \in Cells
         /\ I \in [Row -> Nat] /\ NoRow \notin Row
         /\ Contents \subseteq Row /\ Contents \cap unborn = {}
         /\ \A k \in 1 .. len : array[k] \in Contents
         /\ Ground => /\ indexed \subseteq Contents /\ indexed \subseteq Row
                      /\ \A k \in 1 .. len : I[array[k]] = k
                      /\ \A r \in Contents : I[r] \in 1 .. len /\ array[I[r]] = r
<1>1. /\ len \in Nat /\ Len(array) \in Nat /\ len <= Len(array) /\ array \in Cells
      /\ I \in [Row -> Nat] /\ NoRow \notin Row
      /\ \A k \in 1 .. len : array[k] \in Row /\ array[k] \notin unborn
  <2>1. RowsOK /\ len \in 0 .. Len(array) /\ array \in Cells
    BY DEF Inv, TypeInv, RowsOK
  <2>2. Len(array) \in Nat
    BY <2>1 DEF Cells
  <2>3. \A k \in 1 .. len : array[k] \in Row /\ array[k] \in Born
    BY <2>1, <2>2, TraverseAssumption DEF RowsOK
  <2> QED
    BY <2>1, <2>2, <2>3, TraverseAssumption DEF RowsOK, Born
<1>2. \A r : r \in Contents <=> \E k \in 1 .. len : array[k] = r
  BY DEF Contents
<1>3. ASSUME Ground
      PROVE  /\ indexed \subseteq Contents
             /\ \A k \in 1 .. len : I[array[k]] = k
             /\ \A r \in Contents : I[r] \in 1 .. len /\ array[I[r]] = r
  <2>1. \A k \in 1 .. len : I[array[k]] = k
    BY <1>3 DEF Ground, PlacesOK
  <2> QED
    BY <1>2, <1>3, <2>1 DEF Ground
<1> QED
  BY <1>1, <1>2, <1>3

\* A removal of a row of the collection removes just this row.
LEMMA RemovesRow ==
  ASSUME Inv, Ground, NEW r \in Contents, r # patching, RemoveByRow(r), UNCHANGED patching
  PROVE  /\ Ground' /\ Contents' = Contents \ {r} /\ indexed' = indexed \ {r}
         /\ I[r] \in 1 .. len
         /\ array' = [array EXCEPT ![I[r]] = array[len]]
         /\ I' = [I EXCEPT ![array[len]] = I[r]]
         /\ I'[array[len]] = I[r]
         /\ \A x \in Row : x # array[len] => I'[x] = I[x]
         /\ \A k \in 1 .. Len(array) : k # I[r] => array'[k] = array[k]
<1>1. /\ array' = [array EXCEPT ![I[r]] = array[len]]
      /\ I' = [I EXCEPT ![array[len]] = I[r]]
      /\ len' = len - 1 /\ indexed' = indexed \ {r}
  BY DEF RemoveByRow, SwapOut
<1> DEFINE i == I[r]
           last == array[len]
<1>2. /\ len \in Nat /\ Len(array) \in Nat /\ len <= Len(array) /\ array \in Seq(Row \cup {NoRow})
      /\ I \in [Row -> Nat] /\ Contents \subseteq Row
      /\ i \in 1 .. len /\ array[i] = r
      /\ \A k \in 1 .. len : array[k] \in Row /\ I[array[k]] = k
  BY GroundProperties DEF Cells
<1>3. last \in Row /\ I[last] = len /\ len >= 1
  <2>1. len \in 1 .. len
    BY <1>2
  <2> QED
    BY <1>2, <2>1
<1> HIDE DEF i, last
<1>4. /\ array' = [array EXCEPT ![i] = last] /\ I' = [I EXCEPT ![last] = i]
  BY <1>1 DEF i, last
<1>5. /\ array'[i] = last /\ \A k \in 1 .. Len(array) : k # i => array'[k] = array[k]
      /\ I'[last] = i /\ \A x \in Row : x # last => I'[x] = I[x]
  BY <1>2, <1>3, <1>4
<1>6. Contents' = Contents \ {r}
  <2>1. ASSUME NEW x \in Contents' PROVE x \in Contents /\ x # r
    <3>1. PICK k \in 1 .. len - 1 : x = array'[k]
      BY <1>1 DEF Contents
    <3>2. CASE k = i
      <4>1. x = array[len] /\ len \in 1 .. len /\ len # i
        BY <1>2, <1>3, <1>5, <3>1, <3>2 DEF last
      <4> QED
        BY <1>2, <4>1 DEF Contents
    <3>3. CASE k # i
      <4>1. x = array[k] /\ k \in 1 .. len /\ I[x] = k
        BY <1>2, <1>5, <3>1, <3>3
      <4>2. x # r
        BY <1>2, <3>3, <4>1 DEF i
      <4> QED
        BY <4>1, <4>2 DEF Contents
    <3> QED
      BY <3>2, <3>3
  <2>2. ASSUME NEW x \in Contents, x # r PROVE x \in Contents'
    <3>1. PICK k \in 1 .. len : x = array[k]
      BY DEF Contents
    <3>2. \E j \in 1 .. len - 1 : x = array'[j]
      <4>1. CASE k = len
        <5>1. x = last /\ i # len
          BY <1>2, <2>2, <3>1, <4>1 DEF last
        <5> QED
          BY <1>2, <1>5, <5>1
      <4>2. CASE k # len
        <5>1. k # i /\ k \in 1 .. Len(array) /\ k \in 1 .. len - 1
          BY <1>2, <2>2, <3>1, <4>2
        <5> QED
          BY <1>5, <3>1, <5>1
      <4> QED
        BY <4>1, <4>2
    <3> QED
      BY <1>1, <3>2 DEF Contents
  <2> QED
    BY <2>1, <2>2
<1>7. PlacesOK'
  <2> SUFFICES ASSUME NEW k \in 1 .. len - 1 PROVE I'[array'[k]] = k
    BY <1>1 DEF PlacesOK
  <2>1. CASE k = i
    BY <1>5, <2>1
  <2>2. CASE k # i
    <3>1. array'[k] = array[k] /\ array[k] \in Row /\ I[array[k]] = k /\ k # len
      BY <1>2, <1>5, <2>2
    <3>2. array[k] # last
      BY <1>3, <3>1
    <3> QED
      BY <1>5, <3>1, <3>2
  <2> QED
    BY <2>1, <2>2
<1>8. Ground'
  BY <1>1, <1>6, <1>7 DEF Ground
<1> QED
  BY <1>1, <1>2, <1>5, <1>6, <1>8 DEF i, last

LEMMA InsertsRow ==
  ASSUME Inv, Ground, NEW r \in Row, Insert(r)
  PROVE  Ground'
<1>1. /\ len' = len + 1 /\ I' = [I EXCEPT ![r] = len + 1] /\ indexed' = indexed \cup {r}
      /\ UNCHANGED patching /\ r \in unborn
  BY DEF Insert
<1>2. /\ len \in Nat /\ Len(array) \in Nat /\ len <= Len(array) /\ array \in Seq(Row \cup {NoRow})
      /\ I \in [Row -> Nat] /\ NoRow \notin Row /\ Contents \subseteq Row /\ r \notin Contents
      /\ \A k \in 1 .. len : array[k] \in Contents /\ I[array[k]] = k
  BY <1>1, GroundProperties DEF Cells
<1>3. array'[len + 1] = r /\ \A k \in 1 .. len : array'[k] = array[k]
  <2>1. CASE len < Len(array)
    <3>1. array' = [array EXCEPT ![len + 1] = r]
      BY <2>1 DEF Insert
    <3> QED
      BY <1>2, <2>1, <3>1
  <2>2. CASE ~(len < Len(array))
    <3> DEFINE N == IF len = 0 THEN 1 ELSE 2 * len
               cell(k) == CASE k <= len -> array[k] [] k = len + 1 -> r [] OTHER -> NoRow
    <3>1. array' = [k \in 1 .. N |-> cell(k)]
      BY <2>2 DEF Insert
    <3>2. N \in Nat /\ len + 1 <= N
      BY <1>2
    <3>3. cell(len + 1) = r /\ \A k \in 1 .. len : cell(k) = array[k]
      BY <1>2
    <3> HIDE DEF N, cell
    <3> QED
      BY <1>2, <3>1, <3>2, <3>3
  <2> QED
    BY <2>1, <2>2
<1>4. Contents' = Contents \cup {r}
  <2>1. \A k \in 1 .. len + 1 : k \in 1 .. len \/ k = len + 1
    BY <1>2
  <2>2. \A k \in 1 .. len : k \in 1 .. len + 1
    BY <1>2
  <2>3. len + 1 \in 1 .. len + 1
    BY <1>2
  <2> QED
    BY <1>1, <1>3, <2>1, <2>2, <2>3 DEF Contents
<1>5. PlacesOK'
  <2> SUFFICES ASSUME NEW k \in 1 .. len + 1 PROVE I'[array'[k]] = k
    BY <1>1 DEF PlacesOK
  <2>1. CASE k = len + 1
    BY <1>1, <1>2, <1>3, <2>1
  <2>2. CASE k # len + 1
    <3>1. k \in 1 .. len
      BY <1>2, <2>2
    <3>2. array'[k] = array[k] /\ array[k] # r /\ array[k] \in Row /\ I[array[k]] = k
      BY <1>2, <1>3, <3>1
    <3> QED
      BY <1>1, <1>2, <3>2
  <2> QED
    BY <2>1, <2>2
<1>6. indexed' = Contents' \ {patching'}
  BY <1>1, <1>2, <1>4 DEF Ground
<1> QED
  BY <1>1, <1>4, <1>5, <1>6 DEF Ground

\* The fields of a walk that is alone.
LEMMA WalkProperties ==
  ASSUME Inv, Walking, ~inserted
  PROVE  /\ Place /\ held = NoArray /\ handed \in Seq(Row) /\ walk \in Walk
         /\ walk.request \in Request /\ walk.at \in Int /\ walk.bound \in Nat
         /\ walk.by \in {"scan", "btree", "map"} /\ walk.skip \in Nat
         /\ walk.limit \in Nat \cup {All}
         /\ walk.request.skip \in Nat /\ walk.request.limit \in Nat \cup {All}
         /\ walk.request.reverse \in BOOLEAN
         /\ walk.request.op \in {"find", "remove", "get"}
         /\ IsGet => /\ walk.request.filter = {walk.request.from} /\ walk.request.skip = 0
                     /\ walk.request.limit = 1 /\ walk.by \in {"map", "scan"}
                     /\ walk.request.fails = {}
<1>1. Place /\ held = NoArray /\ handed \in Seq(Row)
  BY DEF Inv, TypeInv, WalkOK, HandedOK, NoneIsMissed
<1>2. /\ walk \in Walk /\ walk.request \in Request /\ walk.at \in Int /\ walk.bound \in Nat
      /\ walk.by \in {"scan", "btree", "map"} /\ walk.skip \in Nat /\ walk.limit \in Nat \cup {All}
  BY <1>1 DEF Place, Walk
<1>3. /\ walk.request.skip \in Nat /\ walk.request.limit \in Nat \cup {All}
      /\ walk.request.reverse \in BOOLEAN /\ walk.request.op \in {"find", "remove", "get"}
  BY <1>2, TraverseAssumption
<1>4. IsGet => /\ walk.request.filter = {walk.request.from} /\ walk.request.skip = 0
               /\ walk.request.limit = 1 /\ walk.by \in {"map", "scan"}
               /\ walk.request.fails = {}
  BY <1>1, <1>2, TraverseAssumption DEF IsGet, Place
<1> QED
  BY <1>1, <1>2, <1>3, <1>4

\* The entry of a walk over a btree, place by place.
LEMMA EntryProperties ==
  ASSUME Walking
  PROVE  /\ \A r : HasAt(indexed, walk.request, walk.at, r) => Entry = r
         /\ NoneAt(indexed, walk.request, walk.at) => Entry = NoRow
<1>1. walk.at \notin 1 .. Cardinality(indexed) => Entry = NoRow
  BY DEF Entry
<1>2. walk.at \in 1 .. Cardinality(indexed) =>
        Entry = IF EndsAt(walk.request, Sorted(indexed)[walk.at]) THEN NoRow
                ELSE Sorted(indexed)[walk.at]
  BY DEF Entry, EndsAt
<1> QED
  BY <1>1, <1>2 DEF HasAt, NoneAt

\* A walk that still has rows to read is at the first of them.
LEMMA EntriesNow ==
  ASSUME NEW S, NEW q, NEW s \in Seq(Row), NEW p \in 0 .. Len(s), NEW at \in Int,
         UpFrom(S, q, s, p, at) \/ DownFrom(S, q, s, p, at)
  PROVE  /\ p < Len(s) => HasAt(S, q, at, s[p + 1])
         /\ p = Len(s) => NoneAt(S, q, at)
<1>1. Len(s) \in Nat /\ p \in Nat
  OBVIOUS
<1>2. p < Len(s) => p + 1 \in p + 1 .. Len(s)
  BY <1>1
<1>3. /\ at + ((p + 1) - (p + 1)) = at /\ at - ((p + 1) - (p + 1)) = at
      /\ p = Len(s) => at + (Len(s) - p) = at /\ at - (Len(s) - p) = at
  BY <1>1
<1>4. CASE UpFrom(S, q, s, p, at)
  BY <1>2, <1>3, <1>4 DEF UpFrom
<1>5. CASE DownFrom(S, q, s, p, at)
  BY <1>2, <1>3, <1>5 DEF DownFrom
<1> QED
  BY <1>4, <1>5

\* It goes on to the others, also when it takes out, downwards, what it is at.
LEMMA EntriesNext ==
  ASSUME NEW S, S \subseteq Row, NEW q, NEW s \in Seq(Row),
         NEW p \in 0 .. Len(s), p < Len(s), NEW at \in Int
  PROVE  /\ UpFrom(S, q, s, p, at) => UpFrom(S, q, s, p + 1, at + 1)
         /\ DownFrom(S, q, s, p, at) => /\ DownFrom(S, q, s, p + 1, at - 1)
                                        /\ DownFrom(S \ {s[p + 1]}, q, s, p + 1, at - 1)
<1>1. Len(s) \in Nat /\ p \in Nat /\ p + 1 \in p + 1 .. Len(s)
  OBVIOUS
<1>2. \A i \in (p + 1) + 1 .. Len(s) :
        /\ i \in p + 1 .. Len(s)
        /\ (at + 1) + (i - ((p + 1) + 1)) = at + (i - (p + 1))
        /\ (at - 1) - (i - ((p + 1) + 1)) = at - (i - (p + 1))
        /\ at - (i - (p + 1)) < at
  BY <1>1
<1>3. /\ (at + 1) + (Len(s) - (p + 1)) = at + (Len(s) - p)
      /\ (at - 1) - (Len(s) - (p + 1)) = at - (Len(s) - p)
      /\ at - (Len(s) - p) < at
  BY <1>1
<1>4. UpFrom(S, q, s, p, at) => UpFrom(S, q, s, p + 1, at + 1)
  BY <1>2, <1>3 DEF UpFrom
<1>5. ASSUME DownFrom(S, q, s, p, at)
      PROVE  /\ DownFrom(S, q, s, p + 1, at - 1)
             /\ DownFrom(S \ {s[p + 1]}, q, s, p + 1, at - 1)
  <2>1. DownFrom(S, q, s, p + 1, at - 1)
    BY <1>2, <1>3, <1>5 DEF DownFrom
  <2> DEFINE T == S \ {s[p + 1]}
  <2>2. at \in 1 .. Cardinality(S) /\ Sorted(S)[at] = s[p + 1]
    BY <1>5, EntriesNow DEF HasAt
  <2>3. Cardinality(S) \in Nat
    BY RowCardinality
  <2>4. /\ Cardinality(T) = Cardinality(S) - 1
        /\ \A j \in 1 .. at - 1 : Sorted(T)[j] = Sorted(S)[j]
    BY <2>2, SortedWithout
  <2> HIDE DEF T
  <2>5. ASSUME NEW k \in Int, k < at
        PROVE  /\ k \in 1 .. Cardinality(T) <=> k \in 1 .. Cardinality(S)
               /\ k \in 1 .. Cardinality(S) => Sorted(T)[k] = Sorted(S)[k]
    <3>1. k \in 1 .. Cardinality(S) => k \in 1 .. at - 1
      BY <2>2, <2>3, <2>5
    <3>2. k \in 1 .. Cardinality(T) <=> k \in 1 .. Cardinality(S)
      BY <2>2, <2>3, <2>4, <2>5
    <3> QED
      BY <2>4, <3>1, <3>2
  <2>6. \A r : \A k \in Int : k < at /\ HasAt(S, q, k, r) => HasAt(T, q, k, r)
    BY <2>5 DEF HasAt
  <2>7. \A k \in Int : k < at /\ NoneAt(S, q, k) => NoneAt(T, q, k)
    BY <2>5 DEF NoneAt
  <2>8. \A i \in (p + 1) + 1 .. Len(s) : HasAt(T, q, (at - 1) - (i - ((p + 1) + 1)), s[i])
    <3> SUFFICES ASSUME NEW i \in (p + 1) + 1 .. Len(s)
                 PROVE  HasAt(T, q, (at - 1) - (i - ((p + 1) + 1)), s[i])
      OBVIOUS
    <3> DEFINE k == at - (i - (p + 1))
    <3>1. k \in Int /\ k < at /\ (at - 1) - (i - ((p + 1) + 1)) = k
      BY <1>1, <1>2
    <3>2. HasAt(S, q, k, s[i])
      BY <1>2, <1>5 DEF DownFrom
    <3> HIDE DEF k
    <3>3. HasAt(T, q, k, s[i])
      BY <2>6, <3>1, <3>2
    <3> QED
      BY <3>1, <3>3
  <2>9. NoneAt(T, q, (at - 1) - (Len(s) - (p + 1)))
    <3> DEFINE k == at - (Len(s) - p)
    <3>1. k \in Int /\ k < at /\ (at - 1) - (Len(s) - (p + 1)) = k
      BY <1>1, <1>3
    <3>2. NoneAt(S, q, k)
      BY <1>5 DEF DownFrom
    <3> HIDE DEF k
    <3>3. NoneAt(T, q, k)
      BY <2>7, <3>1, <3>2
    <3> QED
      BY <3>1, <3>3
  <2>10. DownFrom(T, q, s, p + 1, at - 1)
    BY <2>8, <2>9 DEF DownFrom
  <2> QED
    BY <2>1, <2>10 DEF T
<1> QED
  BY <1>4, <1>5

\* What the loop is at.
LEMMA ReadsCurrent ==
  ASSUME Inv, Ground, Walking, ~inserted, source \in Seq(Row),
         NEW p \in 0 .. Len(source), Reads(p)
  PROVE  /\ p < Len(source) => Current = source[p + 1] /\ Current \in Contents /\ Current \in Row
         /\ p = Len(source) => Current = NoRow
<1>1. /\ Len(source) \in Nat /\ p \in Nat /\ walk.at \in Int /\ walk.bound \in Nat
      /\ walk.by \in {"scan", "btree", "map"} /\ held = NoArray /\ walk.request.reverse \in BOOLEAN
      /\ indexed \subseteq Contents /\ Contents \subseteq Row
  BY WalkProperties, GroundProperties
<1>2. p < Len(source) => p + 1 \in p + 1 .. Len(source)
  BY <1>1
<1>3. CASE walk.by = "scan"
  <2>1. ReadsScan(p) /\ Current = Scanned
    BY <1>3 DEF Reads, Current
  <2>2. Scanned = IF walk.at > walk.bound THEN NoRow ELSE array[walk.at]
    BY <1>1 DEF Scanned
  <2> QED
    BY <1>1, <1>2, <2>1, <2>2 DEF ReadsScan
<1>4. CASE walk.by = "map"
  <2>1. ReadsMap(p) /\ Current = Loaded
    BY <1>4 DEF Reads, Current
  <2> QED
    BY <1>1, <2>1 DEF ReadsMap, Loaded
<1>5. CASE walk.by = "btree"
  <2>1. Current = Entry
    BY <1>5 DEF Current
  <2>2. \/ UpFrom(indexed, walk.request, source, p, walk.at)
        \/ DownFrom(indexed, walk.request, source, p, walk.at)
    BY <1>5 DEF Reads
  <2>3. /\ p < Len(source) => HasAt(indexed, walk.request, walk.at, source[p + 1])
        /\ p = Len(source) => NoneAt(indexed, walk.request, walk.at)
    BY <1>1, <2>2, EntriesNow
  <2>4. HasAt(indexed, walk.request, walk.at, source[p + 1]) => source[p + 1] \in indexed
    <3>1. indexed \subseteq Row
      BY <1>1
    <3> QED
      BY <3>1, SortedRank DEF HasAt
  <2> QED
    BY <1>1, <2>1, <2>3, <2>4, EntryProperties
<1> QED
  BY <1>1, <1>3, <1>4, <1>5

\* The loop is one place further, over what it was over.
StepsOn ==
  /\ walk'.request = walk.request /\ walk'.by = walk.by /\ walk'.bound = walk.bound
  /\ walk'.at = Advanced /\ UNCHANGED source

LEMMA ReadsOn ==
  ASSUME Inv, Ground, Walking, ~inserted, source \in Seq(Row),
         NEW p \in 0 .. Len(source), p < Len(source), Reads(p),
         StepsOn, UNCHANGED <<rows, array, len, I, indexed>>
  PROVE  Reads(p + 1)'
<1>1. /\ Len(source) \in Nat /\ p \in Nat /\ walk.at \in Int /\ walk.bound \in Nat
      /\ walk.by \in {"scan", "btree", "map"} /\ walk.request.reverse \in BOOLEAN
  BY WalkProperties
<1>2. /\ walk'.request = walk.request /\ walk'.by = walk.by /\ walk'.bound = walk.bound
      /\ source' = source /\ walk'.at = Advanced /\ Contents' = Contents
  BY DEF StepsOn, Contents
<1>3. \A i \in (p + 1) + 1 .. Len(source) : i \in p + 1 .. Len(source) /\ i \in Nat
  BY <1>1
<1>4. CASE walk.by = "scan"
  <2>1. ReadsScan(p) /\ walk'.at = walk.at + 1
    BY <1>2, <1>4 DEF Reads, Advanced
  <2>2. ReadsScan(p + 1)'
    BY <1>1, <1>2, <1>3, <2>1 DEF ReadsScan
  <2> QED
    BY <1>2, <1>4, <2>2 DEF Reads
<1>5. CASE walk.by = "map"
  <2>1. ReadsMap(p) /\ walk'.at = walk.at + 1
    BY <1>2, <1>5 DEF Reads, Advanced
  <2>2. ReadsMap(p + 1)'
    BY <1>1, <1>2, <2>1 DEF ReadsMap
  <2> QED
    BY <1>2, <1>5, <2>2 DEF Reads
<1>6. CASE walk.by = "btree"
  <2>0. indexed \subseteq Row /\ walk'.at \in Int
    BY <1>1, <1>2, GroundProperties DEF Advanced
  <2>1. CASE ~walk.request.reverse
    <3>1. walk'.at = walk.at + 1 /\ UpFrom(indexed, walk.request, source, p, walk.at)
      BY <1>2, <1>6, <2>1 DEF Reads, Advanced
    <3>2. UpFrom(indexed, walk.request, source, p + 1, walk.at + 1)
      BY <1>1, <2>0, <3>1, EntriesNext
    <3> QED
      BY <1>2, <1>6, <2>1, <3>1, <3>2 DEF Reads
  <2>2. CASE walk.request.reverse
    <3>1. walk'.at = walk.at - 1 /\ DownFrom(indexed, walk.request, source, p, walk.at)
      BY <1>2, <1>6, <2>2 DEF Reads, Advanced
    <3>2. DownFrom(indexed, walk.request, source, p + 1, walk.at - 1)
      BY <1>1, <2>0, <3>1, EntriesNext
    <3> QED
      BY <1>2, <1>6, <2>2, <3>1, <3>2 DEF Reads
  <2> QED
    BY <2>1, <2>2
<1> QED
  BY <1>1, <1>4, <1>5, <1>6

LEMMA ReadsOnRemoved ==
  ASSUME Inv, Ground, Walking, ~inserted, source \in Seq(Row), patching = NoRow,
         NEW p \in 0 .. Len(source), p < Len(source), Reads(p),
         ~Ascending(walk.request), walk.request.op = "remove", walk.by = walk.request.by,
         RemoveByRow(Current), UNCHANGED patching, StepsOn
  PROVE  Reads(p + 1)'
<1> DEFINE c == source[p + 1]
<1>1. /\ Len(source) \in Nat /\ p \in Nat /\ walk.at \in Int /\ walk.bound \in Nat
      /\ walk.by \in {"scan", "btree", "map"} /\ walk.request.reverse \in BOOLEAN
      /\ Place /\ held = NoArray
  BY WalkProperties
<1>2. /\ walk'.request = walk.request /\ walk'.by = walk.by /\ walk'.bound = walk.bound
      /\ source' = source /\ walk'.at = Advanced
  BY DEF StepsOn
<1>3. Current = c /\ c \in Contents /\ c \in Row /\ NoRow \notin Row
  BY ReadsCurrent, GroundProperties
<1>4. /\ len \in Nat /\ Len(array) \in Nat /\ len <= Len(array)
      /\ indexed \subseteq Row /\ Contents \subseteq Row
      /\ \A k \in 1 .. len : array[k] \in Contents
  BY GroundProperties
<1> HIDE DEF c
<1>5. /\ Contents' = Contents \ {c} /\ indexed' = indexed \ {c}
      /\ I[c] \in 1 .. len
      /\ I'[array[len]] = I[c]
      /\ \A x \in Row : x # array[len] => I'[x] = I[x]
      /\ \A k \in 1 .. Len(array) : k # I[c] => array'[k] = array[k]
  BY <1>3, RemovesRow
<1>6. p + 1 \in p + 1 .. Len(source)
      /\ \A i \in (p + 1) + 1 .. Len(source) : i \in p + 1 .. Len(source) /\ i \in Nat /\ i > p + 1
  BY <1>1
<1>7. CASE walk.by = "scan"
  <2>1. ReadsScan(p) /\ walk'.at = walk.at + 1
    BY <1>2, <1>7 DEF Reads, Advanced
  <2>2. walk.bound <= Len(array) /\ I[c] <= p + 1
    BY <1>1, <1>6, <1>7, <2>1 DEF ReadsScan, Place, c
  <2>3. ASSUME NEW i \in (p + 1) + 1 .. Len(source)
        PROVE  /\ array'[i] = source[i] /\ source[i] \in Contents' /\ I'[source[i]] <= i
    <3>1. /\ array[i] = source[i] /\ source[i] \in Contents /\ I[source[i]] <= i
          /\ i \in Nat /\ i > p + 1 /\ i \in 1 .. Len(array) /\ source[i] \in Row
      BY <1>1, <1>4, <1>6, <2>1, <2>2 DEF ReadsScan
    <3>2. source[i] # c
      BY <1>6, <2>1, <3>1 DEF ReadsScan, c
    <3>3. array'[i] = array[i]
      BY <1>4, <1>5, <2>2, <3>1
    <3>4. I'[source[i]] <= i
      <4>1. CASE source[i] = array[len]
        BY <1>4, <1>5, <2>2, <3>1, <4>1
      <4>2. CASE source[i] # array[len]
        BY <1>5, <3>1, <4>2
      <4> QED
        BY <4>1, <4>2
    <3> QED
      BY <1>5, <3>1, <3>2, <3>3, <3>4
  <2>4. ReadsScan(p + 1)'
    BY <1>1, <1>2, <1>6, <2>1, <2>3 DEF ReadsScan
  <2> QED
    BY <1>2, <1>7, <2>4 DEF Reads
<1>8. CASE walk.by = "map"
  <2>1. ReadsMap(p) /\ walk'.at = walk.at + 1
    BY <1>2, <1>8 DEF Reads, Advanced
  <2>2. ReadsMap(p + 1)'
    BY <1>1, <1>2, <2>1 DEF ReadsMap
  <2> QED
    BY <1>2, <1>8, <2>2 DEF Reads
<1>9. CASE walk.by = "btree"
  <2>1. walk.request.reverse
    BY <1>9 DEF Ascending
  <2>2. walk'.at = walk.at - 1 /\ DownFrom(indexed, walk.request, source, p, walk.at)
    BY <1>2, <1>9, <2>1 DEF Reads, Advanced
  <2>3. DownFrom(indexed \ {c}, walk.request, source, p + 1, walk.at - 1)
    BY <1>1, <1>4, <2>2, EntriesNext DEF c
  <2> QED
    BY <1>2, <1>5, <1>9, <2>1, <2>2, <2>3 DEF Reads
<1> QED
  BY <1>1, <1>7, <1>8, <1>9

\* What the loop has made of the rows up to p, it has made of the next one too.
LEMMA ProgressOn ==
  ASSUME Inv, Walking, ~inserted, source \in Seq(Row),
         NEW p \in 0 .. Len(source), p < Len(source), Progress(p), walk.limit # 0,
         walk'.request = walk.request, UNCHANGED source,
         NEW c, c = source[p + 1],
         \/ /\ c \notin walk.request.filter
            /\ handed' = handed /\ walk'.skip = walk.skip /\ walk'.limit = walk.limit
         \/ /\ c \in walk.request.filter /\ walk.skip > 0
            /\ handed' = handed /\ walk'.skip = walk.skip - 1 /\ walk'.limit = walk.limit
         \/ /\ c \in walk.request.filter /\ walk.skip = 0
            /\ handed' = Append(handed, c) /\ walk'.skip = 0 /\ walk'.limit = Left
  PROVE  Progress(p + 1)'
<1> DEFINE q == walk.request
           m == Met(p)
           m1 == Met(p + 1)
<1>1. /\ q.skip \in Nat /\ q.limit \in Nat \cup {All} /\ walk.skip \in Nat
      /\ walk.limit \in Nat \cup {All} /\ handed \in Seq(Row)
  BY WalkProperties
<1>2. /\ Len(source) \in Nat /\ p \in Nat /\ p + 1 \in 1 .. Len(source)
      /\ p + 1 \in 0 .. Len(source) /\ (p + 1) - 1 = p /\ c \in Row
  OBVIOUS
<1>3. /\ m \in Seq(Row) /\ m1 = IF c \in q.filter THEN Append(m, c) ELSE m
  <2>1. m \in Seq(Row)
    BY <1>2, MatchingProperties DEF Met
  <2>2. m1 = IF source[p + 1] \in q.filter THEN Append(Matching(source, q.filter)[(p + 1) - 1], c)
             ELSE Matching(source, q.filter)[(p + 1) - 1]
    BY <1>2, MatchingSteps DEF Met
  <2> QED
    BY <1>2, <2>1, <2>2 DEF Met
<1>4. Progress(p + 1)' <=>
        /\ walk'.skip = IF Len(m1) <= q.skip THEN q.skip - Len(m1) ELSE 0
        /\ Len(handed') = IF Len(m1) <= q.skip THEN 0 ELSE Len(m1) - q.skip
        /\ \A j \in 1 .. Len(handed') : handed'[j] = m1[q.skip + j]
        /\ walk'.limit = IF q.limit = All THEN All ELSE q.limit - Len(handed')
        /\ q.limit # All => Len(handed') <= q.limit
  BY DEF Progress, Met
<1>5. /\ walk.skip = IF Len(m) <= q.skip THEN q.skip - Len(m) ELSE 0
      /\ Len(handed) = IF Len(m) <= q.skip THEN 0 ELSE Len(m) - q.skip
      /\ \A j \in 1 .. Len(handed) : handed[j] = m[q.skip + j]
      /\ walk.limit = IF q.limit = All THEN All ELSE q.limit - Len(handed)
      /\ q.limit # All => Len(handed) <= q.limit
  BY DEF Progress
<1> HIDE DEF q, m, m1
<1>6. Len(m) \in Nat /\ Len(handed) \in Nat
  BY <1>1, <1>3
<1>7. CASE c \notin q.filter
  <2>1. m1 = m /\ handed' = handed /\ walk'.skip = walk.skip /\ walk'.limit = walk.limit
    BY <1>3, <1>7 DEF q
  <2> QED
    BY <1>4, <1>5, <2>1
<1>8. CASE c \in q.filter /\ walk.skip > 0
  <2>1. /\ m1 = Append(m, c) /\ handed' = handed /\ walk'.skip = walk.skip - 1
        /\ walk'.limit = walk.limit
    BY <1>1, <1>3, <1>8 DEF q
  <2>2. Len(m1) = Len(m) + 1 /\ Len(m1) <= q.skip
    BY <1>1, <1>2, <1>3, <1>5, <1>6, <1>8, <2>1
  <2>3. Len(handed) = 0 /\ walk.skip = q.skip - Len(m)
    BY <1>1, <1>5, <1>6, <2>2
  <2> QED
    BY <1>1, <1>4, <1>5, <1>6, <2>1, <2>2, <2>3
<1>9. CASE c \in q.filter /\ walk.skip = 0
  <2>1. m1 = Append(m, c) /\ handed' = Append(handed, c) /\ walk'.skip = 0 /\ walk'.limit = Left
    BY <1>3, <1>9 DEF q
  <2>2. /\ Len(m1) = Len(m) + 1 /\ m1[Len(m) + 1] = c
        /\ \A j \in 1 .. Len(m) : m1[j] = m[j]
    BY <1>2, <1>3, <2>1
  <2>3. /\ Len(handed') = Len(handed) + 1 /\ handed'[Len(handed) + 1] = c
        /\ \A j \in 1 .. Len(handed) : handed'[j] = handed[j]
    BY <1>1, <1>2, <2>1
  <2>4. Len(handed) = Len(m) - q.skip /\ Len(m) >= q.skip
    BY <1>1, <1>5, <1>6, <1>9
  <2>5. \A j \in 1 .. Len(handed') : handed'[j] = m1[q.skip + j]
    <3> SUFFICES ASSUME NEW j \in 1 .. Len(handed') PROVE handed'[j] = m1[q.skip + j]
      OBVIOUS
    <3>1. CASE j = Len(handed) + 1
      <4>1. q.skip + j = Len(m) + 1
        BY <1>1, <1>6, <2>4, <3>1
      <4> QED
        BY <2>2, <2>3, <3>1, <4>1
    <3>2. CASE j # Len(handed) + 1
      <4>1. j \in 1 .. Len(handed) /\ q.skip + j \in 1 .. Len(m)
        BY <1>1, <1>6, <2>3, <2>4, <3>2
      <4> QED
        BY <1>5, <2>2, <2>3, <4>1
    <3> QED
      BY <3>1, <3>2
  <2>6. /\ walk'.limit = IF q.limit = All THEN All ELSE q.limit - Len(handed')
        /\ q.limit # All => Len(handed') <= q.limit
    <3>1. CASE q.limit = All
      BY <1>5, <2>1, <3>1 DEF Left
    <3>2. CASE q.limit # All
      <4>1. q.limit \in Nat /\ walk.limit = q.limit - Len(handed) /\ Len(handed) < q.limit
        BY <1>1, <1>5, <1>6, <3>2
      <4>2. walk.limit # All /\ Left = walk.limit - 1
        BY <1>6, <4>1 DEF Left, All
      <4> QED
        BY <1>6, <2>1, <2>3, <3>2, <4>1, <4>2
    <3> QED
      BY <3>1, <3>2
  <2>7. walk'.skip = IF Len(m1) <= q.skip THEN q.skip - Len(m1) ELSE 0
    BY <1>1, <1>6, <2>1, <2>2, <2>4
  <2>8. Len(handed') = IF Len(m1) <= q.skip THEN 0 ELSE Len(m1) - q.skip
    BY <1>1, <1>6, <2>2, <2>3, <2>4
  <2> QED
    BY <1>4, <2>5, <2>6, <2>7, <2>8
<1> QED
  BY <1>1, <1>7, <1>8, <1>9

\* There is a first row on which a filter ends in an error, or none.
LEMMA ReadableProperties ==
  ASSUME NEW s \in Seq(Row), NEW fails
  PROVE  /\ Readable(s, fails) \in 0 .. Len(s)
         /\ \A i \in 1 .. Readable(s, fails) : s[i] \notin fails
         /\ Readable(s, fails) < Len(s) => s[Readable(s, fails) + 1] \in fails
<1> DEFINE Before(k) == /\ \A i \in 1 .. k : s[i] \notin fails
                        /\ k < Len(s) => s[k + 1] \in fails
           Failing == {i \in 1 .. Len(s) : s[i] \in fails}
<1>1. Len(s) \in Nat
  OBVIOUS
<1>2. \E k \in 0 .. Len(s) : Before(k)
  <2>1. CASE Failing = {}
    <3>1. Before(Len(s)) /\ Len(s) \in 0 .. Len(s)
      BY <1>1, <2>1
    <3> QED
      BY <3>1
  <2>2. CASE Failing # {}
    <3>1. Failing \subseteq Nat
      BY <1>1
    <3> HIDE DEF Failing
    <3>2. PICK f \in Failing : \A i \in Failing : f <= i
      BY <2>2, <3>1, Least
    <3> USE DEF Failing
    <3>3. f - 1 \in 0 .. Len(s) /\ (f - 1) + 1 = f /\ f \in 1 .. Len(s) /\ s[f] \in fails
      BY <1>1, <3>2
    <3>4. \A i \in 1 .. f - 1 : i \in 1 .. Len(s) /\ ~(f <= i)
      BY <1>1, <3>3
    <3>5. Before(f - 1)
      BY <3>2, <3>3, <3>4
    <3> QED
      BY <3>3, <3>5
  <2> QED
    BY <2>1, <2>2
<1>3. Readable(s, fails) = CHOOSE k \in 0 .. Len(s) : Before(k)
  BY DEF Readable
<1> HIDE DEF Before
<1>4. Readable(s, fails) \in 0 .. Len(s) /\ Before(Readable(s, fails))
  BY <1>2, <1>3, Zenon
<1> QED
  BY <1>4 DEF Before

\* When the loop is over it has handed out what the request asks for.
LEMMA AnswerIsAsked ==
  ASSUME Inv, Walking, ~inserted, source \in Seq(Row),
         NEW p \in 0 .. Len(source), Progress(p), Clean(p),
         walk.limit = 0 \/ (p < Len(source) => source[p + 1] \in walk.request.fails)
  PROVE  handed = AskedFor(walk.request, source)
<1> DEFINE q == walk.request
           m == Met(p)
           whole == Readable(source, q.fails)
           rest == Matching(source, q.filter)[whole]
           last == IF q.limit = All \/ q.skip + q.limit > Len(rest) THEN Len(rest)
                   ELSE q.skip + q.limit
<1>1. /\ q.skip \in Nat /\ q.limit \in Nat \cup {All} /\ handed \in Seq(Row)
  BY WalkProperties
<1>2. /\ m \in Seq(Row) /\ rest \in Seq(Row) /\ Len(m) <= Len(rest)
      /\ \A j \in 1 .. Len(m) : rest[j] = m[j]
      /\ walk.limit # 0 => m = rest
  <2>1. /\ whole \in 0 .. Len(source)
        /\ \A i \in 1 .. whole : source[i] \notin q.fails
        /\ whole < Len(source) => source[whole + 1] \in q.fails
    BY ReadableProperties
  <2>2. Len(source) \in Nat /\ whole \in Nat /\ p \in Nat
    BY <2>1
  <2> HIDE DEF whole
  <2>3. p <= whole
    <3> SUFFICES ASSUME whole < p PROVE FALSE
      BY <2>2
    <3>1. whole + 1 \in 1 .. p /\ whole < Len(source)
      BY <2>2
    <3> QED
      BY <2>1, <3>1 DEF Clean
  <2>4. walk.limit # 0 => p = whole
    <3> SUFFICES ASSUME walk.limit # 0, p < whole PROVE FALSE
      BY <2>2, <2>3
    <3>1. p + 1 \in 1 .. whole /\ p < Len(source)
      BY <2>1, <2>2
    <3> QED
      BY <2>1, <3>1
  <2>5. whole \in p .. Len(source)
    BY <2>1, <2>2, <2>3
  <2> DEFINE M == Matching(source, q.filter)
  <2>6. /\ \A k \in 0 .. Len(source) : M[k] \in Seq(Row)
        /\ \A i \in 0 .. Len(source) : \A k \in i .. Len(source) :
             /\ Len(M[i]) <= Len(M[k])
             /\ \A j \in 1 .. Len(M[i]) : M[k][j] = M[i][j]
    BY MatchingProperties
  <2>7. m = M[p] /\ rest = M[whole]
    BY DEF Met
  <2> HIDE DEF M, m, rest
  <2> QED
    BY <2>1, <2>4, <2>5, <2>6, <2>7
<1>3. /\ Len(handed) = IF Len(m) <= q.skip THEN 0 ELSE Len(m) - q.skip
      /\ \A j \in 1 .. Len(handed) : handed[j] = m[q.skip + j]
      /\ walk.limit = IF q.limit = All THEN All ELSE q.limit - Len(handed)
      /\ q.limit # All => Len(handed) <= q.limit
  BY DEF Progress
<1>4. AskedFor(q, source) = SubSeq(rest, q.skip + 1, last)
  BY DEF AskedFor
<1> HIDE DEF m, rest, q
<1>5. Len(m) \in Nat /\ Len(rest) \in Nat /\ Len(handed) \in Nat
  BY <1>1, <1>2
<1>6. last \in Nat /\ last <= Len(rest)
      /\ Len(handed) = IF q.skip + 1 <= last THEN last - q.skip ELSE 0
  <2>1. CASE walk.limit = 0
    <3>1. q.limit = Len(handed) /\ q.limit # All /\ q.limit \in Nat
      BY <1>1, <1>3, <1>5, <2>1 DEF All
    <3> QED
      BY <1>1, <1>2, <1>3, <1>5, <3>1
  <2>2. CASE walk.limit # 0
    BY <1>1, <1>2, <1>3, <1>5, <2>2
  <2> QED
    BY <2>1, <2>2
<1> HIDE DEF last
<1> DEFINE answer == SubSeq(rest, q.skip + 1, last)
<1>7. /\ answer \in Seq(Row) /\ Len(answer) = Len(handed)
      /\ \A j \in 1 .. Len(answer) : answer[j] = rest[q.skip + j]
  <2>1. \A j \in (q.skip + 1) .. last : j \in 1 .. Len(rest) /\ rest[j] \in Row
    BY <1>1, <1>2, <1>5, <1>6
  <2>2. /\ answer \in Seq(Row)
        /\ Len(answer) = IF q.skip + 1 <= last THEN last - (q.skip + 1) + 1 ELSE 0
        /\ \A j \in 1 .. last - (q.skip + 1) + 1 : answer[j] = rest[(q.skip + 1) + j - 1]
    <3>1. q.skip + 1 \in Int /\ last \in Int
      BY <1>1, <1>6
    <3> QED
      BY <2>1, <3>1, SubSeqProperties
  <2> HIDE DEF answer
  <2>3. Len(answer) = Len(handed)
    BY <1>1, <1>6, <2>2
  <2>4. ASSUME NEW j \in 1 .. Len(answer) PROVE answer[j] = rest[q.skip + j]
    <3>1. j \in 1 .. last - (q.skip + 1) + 1 /\ (q.skip + 1) + j - 1 = q.skip + j
      BY <1>1, <1>6, <2>2
    <3> QED
      BY <2>2, <3>1
  <2> QED
    BY <2>2, <2>3, <2>4
<1>8. \A j \in 1 .. Len(handed) : handed[j] = answer[j]
  <2> SUFFICES ASSUME NEW j \in 1 .. Len(handed) PROVE handed[j] = answer[j]
    OBVIOUS
  <2> HIDE DEF answer
  <2>1. answer[j] = rest[q.skip + j] /\ handed[j] = m[q.skip + j]
    BY <1>3, <1>7
  <2>2. q.skip + j \in 1 .. Len(m)
    BY <1>1, <1>3, <1>5
  <2> QED
    BY <1>2, <2>1, <2>2
<1> HIDE DEF answer
<1>9. handed = answer
  <2>1. /\ handed = [j \in 1 .. Len(handed) |-> handed[j]]
        /\ answer = [j \in 1 .. Len(answer) |-> answer[j]]
    BY <1>1, <1>7
  <2> QED
    BY <1>7, <1>8, <2>1
<1> QED
  BY <1>4, <1>9 DEF q, answer

LEMMA RequestProperties ==
  ASSUME NEW q \in Request
  PROVE  /\ q.op \in {"find", "remove", "get"} /\ q.by \in {"scan", "btree", "map"}
         /\ q.reverse \in BOOLEAN /\ q.from \in Row \cup {NoRow} /\ q.to \in Row \cup {NoRow}
         /\ q.skip \in Nat /\ q.limit \in Nat \cup {All}
         /\ q.op = "get" => q.by = "map"
         /\ NoRow \notin Row /\ Row \subseteq Nat
  BY TraverseAssumption

LEMMA SortedSequence ==
  ASSUME NEW S, S \subseteq Row
  PROVE  /\ Sorted(S) \in Seq(Row) /\ Len(Sorted(S)) = Cardinality(S) /\ Cardinality(S) \in Nat
         /\ Reversed(Sorted(S)) \in Seq(Row) /\ Len(Reversed(Sorted(S))) = Cardinality(S)
         /\ \A i \in 1 .. Cardinality(S) :
              /\ Reversed(Sorted(S))[i] = Sorted(S)[Cardinality(S) + 1 - i]
              /\ Sorted(S)[i] \in S /\ Reversed(Sorted(S))[i] \in S
<1> DEFINE s == Sorted(S)
           n == Cardinality(S)
           t == Reversed(s)
<1>1. n \in Nat /\ \A i \in 1 .. n : s[i] \in S
  BY RowCardinality, SortedRank
<1>2. s = [k \in 1 .. n |-> s[k]]
  <2> DEFINE place(k) == CHOOSE r \in S : Cardinality({x \in S : x < r}) = k - 1
  <2>1. s = [k \in 1 .. n |-> place(k)]
    BY DEF Sorted
  <2> HIDE DEF place, s, n
  <2> QED
    BY <2>1
<1> HIDE DEF s, n
<1>3. s \in Seq(Row) /\ Len(s) = n
  BY <1>1, <1>2
<1>4. t = [k \in 1 .. n |-> s[n + 1 - k]]
  <2>1. t = [k \in 1 .. Len(s) |-> s[Len(s) + 1 - k]]
    BY DEF Reversed
  <2> HIDE DEF t
  <2> QED
    BY <1>3, <2>1
<1>5. \A i \in 1 .. n : n + 1 - i \in 1 .. n
  BY <1>1
<1>6. \A i \in 1 .. n : t[i] = s[n + 1 - i] /\ t[i] \in S
  BY <1>1, <1>4, <1>5
<1> HIDE DEF t
<1>7. t \in Seq(Row) /\ Len(t) = n
  BY <1>1, <1>4, <1>6
<1> QED
  BY <1>1, <1>3, <1>6, <1>7 DEF s, n, t

\* Where a walk upwards starts, and that it reads the keys in its range.
LEMMA StartsUp ==
  ASSUME Inv, Ground, NEW q \in Request, q.by = "btree", ~q.reverse
  PROVE  /\ Source(q) \in Seq(Row)
         /\ UpFrom(indexed, q, Source(q), 0, First(q))
<1> DEFINE R == {r \in indexed : InRange(q, r)}
           L == {r \in indexed : q.from # NoRow /\ r < q.from}
<1>1. /\ indexed \subseteq Row /\ q.op # "get" /\ \A r \in indexed : r \in Nat
      /\ q.from # NoRow => q.from \in Nat
      /\ q.to # NoRow => q.to \in Nat
  BY GroundProperties, RequestProperties
<1>2. \A r : InRange(q, r) <=> (q.from = NoRow \/ q.from <= r) /\ (q.to = NoRow \/ r < q.to)
  BY DEF InRange
<1>3. \A r : EndsAt(q, r) <=> q.to # NoRow /\ ~(r < q.to)
  BY DEF EndsAt
<1>4. /\ Initial(L, indexed) /\ Initial(L \cup R, indexed)
      /\ R \subseteq indexed \ L /\ R \subseteq Row /\ L \subseteq Row /\ L \cap R = {}
      /\ L \cup R \subseteq indexed
  BY <1>1, <1>2 DEF Initial
<1>5. Source(q) = Sorted(R)
  BY <1>1 DEF Source
<1>6. First(q) = Cardinality(L) + 1
  <2>1. CASE q.from = NoRow
    <3>1. L = {} /\ First(q) = 1
      BY <2>1 DEF First
    <3> QED
      BY <3>1, FS_EmptySet
  <2>2. CASE q.from # NoRow
    <3>1. First(q) = 1 + Below(q.from) /\ Below(q.from) = Cardinality(L)
      BY <2>2 DEF First, Below
    <3>2. Cardinality(L) \in Nat
      <4> HIDE DEF L
      <4> QED
        BY <1>4, RowCardinality
    <3> HIDE DEF L
    <3> QED
      BY <3>1, <3>2
  <2> QED
    BY <2>1, <2>2
<1>7. \A r \in R : ~EndsAt(q, r)
  BY <1>1, <1>2, <1>3
<1>8. \A r \in indexed : r \notin L \cup R => EndsAt(q, r)
  BY <1>1, <1>2, <1>3
<1> HIDE DEF R, L
<1>9. /\ Sorted(R) \in Seq(Row) /\ Len(Sorted(R)) = Cardinality(R)
      /\ Cardinality(R) \in Nat /\ Cardinality(L) \in Nat
      /\ Cardinality(L \cup R) = Cardinality(L) + Cardinality(R)
      /\ \A i \in 1 .. Cardinality(R) : Sorted(R)[i] \in R
  BY <1>1, <1>4, SortedSequence, RowCardinality
<1>10. ASSUME NEW i \in 0 + 1 .. Len(Sorted(R))
       PROVE  HasAt(indexed, q, First(q) + (i - (0 + 1)), Sorted(R)[i])
  <2>1. i \in 1 .. Cardinality(R) /\ First(q) + (i - (0 + 1)) = Cardinality(L) + i
    BY <1>6, <1>9
  <2>2. /\ Cardinality(L) + i \in 1 .. Cardinality(indexed)
        /\ Sorted(indexed)[Cardinality(L) + i] = Sorted(R)[i]
    BY <1>1, <1>4, <2>1, RangeShift
  <2> QED
    BY <1>7, <1>9, <2>1, <2>2 DEF HasAt
<1>11. NoneAt(indexed, q, First(q) + (Len(Sorted(R)) - 0))
  <2> DEFINE k == Cardinality(L \cup R) + 1
  <2>1. First(q) + (Len(Sorted(R)) - 0) = k /\ ~(k <= Cardinality(L \cup R))
    BY <1>6, <1>9
  <2> HIDE DEF k
  <2>2. ASSUME k \in 1 .. Cardinality(indexed) PROVE EndsAt(q, Sorted(indexed)[k])
    <3>1. Sorted(indexed)[k] \notin L \cup R
      BY <1>1, <1>4, <2>1, <2>2, InitialPlaces
    <3>2. Sorted(indexed)[k] \in indexed
      BY <1>1, <2>2, SortedRank
    <3> QED
      BY <1>8, <3>1, <3>2
  <2> QED
    BY <2>1, <2>2 DEF NoneAt
<1> QED
  BY <1>5, <1>9, <1>10, <1>11 DEF UpFrom

\* The same downwards.
LEMMA StartsDown ==
  ASSUME Inv, Ground, NEW q \in Request, q.by = "btree", q.reverse
  PROVE  /\ Source(q) \in Seq(Row)
         /\ DownFrom(indexed, q, Source(q), 0, First(q))
<1> DEFINE R == {r \in indexed : InRange(q, r)}
           U == {r \in indexed : q.to = NoRow \/ r <= q.to}
           L == {r \in U : q.from # NoRow /\ r <= q.from}
<1>1. /\ indexed \subseteq Row /\ q.op # "get" /\ \A r \in indexed : r \in Nat
      /\ q.from # NoRow => q.from \in Nat
      /\ q.to # NoRow => q.to \in Nat
  BY GroundProperties, RequestProperties
<1>2. \A r : InRange(q, r) <=> (q.from = NoRow \/ q.from < r) /\ (q.to = NoRow \/ r <= q.to)
  BY DEF InRange
<1>3. \A r : EndsAt(q, r) <=> q.from # NoRow /\ ~(q.from < r)
  BY DEF EndsAt
<1>4. /\ Initial(L, indexed) /\ Initial(U, indexed) /\ L \cup R = U /\ L \cap R = {}
      /\ R \subseteq indexed \ L /\ R \subseteq Row /\ L \subseteq Row /\ U \subseteq Row
  BY <1>1, <1>2 DEF Initial
<1>5. Source(q) = Reversed(Sorted(R))
  BY <1>1 DEF Source
<1>6. First(q) = Cardinality(U)
  <2>1. q.to = NoRow => U = indexed
    OBVIOUS
  <2>2. q.to # NoRow => UpTo(q.to) = Cardinality(U)
    BY DEF UpTo
  <2>3. First(q) = IF q.to = NoRow THEN Cardinality(indexed) ELSE UpTo(q.to)
    BY DEF First
  <2> HIDE DEF U
  <2> QED
    BY <2>1, <2>2, <2>3
<1>7. \A r \in R : ~EndsAt(q, r)
  BY <1>1, <1>2, <1>3
<1>8. \A r \in L : EndsAt(q, r)
  BY <1>1, <1>3
<1> HIDE DEF R, L, U
<1> DEFINE t == Reversed(Sorted(R))
           n == Cardinality(R)
<1>9. /\ t \in Seq(Row) /\ Len(t) = n /\ n \in Nat /\ Cardinality(L) \in Nat
      /\ Cardinality(U) = Cardinality(L) + n
      /\ \A i \in 1 .. n : t[i] \in R /\ t[i] = Sorted(R)[n + 1 - i]
  BY <1>1, <1>4, SortedSequence, RowCardinality
<1> HIDE DEF t
<1>10. ASSUME NEW i \in 0 + 1 .. Len(t)
       PROVE  HasAt(indexed, q, First(q) - (i - (0 + 1)), t[i])
  <2> DEFINE j == n + 1 - i
  <2>0. /\ i \in 1 .. n /\ n \in Nat /\ Cardinality(L) \in Nat
        /\ First(q) = Cardinality(L) + n
    BY <1>6, <1>9
  <2> HIDE DEF n
  <2>1. j \in 1 .. n /\ First(q) - (i - (0 + 1)) = Cardinality(L) + j
    BY <2>0
  <2> USE DEF n
  <2> HIDE DEF j
  <2>2. /\ Cardinality(L) + j \in 1 .. Cardinality(indexed)
        /\ Sorted(indexed)[Cardinality(L) + j] = Sorted(R)[j]
    BY <1>1, <1>4, <2>1, RangeShift
  <2> QED
    BY <1>7, <1>9, <2>0, <2>1, <2>2 DEF HasAt, j
<1>11. NoneAt(indexed, q, First(q) - (Len(t) - 0))
  <2> DEFINE k == Cardinality(L)
  <2>1. First(q) - (Len(t) - 0) = k /\ k <= Cardinality(L)
    BY <1>6, <1>9
  <2> HIDE DEF k
  <2>2. ASSUME k \in 1 .. Cardinality(indexed) PROVE EndsAt(q, Sorted(indexed)[k])
    <3>1. Sorted(indexed)[k] \in L
      BY <1>1, <1>4, <2>1, <2>2, InitialPlaces
    <3> QED
      BY <1>8, <3>1
  <2> QED
    BY <2>1, <2>2 DEF NoneAt
<1> QED
  BY <1>5, <1>9, <1>10, <1>11 DEF DownFrom, t

\* Rows as a scan or a get finds it.
LEMMA StartsScan ==
  ASSUME Inv
  PROVE  LET s == SubSeq(array, 1, len) IN
         s \in Seq(Row) /\ Len(s) = len /\ \A i \in 1 .. len : s[i] = array[i]
<1> DEFINE s == SubSeq(array, 1, len)
<1>1. len \in Nat /\ \A k \in 1 .. len : array[k] \in Row
  BY GroundProperties
<1>2. 1 \in Int /\ len \in Int
  BY <1>1
<1>3. /\ s \in Seq(Row) /\ Len(s) = IF 1 <= len THEN len - 1 + 1 ELSE 0
      /\ \A i \in 1 .. len - 1 + 1 : s[i] = array[1 + i - 1]
  BY <1>1, <1>2, SubSeqProperties
<1> HIDE DEF s
<1>4. Len(s) = len
  BY <1>1, <1>3
<1>5. \A i \in 1 .. len : i \in 1 .. len - 1 + 1 /\ 1 + i - 1 = i
  BY <1>1
<1>6. \A i \in 1 .. len : s[i] = array[i]
  BY <1>3, <1>5
<1> QED
  BY <1>3, <1>4, <1>6 DEF s

LEMMA StartAlone ==
  ASSUME Inv, Ground, NEW q \in Request, Start(q)
  PROVE  Ground' /\ Following'
<1>1. /\ UNCHANGED <<rows, array, len, I, indexed, patching>> /\ handed' = << >>
      /\ before' = Contents /\ source' = Source(q) /\ (patching = NoRow \/ q.op = "get")
      /\ walk' = [request |-> q, by |-> q.by, at |-> First(q),
                  bound |-> CASE q.by = "scan" -> len
                              [] q.by = "map" -> IF q.from \in indexed THEN 1 ELSE 0
                              [] q.by = "btree" -> 0,
                  skip |-> q.skip, limit |-> q.limit]
  BY DEF Start, rows
<1>2. Ground' /\ Contents' = Contents
  BY <1>1 DEF Ground, PlacesOK, Contents
<1>3. /\ q.op \in {"find", "remove", "get"} /\ q.by \in {"scan", "btree", "map"}
      /\ q.reverse \in BOOLEAN /\ q.from \in Row \cup {NoRow} /\ q.skip \in Nat
      /\ q.limit \in Nat \cup {All} /\ (q.op = "get" => q.by = "map") /\ NoRow \notin Row
  BY RequestProperties
<1>4. /\ walk'.request = q /\ walk'.by = q.by /\ walk'.at = First(q)
      /\ walk'.skip = q.skip /\ walk'.limit = q.limit
      /\ (q.by = "scan" => walk'.bound = len)
      /\ (q.by = "map" => walk'.bound = IF q.from \in indexed THEN 1 ELSE 0)
  BY <1>1, <1>3
<1>5. /\ IsGet' <=> q.op = "get"
      /\ LooksInMap' <=> q.op = "get" /\ q.by = "map"
  BY <1>4 DEF IsGet, LooksInMap
<1>6. /\ indexed \subseteq Contents /\ Contents \subseteq Row /\ len \in Nat
      /\ \A k \in 1 .. len : array[k] \in Contents /\ I[array[k]] = k
  BY GroundProperties
<1>7. q.by # "btree" => First(q) = 1
  BY DEF First
<1> DEFINE Starts == source' \in Seq(Row) /\ (IsGet' => Scannable') /\ (~LooksInMap' => Reads(0)')
<1>8. ASSUME q.by = "scan" \/ q.op = "get"
      PROVE  Starts
  <2>1. source' = SubSeq(array, 1, len)
    BY <1>1, <1>3, <1>8 DEF Source
  <2>2. source' \in Seq(Row) /\ Len(source') = len /\ \A i \in 1 .. len : source'[i] = array[i]
    <3> DEFINE s == SubSeq(array, 1, len)
    <3>1. s \in Seq(Row) /\ Len(s) = len /\ \A i \in 1 .. len : s[i] = array[i]
      BY StartsScan
    <3>2. source' = s
      BY <2>1
    <3> HIDE DEF s
    <3>3. source' \in Seq(Row) /\ Len(source') = len
      BY <3>1, <3>2
    <3>4. \A i \in 1 .. len : source'[i] = array[i]
      BY <3>1, <3>2
    <3> QED
      BY <3>3, <3>4
  <2>3. Scannable'
    BY <1>1, <2>2 DEF Scannable
  <2>4. q.by = "scan" => ReadsScan(0)'
    <3> SUFFICES ASSUME q.by = "scan" PROVE ReadsScan(0)'
      OBVIOUS
    <3>1. \A i \in 0 + 1 .. len : i \in 1 .. len /\ i \in Nat
      BY <1>6
    <3>2. \A i \in 0 + 1 .. len :
            array'[i] = source'[i] /\ source'[i] \in Contents' /\ I'[source'[i]] <= i
      BY <1>1, <1>2, <1>6, <2>2, <3>1
    <3>3. \A i, k \in 0 + 1 .. len : source'[i] = source'[k] => i = k
      BY <1>6, <2>2, <3>1
    <3>4. walk'.at = 0 + 1 /\ walk'.bound = len
      BY <1>4, <1>7
    <3> QED
      BY <2>2, <3>2, <3>3, <3>4 DEF ReadsScan
  <2>5. q.by = "scan" => Reads(0)'
    <3> SUFFICES ASSUME q.by = "scan" PROVE Reads(0)'
      OBVIOUS
    <3>1. walk'.by = "scan" /\ ReadsScan(0)'
      BY <1>4, <2>4
    <3> QED
      BY <3>1 DEF Reads
  <2> QED
    BY <1>2, <1>3, <1>5, <1>8, <2>2, <2>3, <2>5
<1>9. ASSUME q.by = "map" /\ q.op # "get"
      PROVE  Starts
  <2>1. source' = IF q.from \in indexed THEN <<q.from>> ELSE << >>
    BY <1>1, <1>9 DEF Source
  <2>2. ASSUME q.from \in indexed PROVE source' \in Seq(Row) /\ ReadsMap(0)'
    <3>1. source' = <<q.from>> /\ walk'.bound = 1 /\ q.from \in Row /\ q.from \in Contents
      BY <1>4, <1>6, <1>9, <2>1, <2>2
    <3>2. source' \in Seq(Row) /\ Len(source') = 1 /\ source'[0 + 1] = q.from
      BY <3>1
    <3>3. walk'.at = 0 + 1 /\ walk'.request.from = q.from
      BY <1>4, <1>7, <1>9
    <3>4. ReadsMap(0)'
      BY <1>2, <3>1, <3>2, <3>3 DEF ReadsMap
    <3> QED
      BY <3>2, <3>4
  <2>3. ASSUME q.from \notin indexed PROVE source' \in Seq(Row) /\ ReadsMap(0)'
    <3>1. source' = << >> /\ walk'.bound = 0
      BY <1>4, <1>9, <2>1, <2>3
    <3>2. source' \in Seq(Row) /\ Len(source') = 0
      BY <3>1
    <3>3. walk'.at = 0 + 1
      BY <1>4, <1>7, <1>9
    <3>4. ReadsMap(0)'
      BY <3>1, <3>2, <3>3 DEF ReadsMap
    <3> QED
      BY <3>2, <3>4
  <2>4. source' \in Seq(Row) /\ ReadsMap(0)'
    BY <2>2, <2>3
  <2>5. walk'.by = "map"
    BY <1>4, <1>9
  <2>6. Reads(0)'
    BY <2>4, <2>5 DEF Reads
  <2> QED
    BY <1>5, <1>9, <2>4, <2>6
<1>10. ASSUME q.by = "btree"
       PROVE  Starts
  <2>1. walk'.by = "btree" /\ walk'.request = q /\ walk'.at = First(q)
    BY <1>4, <1>10
  <2>2. CASE q.reverse
    <3>1. source' \in Seq(Row) /\ DownFrom(indexed', q, source', 0, walk'.at)
      BY <1>1, <1>10, <2>1, <2>2, StartsDown
    <3> QED
      BY <1>3, <1>5, <1>10, <2>1, <2>2, <3>1 DEF Reads
  <2>3. CASE ~q.reverse
    <3>1. source' \in Seq(Row) /\ UpFrom(indexed', q, source', 0, walk'.at)
      BY <1>1, <1>10, <2>1, <2>3, StartsUp
    <3> QED
      BY <1>3, <1>5, <1>10, <2>1, <2>3, <3>1 DEF Reads
  <2> QED
    BY <2>2, <2>3
<1>11. /\ source' \in Seq(Row) /\ (IsGet' => Scannable')
       /\ (~LooksInMap' => Reads(0)')
  BY <1>3, <1>8, <1>9, <1>10
<1>12. Progress(0)'
  <2>1. Met(0)' = << >>
    BY <1>11, MatchingSteps DEF Met
  <2>2. Len(<< >>) = 0
    OBVIOUS
  <2> QED
    BY <1>1, <1>3, <1>4, <2>1, <2>2 DEF Progress, All
<1>13. Follows'
  <2>1. 0 \in 0 .. Len(source')
    BY <1>11
  <2> QED
    BY <1>11, <1>12, <2>1 DEF Follows, Clean
<1>14. Contents' = IF walk'.request.op = "remove" THEN before' \ ToSet(handed') ELSE before'
  BY <1>1, <1>2 DEF ToSet
<1>15. LooksInMap' /\ walk'.bound = 1 => walk'.request.from \in Contents'
  BY <1>2, <1>4, <1>5, <1>6
<1>16. (patching' # NoRow => IsGet') /\ (walk'.by = walk'.request.by \/ IsGet')
  BY <1>1, <1>4, <1>5
<1> QED
  BY <1>2, <1>11, <1>13, <1>14, <1>15, <1>16 DEF Following

\* The loop is at the next row of source.
LEMMA AtNext ==
  ASSUME Inv, Ground, Following, Follows, Looping, ~inserted, ~LooksInMap
  PROVE  \E p \in 0 .. Len(source) :
           /\ p < Len(source) /\ Progress(p) /\ Reads(p) /\ Clean(p + 1)
           /\ Current = source[p + 1] /\ Current \in Contents
<1>1. /\ Walking /\ Current # NoRow /\ walk.limit # 0 /\ source \in Seq(Row)
      /\ Current \notin walk.request.fails
  BY DEF Looping, Over, Following
<1>2. PICK p \in 0 .. Len(source) : Progress(p) /\ Reads(p) /\ Clean(p)
  BY <1>1 DEF Follows
<1>3. Len(source) \in Nat
  BY <1>1
<1>4. p # Len(source)
  BY <1>1, <1>2, ReadsCurrent
<1>5. p < Len(source)
  BY <1>2, <1>3, <1>4
<1>6. Current = source[p + 1] /\ Current \in Contents
  BY <1>1, <1>2, <1>5, ReadsCurrent
<1>7. Clean(p + 1)
  BY <1>1, <1>2, <1>6 DEF Clean
<1> QED
  BY <1>2, <1>5, <1>6, <1>7

\* A row of the map index is the first, and the only, answer to a get.
LEMMA FoundInMap ==
  ASSUME Inv, Ground, Following, Follows, Looping, ~inserted, LooksInMap
  PROVE  /\ Current = walk.request.from /\ walk.request.filter = {Current}
         /\ Current \in Contents /\ walk.skip = 0 /\ walk.limit = 1 /\ handed = << >>
         /\ \E p \in 0 .. Len(source) :
              Met(p) = <<Current>>
<1>1. /\ Walking /\ Current # NoRow /\ walk.limit # 0 /\ source \in Seq(Row) /\ Scannable
      /\ walk.by = "map" /\ IsGet /\ (walk.bound = 1 => walk.request.from \in Contents)
  BY DEF Looping, Over, Following, LooksInMap
<1>2. /\ Place /\ walk.bound \in {0, 1} /\ walk.at >= 1 /\ walk.at \in Int
      /\ walk.request.filter = {walk.request.from} /\ walk.request.skip = 0
      /\ walk.request.limit = 1 /\ handed \in Seq(Row)
  BY <1>1, WalkProperties DEF Place
<1>3. Current = walk.request.from /\ walk.bound = 1
  BY <1>1, <1>2 DEF Current, Loaded
<1>4. Current \in Contents
  BY <1>1, <1>3
<1>5. Progress(0)
  BY <1>1 DEF Follows
<1>6. Met(0) = << >> /\ Len(Met(0)) = 0
  BY <1>1, MatchingSteps DEF Met
<1>7. walk.skip = 0 /\ Len(handed) = 0 /\ walk.limit = 1
  BY <1>2, <1>5, <1>6 DEF Progress, All
<1>8. handed = << >>
  BY <1>2, <1>7
<1> DEFINE c == Current
           p == I[c]
<1>9. /\ p \in 1 .. len /\ array[p] = c /\ len \in Nat /\ Contents \subseteq Row
      /\ \A k \in 1 .. len : I[array[k]] = k
  BY <1>4, GroundProperties
<1>10. /\ Len(source) = len /\ \A i \in 1 .. len : source[i] = array[i]
  BY <1>1 DEF Scannable
<1> HIDE DEF c, p
<1>11. /\ p \in 1 .. Len(source) /\ p - 1 \in 0 .. Len(source) /\ source[p] = c
       /\ p \in 0 .. Len(source)
  BY <1>9, <1>10
<1>12. \A i \in 1 .. p - 1 : source[i] \notin {c}
  <2> SUFFICES ASSUME NEW i \in 1 .. p - 1, source[i] = c PROVE FALSE
    OBVIOUS
  <2>1. i \in 1 .. len /\ i # p
    BY <1>9
  <2>2. I[array[i]] = i /\ array[i] = c
    BY <1>9, <1>10, <2>1
  <2> QED
    BY <2>1, <2>2 DEF p
<1>13. walk.request.filter = {c}
  BY <1>2, <1>3 DEF c
<1>14. Matching(source, {c})[p - 1] = << >>
  BY <1>1, <1>11, <1>12, MatchingProperties
<1>15. Matching(source, {c})[p] = Append(<< >>, c)
  <2>1. Matching(source, {c})[p] = IF source[p] \in {c} THEN Append(Matching(source, {c})[p - 1], source[p])
                                   ELSE Matching(source, {c})[p - 1]
    BY <1>1, <1>11, MatchingSteps
  <2> QED
    BY <1>11, <1>14, <2>1
<1>16. Append(<< >>, c) = <<c>>
  OBVIOUS
<1>17. Met(p) = <<c>>
  BY <1>13, <1>15, <1>16 DEF Met
<1>18. \E i \in 0 .. Len(source) : Met(i) = <<c>>
  BY <1>11, <1>17
<1> QED
  BY <1>2, <1>3, <1>4, <1>7, <1>8, <1>18 DEF c

\* The loop goes on, and nothing is removed.
LEMMA LoopAlone ==
  ASSUME Inv, Ground, Following, ~inserted, Pass \/ Skip \/ Find
  PROVE  Ground' /\ Following'
<1>1. /\ Looping /\ Walking /\ walk.limit # 0
      /\ UNCHANGED <<rows, array, len, I, indexed, patching, before, source>>
  BY DEF Pass, Skip, Find, Chosen, Looping, Over, rows, history
<1>2. Ground' /\ Contents' = Contents
  BY <1>1 DEF Ground, PlacesOK, Contents
<1>3. /\ walk \in Walk /\ Place /\ walk.skip \in Nat /\ walk.skip <= walk.request.skip
      /\ handed \in Seq(Row)
      /\ IsGet => walk.request.filter = {walk.request.from} /\ walk.request.skip = 0
  BY <1>1, WalkProperties DEF Place
<1>4. /\ walk'.request = walk.request /\ walk'.by = walk.by /\ walk'.bound = walk.bound
      /\ walk'.at = Advanced
      /\ \/ /\ Current \notin walk.request.filter
            /\ handed' = handed /\ walk'.skip = walk.skip /\ walk'.limit = walk.limit
         \/ /\ Current \in walk.request.filter /\ walk.skip > 0
            /\ handed' = handed /\ walk'.skip = walk.skip - 1 /\ walk'.limit = walk.limit
         \/ /\ Current \in walk.request.filter /\ walk.skip = 0
            /\ handed' = Append(handed, Current) /\ walk'.skip = 0 /\ walk'.limit = Left
  <2>1. CASE Pass
    BY <1>3, <2>1 DEF Pass, Walk
  <2>2. CASE Skip
    BY <1>3, <2>2 DEF Skip, Walk
  <2>3. CASE Find
    BY <1>3, <2>3 DEF Find, Chosen, Walk
  <2> QED
    BY <2>1, <2>2, <2>3
<1>5. handed' = handed \/ walk.request.op # "remove"
  BY DEF Pass, Skip, Find
<1>6. /\ source' \in Seq(Row) /\ (patching' # NoRow => IsGet')
      /\ (walk'.by = walk'.request.by \/ IsGet')
      /\ (IsGet' => Scannable') /\ (IsGet' <=> IsGet) /\ (LooksInMap' <=> LooksInMap)
      /\ (LooksInMap' /\ walk'.bound = 1 => walk'.request.from \in Contents')
  BY <1>1, <1>2, <1>4 DEF Following, IsGet, Scannable, LooksInMap
<1>7. Contents' = IF walk'.request.op = "remove" THEN before' \ ToSet(handed') ELSE before'
  BY <1>1, <1>2, <1>4, <1>5 DEF Following, ToSet
<1>8. ASSUME Follows PROVE Follows'
  <2>1. CASE ~LooksInMap
    <3>1. PICK p \in 0 .. Len(source) :
            /\ p < Len(source) /\ Progress(p) /\ Reads(p) /\ Clean(p + 1)
            /\ Current = source[p + 1] /\ Current \in Contents
      BY <1>1, <1>8, <2>1, AtNext
    <3>2. source \in Seq(Row) /\ StepsOn
      BY <1>1, <1>4 DEF Following, StepsOn
    <3>3. Reads(p + 1)'
      BY <1>1, <3>1, <3>2, ReadsOn
    <3>4. Progress(p + 1)'
      BY <1>1, <1>4, <3>1, <3>2, ProgressOn
    <3>5. p + 1 \in 0 .. Len(source')
      BY <1>1, <3>1, <3>2
    <3>6. Clean(p + 1)'
      BY <1>1, <1>4, <3>1 DEF Clean
    <3> QED
      BY <1>6, <2>1, <3>3, <3>4, <3>5, <3>6 DEF Follows
  <2>2. CASE LooksInMap
    <3>1. /\ Current = walk.request.from /\ walk.request.filter = {Current}
          /\ walk.skip = 0 /\ walk.limit = 1 /\ handed = << >>
      BY <1>1, <1>8, <2>2, FoundInMap
    <3>2. PICK p \in 0 .. Len(source) : Met(p) = <<Current>>
      BY <1>1, <1>8, <2>2, FoundInMap
    <3>3. handed' = Append(<< >>, Current) /\ walk'.skip = 0 /\ walk'.limit = 0
      BY <1>4, <3>1 DEF Left, All
    <3>4. Met(p)' = <<Current>>
      BY <1>1, <1>4, <3>2 DEF Met
    <3>5. handed' = <<Current>> /\ Len(<<Current>>) = 1 /\ <<Current>>[1] = Current
      BY <3>3
    <3>6. walk'.request.skip = 0 /\ walk'.request.limit = 1
      BY <1>1, <1>4, <2>2, WalkProperties DEF LooksInMap
    <3>7. Progress(p)'
      BY <3>3, <3>4, <3>5, <3>6 DEF Progress, All
    <3>8. p \in 0 .. Len(source')
      BY <1>1
    <3>9. Clean(p)'
      BY <1>1, <1>4, <2>2, WalkProperties DEF LooksInMap, Clean
    <3> QED
      BY <3>3, <3>7, <3>8, <3>9 DEF Follows
  <2> QED
    BY <2>1, <2>2
<1>9. Ascending(walk'.request) \/ Follows'
  BY <1>4, <1>8 DEF Following
<1> QED
  BY <1>2, <1>6, <1>7, <1>9 DEF Following

\* What a walk removes is in the collection, and in no other handler's hands.
LEMMA RemovesWhatIsThere ==
  ASSUME Inv, Ground, Following, ~inserted, Looping, walk.request.op = "remove"
  PROVE  /\ patching = NoRow /\ ~IsGet /\ ~LooksInMap /\ walk.by = walk.request.by
         /\ Current \in Contents /\ Current \in Row /\ Current # patching
<1>1. Walking /\ Current # NoRow
  BY DEF Looping, Over
<1>2. patching = NoRow /\ ~IsGet /\ ~LooksInMap /\ walk.by = walk.request.by
  BY DEF Following, IsGet, LooksInMap
<1>3. indexed \subseteq Contents /\ indexed \subseteq Row /\ Contents \subseteq Row
  BY GroundProperties
<1>4. CASE Ascending(walk.request)
  <2>1. Current = Entry
    BY <1>2, <1>4 DEF Ascending, Current
  <2>2. walk.at \in 1 .. Cardinality(indexed) /\ Entry = Sorted(indexed)[walk.at]
    BY <1>1, <2>1 DEF Entry
  <2>3. Current \in indexed
    BY <1>3, <2>1, <2>2, SortedRank
  <2> QED
    BY <1>1, <1>2, <1>3, <2>3
<1>5. CASE ~Ascending(walk.request)
  <2>1. Current \in Contents
    BY <1>2, <1>5, AtNext DEF Following
  <2> QED
    BY <1>1, <1>2, <1>3, <2>1
<1> QED
  BY <1>4, <1>5

LEMMA RemoveCurrentAlone ==
  ASSUME Inv, Ground, Following, ~inserted, RemoveCurrent
  PROVE  Ground' /\ Following'
<1>1. /\ Looping /\ Walking /\ walk.limit # 0 /\ Current \in walk.request.filter /\ walk.skip = 0
      /\ walk.request.op = "remove" /\ RemoveByRow(Current)
      /\ handed' = Append(handed, Current)
      /\ walk' = [walk EXCEPT !.at = Advanced, !.limit = Left]
      /\ UNCHANGED <<patching, before, source>>
  BY DEF RemoveCurrent, Chosen, Looping, Over
<1>2. /\ patching = NoRow /\ ~IsGet /\ ~LooksInMap /\ walk.by = walk.request.by
      /\ Current \in Contents /\ Current \in Row /\ Current # patching
  BY <1>1, RemovesWhatIsThere
<1>3. Ground' /\ Contents' = Contents \ {Current}
  BY <1>1, <1>2, RemovesRow
<1>4. walk \in Walk /\ handed \in Seq(Row)
  BY <1>1, WalkProperties
<1>5. /\ walk'.request = walk.request /\ walk'.by = walk.by /\ walk'.bound = walk.bound
      /\ walk'.at = Advanced /\ walk'.skip = 0 /\ walk'.limit = Left
  BY <1>1, <1>4 DEF Walk
<1>6. ToSet(handed') = ToSet(handed) \cup {Current}
  <2>1. /\ Len(handed') = Len(handed) + 1 /\ handed'[Len(handed) + 1] = Current
        /\ \A k \in 1 .. Len(handed) : handed'[k] = handed[k]
        /\ DOMAIN handed = 1 .. Len(handed) /\ DOMAIN handed' = 1 .. Len(handed')
        /\ Len(handed) \in Nat
    BY <1>1, <1>2, <1>4
  <2>2. DOMAIN handed' = DOMAIN handed \cup {Len(handed) + 1}
    BY <2>1
  <2> QED
    BY <2>1, <2>2 DEF ToSet
<1>7. Contents' = before' \ ToSet(handed')
  BY <1>1, <1>3, <1>6 DEF Following
<1>8. /\ source' \in Seq(Row) /\ patching' = NoRow /\ walk'.by = walk'.request.by
      /\ ~IsGet' /\ ~LooksInMap'
  BY <1>1, <1>2, <1>5 DEF Following, IsGet, LooksInMap
<1>9. ASSUME ~Ascending(walk.request) PROVE Follows'
  <2>1. PICK p \in 0 .. Len(source) :
          /\ p < Len(source) /\ Progress(p) /\ Reads(p) /\ Clean(p + 1)
          /\ Current = source[p + 1] /\ Current \in Contents
    BY <1>1, <1>2, <1>9, AtNext DEF Following
  <2>2. source \in Seq(Row) /\ StepsOn
    BY <1>1, <1>5 DEF Following, StepsOn
  <2>3. Reads(p + 1)'
    BY <1>1, <1>2, <1>9, <2>1, <2>2, ReadsOnRemoved
  <2>4. Progress(p + 1)'
    BY <1>1, <1>5, <2>1, <2>2, ProgressOn
  <2>5. p + 1 \in 0 .. Len(source')
    BY <1>1, <2>1, <2>2
  <2>6. Clean(p + 1)'
    BY <1>1, <1>5, <2>1 DEF Clean
  <2> QED
    BY <1>8, <2>3, <2>4, <2>5, <2>6 DEF Follows
<1>10. Ascending(walk'.request) \/ Follows'
  BY <1>5, <1>9
<1> QED
  BY <1>1, <1>3, <1>5, <1>7, <1>8, <1>10 DEF Following

LEMMA RemoveSucceeds ==
  ASSUME Inv, Ground, Following, ~inserted, RemoveFails
  PROVE  FALSE
<1>1. Looping /\ walk.request.op = "remove" /\ I[Current] > len
  BY DEF RemoveFails, Chosen
<1>2. Current \in Contents
  BY <1>1, RemovesWhatIsThere
<1>3. I[Current] \in 1 .. len /\ len \in Nat
  BY <1>2, GroundProperties
<1> QED
  BY <1>1, <1>3

LEMMA FallThroughAlone ==
  ASSUME Inv, Ground, Following, ~inserted, FallThrough
  PROVE  Ground' /\ Following'
<1>1. /\ Walking /\ IsGet /\ walk.by = "map" /\ walk.limit # 0 /\ LooksInMap
      /\ walk' = [walk EXCEPT !.by = "scan", !.at = 1, !.bound = len]
      /\ UNCHANGED <<array, len, I, indexed, patching, handed, before, source>>
  BY DEF FallThrough, Misses, Getting, IsGet, LooksInMap, rows, history
<1>2. Ground' /\ Contents' = Contents
  BY <1>1 DEF Ground, PlacesOK, Contents
<1>3. walk \in Walk
  BY <1>1, WalkProperties
<1>4. /\ walk'.request = walk.request /\ walk'.by = "scan" /\ walk'.at = 1 /\ walk'.bound = len
      /\ walk'.skip = walk.skip /\ walk'.limit = walk.limit
  BY <1>1, <1>3 DEF Walk
<1>5. /\ len \in Nat /\ \A k \in 1 .. len : array[k] \in Contents /\ I[array[k]] = k
  BY GroundProperties
<1>6. Len(source) = len /\ \A i \in 1 .. len : source[i] = array[i]
  BY <1>1 DEF Following, Scannable
<1>7. Reads(0)'
  <2>1. \A i \in 0 + 1 .. len : i \in 1 .. len /\ i \in Nat
    BY <1>5
  <2>2. \A i \in 0 + 1 .. len :
          array'[i] = source'[i] /\ source'[i] \in Contents' /\ I'[source'[i]] <= i
    BY <1>1, <1>2, <1>5, <1>6, <2>1
  <2>3. \A i, k \in 0 + 1 .. len : source'[i] = source'[k] => i = k
    BY <1>1, <1>5, <1>6, <2>1
  <2>4. walk'.at = 0 + 1 /\ walk'.bound = len /\ Len(source') = len
    BY <1>1, <1>4, <1>6
  <2>5. ReadsScan(0)'
    BY <2>2, <2>3, <2>4 DEF ReadsScan
  <2> QED
    BY <1>4, <2>5 DEF Reads
<1>8. ~Ascending(walk.request)
  BY <1>1 DEF Ascending, IsGet
<1>9. Progress(0)
  BY <1>1, <1>8 DEF Following, Follows
<1>10. Progress(0)'
  <2>1. Met(0)' = Met(0)
    BY <1>1, <1>4 DEF Met
  <2> QED
    BY <1>1, <1>4, <1>9, <2>1 DEF Progress
<1>11. IsGet' /\ ~LooksInMap'
  BY <1>1, <1>4 DEF IsGet, LooksInMap
<1>12. Follows'
  <2>1. 0 \in 0 .. Len(source')
    BY <1>1, <1>5, <1>6
  <2> QED
    BY <1>7, <1>10, <1>11, <2>1 DEF Follows, Clean
<1>13. Scannable'
  BY <1>1, <1>6 DEF Scannable
<1>14. Contents' = IF walk'.request.op = "remove" THEN before' \ ToSet(handed') ELSE before'
  BY <1>1, <1>2, <1>4 DEF Following
<1> QED
  BY <1>1, <1>2, <1>11, <1>12, <1>13, <1>14 DEF Following

\* Other handlers, between two requests or in a patch under a get.
LEMMA OthersAlone ==
  ASSUME Inv, AloneInv, Alone, Alone',
         Reindex \/ \E r \in Row : Insert(r) \/ Remove(r) \/ Unindex(r)
  PROVE  Ground' /\ (Walking' => Following')
<1>1. Ground /\ (Walking => Following) /\ ~inserted /\ ~inserted' /\ ~removed'
  BY DEF AloneInv, Alone
<1>2. ASSUME NEW r \in Row, Insert(r) PROVE Ground' /\ (Walking' => Following')
  <2>1. ~Walking /\ walk' = walk
    BY <1>1, <1>2 DEF Insert
  <2> QED
    BY <1>1, <1>2, <2>1, InsertsRow DEF Walking
<1>3. ASSUME NEW r \in Row, Remove(r) PROVE Ground' /\ (Walking' => Following')
  <2>1. ~Walking /\ UNCHANGED <<walk, patching>>
    BY <1>1, <1>3 DEF Remove
  <2>2. r \in Contents /\ r # patching /\ RemoveByRow(r)
    BY <1>3 DEF Remove
  <2> QED
    BY <1>1, <2>1, <2>2, RemovesRow DEF Walking
<1>4. ASSUME Reindex \/ \E r \in Row : Unindex(r) PROVE Ground' /\ (Walking' => Following')
  <2>1. UNCHANGED <<array, len, I, unborn, walk, held, handed, before, source>>
    BY <1>4 DEF Reindex, Unindex, history
  <2>2. Contents' = Contents /\ PlacesOK' /\ NoRow \notin Contents
    BY <1>1, <2>1, GroundProperties DEF Contents, PlacesOK, Ground
  <2>3. indexed' = Contents \ {patching'} /\ patching' \in Contents \cup {NoRow}
    <3>1. CASE Reindex
      BY <1>1, <2>2, <3>1 DEF Reindex, Ground
    <3>2. CASE \E r \in Row : Unindex(r)
      BY <1>1, <2>2, <3>2 DEF Unindex, Ground
    <3> QED
      BY <1>4, <3>1, <3>2
  <2>4. Ground'
    BY <2>2, <2>3 DEF Ground
  <2>5. ASSUME Walking PROVE Following'
    <3>1. Following
      BY <1>1, <2>5
    <3>2. IsGet /\ IsGet' /\ (LooksInMap' <=> LooksInMap)
      BY <1>4, <2>1, <3>1 DEF Reindex, Unindex, Getting, IsGet, LooksInMap, Following
    <3>3. ~Ascending(walk.request) /\ walk.by \in {"map", "scan"}
      BY <1>1, <2>5, <3>2, WalkProperties DEF Ascending, IsGet
    <3>4. Follows
      BY <3>1, <3>3 DEF Following
    <3>5. \A p : Progress(p) => Progress(p)'
      BY <2>1 DEF Progress, Met
    <3>6. \A p : Reads(p) => Reads(p)'
      BY <2>1, <2>2, <3>3 DEF Reads, ReadsScan, ReadsMap
    <3>7. Follows'
      BY <2>1, <3>2, <3>4, <3>5, <3>6 DEF Follows, Clean
    <3>8. Scannable'
      BY <2>1, <3>1, <3>2 DEF Following, Scannable
    <3> QED
      BY <2>1, <2>2, <3>1, <3>2, <3>7, <3>8 DEF Following
  <2> QED
    BY <2>1, <2>4, <2>5 DEF Walking
<1> QED
  BY <1>2, <1>3, <1>4

LEMMA AloneNext ==
  ASSUME Inv, AloneInv, [Next]_vars
  PROVE  AloneInv'
<1> SUFFICES ASSUME Alone' PROVE Ground' /\ (Walking' => Following')
  BY DEF AloneInv
<1>1. (inserted => inserted') /\ (removed => removed')
  <2>1. CASE Step \/ Reindex \/ UNCHANGED vars
    <3>1. inserted' = inserted /\ removed' = removed
      BY <2>1 DEF Step, Reindex, FallThrough, Finish, Pass, Skip, Find, RemoveCurrent, RemoveFails,
                  history, vars
    <3> QED
      BY <3>1
  <2>2. CASE \E q \in Request : Start(q)
    <3>1. inserted' = inserted /\ removed' = removed
      BY <2>2 DEF Start
    <3> QED
      BY <3>1
  <2>3. ASSUME NEW r \in Row, Insert(r) \/ Remove(r) \/ Unindex(r)
        PROVE  (inserted => inserted') /\ (removed => removed')
    <3>1. CASE Insert(r)
      BY <3>1, Zenon DEF Insert
    <3>2. CASE Remove(r)
      BY <3>2, Zenon DEF Remove
    <3>3. CASE Unindex(r)
      BY <3>3, Zenon DEF Unindex, history
    <3> QED
      BY <2>3, <3>1, <3>2, <3>3
  <2> QED
    BY <2>1, <2>2, <2>3 DEF Next
<1>2. Alone /\ ~inserted /\ Ground /\ (Walking => Following)
  BY <1>1 DEF Alone, AloneInv
<1>3. CASE Reindex \/ \E r \in Row : Insert(r) \/ Remove(r) \/ Unindex(r)
  BY <1>2, <1>3, OthersAlone
<1>4. CASE \E q \in Request : Start(q)
  BY <1>2, <1>4, StartAlone
<1>5. CASE FallThrough
  <2>1. Walking
    BY <1>5 DEF FallThrough, Misses, Getting
  <2> QED
    BY <1>2, <1>5, <2>1, FallThroughAlone
<1>6. CASE Finish
  <2>1. UNCHANGED <<array, len, I, indexed, patching>> /\ ~Walking'
    BY <1>6 DEF Finish, rows, Walking
  <2> QED
    BY <1>2, <2>1 DEF Ground, PlacesOK, Contents
<1>7. CASE Pass \/ Skip \/ Find \/ RemoveCurrent \/ RemoveFails
  <2>1. Walking
    BY <1>7 DEF Pass, Skip, Find, RemoveCurrent, RemoveFails, Chosen, Looping
  <2> QED
    BY <1>2, <1>7, <2>1, LoopAlone, RemoveCurrentAlone, RemoveSucceeds
<1>8. CASE UNCHANGED vars
  <2>1. UNCHANGED <<array, len, I, indexed, patching, walk, handed, before, source>>
    BY <1>8 DEF vars, rows, history
  <2>2. Ground' /\ Contents' = Contents
    BY <1>2, <2>1 DEF Ground, PlacesOK, Contents
  <2>3. ASSUME Walking PROVE Following'
    <3>1. /\ Following /\ (IsGet' <=> IsGet) /\ (LooksInMap' <=> LooksInMap)
          /\ (Scannable' <=> Scannable)
      BY <1>2, <2>1, <2>3 DEF IsGet, LooksInMap, Scannable
    <3>2. \A p : Progress(p) => Progress(p)'
      BY <2>1 DEF Progress, Met
    <3>3. \A p : Reads(p) => Reads(p)'
      BY <2>1, <2>2 DEF Reads, ReadsScan, ReadsMap
    <3>4. Follows => Follows'
      BY <2>1, <3>1, <3>2, <3>3 DEF Follows, Clean
    <3> QED
      BY <2>1, <2>2, <3>1, <3>4 DEF Following
  <2> QED
    BY <2>1, <2>2, <2>3 DEF Walking
<1> QED
  BY <1>3, <1>4, <1>5, <1>6, <1>7, <1>8 DEF Next, Step

LEMMA AloneInvHolds == Spec => [](Inv /\ AloneInv)
<1>1. Init => Inv /\ AloneInv
  <2>1. Init => Contents = {} /\ len = 0 /\ indexed = {} /\ patching = NoRow /\ ~Walking
    BY DEF Init, Contents, Walking
  <2> QED
    BY <2>1, InvInit DEF Init, AloneInv, Ground, PlacesOK
<1>2. Inv /\ AloneInv /\ [Next]_vars => (Inv /\ AloneInv)'
  BY InvNext, AloneNext
<1> QED
  BY <1>1, <1>2, PTL DEF Spec

\* A request no other handler interferes with, over a collection of any size
\* and with any filter, skip and limit, hands out exactly what it asks for, in
\* order, also when it removes what it walks over (0_traverse.go, remove.go,
\* removeByRow in collection.go:466-488), and removes that and nothing else.
THEOREM SpecHandsOutWhatIsAsked == Spec => []HandsOutWhatIsAsked
<1>1. Inv /\ AloneInv => HandsOutWhatIsAsked
  <2> SUFFICES ASSUME Inv, AloneInv, Over, Alone
               PROVE  /\ Ascending(walk.request) \/ handed = AskedFor(walk.request, source)
                      /\ Contents = IF walk.request.op = "remove" THEN before \ ToSet(handed)
                                    ELSE before
    BY DEF HandsOutWhatIsAsked
  <2>1. /\ Walking /\ ~Misses /\ ~inserted
        /\ Current = NoRow \/ walk.limit = 0 \/ Current \in walk.request.fails
    BY DEF Over, Alone
  <2>2. Ground /\ Following /\ source \in Seq(Row)
    BY <2>1 DEF AloneInv, Following
  <2>3. Contents = IF walk.request.op = "remove" THEN before \ ToSet(handed) ELSE before
    BY <2>2 DEF Following
  <2>4. ASSUME ~Ascending(walk.request) PROVE handed = AskedFor(walk.request, source)
    <3>1. PICK p \in 0 .. Len(source) :
            /\ Progress(p) /\ Clean(p) /\ (~LooksInMap => walk.limit = 0 \/ Reads(p))
      BY <2>2, <2>4 DEF Following, Follows
    <3>2. walk.limit = 0 \/ (p < Len(source) => source[p + 1] \in walk.request.fails)
      <4> SUFFICES ASSUME walk.limit # 0, p < Len(source) PROVE source[p + 1] \in walk.request.fails
        OBVIOUS
      <4>1. IsGet => walk.request.fails = {}
        BY <2>1, WalkProperties
      <4>2. ~LooksInMap
        BY <2>1, <4>1 DEF Misses, LooksInMap, Getting, IsGet
      <4>3. Current = source[p + 1] /\ Current \in Row
        BY <2>1, <2>2, <3>1, <4>2, ReadsCurrent
      <4> QED
        BY <2>1, <4>3, TraverseAssumption
    <3> QED
      BY <2>1, <2>2, <3>1, <3>2, AnswerIsAsked
  <2> QED
    BY <2>3, <2>4
<1> QED
  BY <1>1, AloneInvHolds, PTL
=============================================================================

-------------------------- MODULE MergePatchProofs --------------------------
(***************************************************************************)
(* Merge patch for values of any depth, over any keys and leaves: the      *)
(* merge is the one of RFC 7386, a patch that is sent again is dropped,    *)
(* and the diffs in the journal add up to the payload in memory.           *)
(*                                                                         *)
(* The proofs are by induction over values.  It rests on the order of the  *)
(* natural numbers (Upwards), from which each recursive function is shown  *)
(* to exist, level by level.                                               *)
(***************************************************************************)
EXTENDS MergePatch, WellFoundedInduction, TLAPS

LEMMA Least ==
  ASSUME NEW S, S \subseteq Nat, S # {}
  PROVE  \E x \in S : \A y \in S : x <= y
<1>1. IsWellFoundedOn(OpToRel(<, Nat), Nat)
  BY NatLessThanWellFounded
<1>2. PICK x \in S : \A y \in S : ~ (<<y, x>> \in OpToRel(<, Nat))
  BY <1>1, WFMin
<1>3. \A y \in S : y \in Nat /\ x \in Nat /\ ~ (y < x)
  BY <1>2 DEF OpToRel
<1> QED
  BY <1>3

\* Induction over the levels.
LEMMA Upwards ==
  ASSUME NEW d \in Nat, NEW S, 0 \in S, \A n \in 0 .. d - 1 : n \in S => n + 1 \in S
  PROVE  0 .. d \subseteq S
<1> SUFFICES ASSUME NEW n \in 0 .. d, n \notin S PROVE FALSE
  OBVIOUS
<1> DEFINE Out == {m \in 0 .. d : m \notin S}
<1>1. Out \subseteq Nat /\ Out # {}
  OBVIOUS
<1> HIDE DEF Out
<1>2. PICK m \in Out : \A k \in Out : m <= k
  BY <1>1, Least
<1> USE DEF Out
<1>3. m \in 0 .. d /\ m \notin S /\ m # 0
  BY <1>2
<1>4. m - 1 \in 0 .. d - 1 /\ m - 1 \notin Out
  BY <1>2, <1>3
<1>5. m - 1 \in S /\ (m - 1) + 1 = m
  BY <1>3, <1>4
<1> QED
  BY <1>3, <1>4, <1>5

LEMMA ObjectsProperties ==
  /\ \A S, v : v \in Objects(S) <=> DOMAIN v \subseteq Key /\ v \in [DOMAIN v -> S]
  /\ \A S, T : S \subseteq T => Objects(S) \subseteq Objects(T)
  /\ \A S : Empty \in Objects(S)
<1>1. \A S, v : v \in Objects(S) <=> DOMAIN v \subseteq Key /\ v \in [DOMAIN v -> S]
  BY DEF Objects
<1>2. \A S, D, f : f \in [D -> S] => DOMAIN f = D
  OBVIOUS
<1>3. ASSUME NEW S, NEW T, S \subseteq T, NEW v \in Objects(S)
      PROVE  v \in Objects(T)
  <2>1. DOMAIN v \subseteq Key /\ v \in [DOMAIN v -> S]
    BY <1>1
  <2>2. v \in [DOMAIN v -> T]
    BY <2>1, <1>3
  <2> QED
    BY <1>1, <2>1, <2>2
<1>4. \A S : Empty \in Objects(S)
  BY <1>1 DEF Empty
<1> QED
  BY <1>1, <1>3, <1>4

LEMMA LevelExists ==
  ASSUME NEW d \in Nat
  PROVE  \E f : f = [n \in 0 .. d |-> Leaf \cup (IF n = 0 THEN {Empty} ELSE Objects(f[n - 1]))]
<1> DEFINE Above(f, n) == Leaf \cup (IF n = 0 THEN {Empty} ELSE Objects(f[n - 1]))
           Good == {m \in 0 .. d : \E f : f = [n \in 0 .. m |-> Above(f, n)]}
<1>1. 0 \in Good
  <2> DEFINE f == [n \in 0 .. 0 |-> Leaf \cup {Empty}]
  <2>1. f = [n \in 0 .. 0 |-> Above(f, n)]
    OBVIOUS
  <2> HIDE DEF f
  <2>2. \E h : h = [n \in 0 .. 0 |-> Above(h, n)]
    BY <2>1
  <2> QED
    BY <2>2
<1>2. ASSUME NEW m \in 0 .. d - 1, m \in Good PROVE m + 1 \in Good
  <2>1. PICK f : f = [n \in 0 .. m |-> Above(f, n)]
    BY <1>2
  <2> DEFINE g == [n \in 0 .. m + 1 |-> IF n = m + 1 THEN Leaf \cup Objects(f[m]) ELSE f[n]]
  <2>2. \A n \in 0 .. m + 1 : g[n] = Above(g, n)
    <3> SUFFICES ASSUME NEW n \in 0 .. m + 1 PROVE g[n] = Above(g, n)
      OBVIOUS
    <3>1. CASE n = m + 1
      BY <3>1
    <3>2. CASE n # m + 1
      <4>1. n \in 0 .. m /\ g[n] = f[n] /\ f[n] = Above(f, n)
        <5>1. n \in 0 .. m /\ g[n] = f[n]
          BY <3>2
        <5>2. \A i \in 0 .. m : f[i] = Above(f, i)
          BY <2>1
        <5> QED
          BY <5>1, <5>2
      <4>2. n # 0 => n - 1 \in 0 .. m /\ g[n - 1] = f[n - 1]
        BY <4>1
      <4> QED
        BY <4>1, <4>2
    <3> QED
      BY <3>1, <3>2
  <2>3. g = [n \in 0 .. m + 1 |-> Above(g, n)]
    BY <2>2
  <2> HIDE DEF g
  <2> QED
    BY <2>3
<1> HIDE DEF Good
<1>3. d \in Good
  BY <1>1, <1>2, Upwards
<1> QED
  BY <1>3 DEF Good

LEMMA LevelProperties ==
  /\ Level[0] = Leaf \cup {Empty}
  /\ \A n \in 1 .. Depth : Level[n] = Leaf \cup Objects(Level[n - 1])
<1>1. Level = [n \in 0 .. Depth |-> Leaf \cup (IF n = 0 THEN {Empty} ELSE Objects(Level[n - 1]))]
  BY LevelExists, MergePatchAssumption DEF Level
<1>2. \A n \in 0 .. Depth : Level[n] = Leaf \cup (IF n = 0 THEN {Empty} ELSE Objects(Level[n - 1]))
  BY <1>1
<1>3. 0 \in 0 .. Depth /\ \A n \in 1 .. Depth : n \in 0 .. Depth /\ n # 0
  BY MergePatchAssumption
<1> QED
  BY <1>2, <1>3

-----------------------------------------------------------------------------
(***************************************************************************)
(* Values.                                                                 *)
(***************************************************************************)

LEMMA LevelsGrow ==
  /\ \A n \in 1 .. Depth : Level[n - 1] \subseteq Level[n]
  /\ \A n \in 0 .. Depth : Leaf \subseteq Level[n] /\ Empty \in Level[n] /\ Level[n] \subseteq Value
<1>0. Depth \in Nat
  BY MergePatchAssumption
<1> DEFINE Grown == {n \in 0 .. Depth : n = 0 \/ Level[n - 1] \subseteq Level[n]}
<1>1. 0 \in Grown
  BY <1>0
<1>2. ASSUME NEW n \in 0 .. Depth - 1, n \in Grown PROVE n + 1 \in Grown
  <2>1. n + 1 \in 1 .. Depth /\ (n + 1) - 1 = n /\ n + 1 \in 0 .. Depth
    BY <1>0
  <2>2. Level[n + 1] = Leaf \cup Objects(Level[n])
    BY <2>1, LevelProperties
  <2>3. CASE n = 0
    <3>1. Level[0] \subseteq Level[n + 1]
      BY <2>2, LevelProperties, ObjectsProperties
    <3> QED
      BY <2>1, <2>3, <3>1
  <2>4. CASE n # 0
    <3>1. n \in 1 .. Depth /\ Level[n - 1] \subseteq Level[n]
      BY <1>0, <1>2, <2>4
    <3>2. Level[n] = Leaf \cup Objects(Level[n - 1])
      BY <3>1, LevelProperties
    <3>3. Level[n] \subseteq Level[n + 1]
      BY <2>2, <3>1, <3>2, ObjectsProperties
    <3> QED
      BY <2>1, <3>3
  <2> QED
    BY <2>3, <2>4
<1> HIDE DEF Grown
<1>3. 0 .. Depth \subseteq Grown
  BY <1>0, <1>1, <1>2, Upwards
<1>4. \A n \in 1 .. Depth : Level[n - 1] \subseteq Level[n]
  <2> SUFFICES ASSUME NEW n \in 1 .. Depth PROVE Level[n - 1] \subseteq Level[n]
    OBVIOUS
  <2>1. n \in 0 .. Depth /\ n # 0
    BY <1>0
  <2> QED
    BY <1>3, <2>1 DEF Grown
<1> DEFINE Below == {i \in 0 .. Depth : Level[Depth - i] \subseteq Value}
<1>5. 0 \in Below
  <2>1. Depth - 0 = Depth /\ 0 \in 0 .. Depth
    BY <1>0
  <2> QED
    BY <2>1 DEF Value
<1>6. ASSUME NEW i \in 0 .. Depth - 1, i \in Below PROVE i + 1 \in Below
  <2>1. Depth - i \in 1 .. Depth /\ (Depth - i) - 1 = Depth - (i + 1) /\ i + 1 \in 0 .. Depth
    BY <1>0
  <2>2. Level[Depth - (i + 1)] \subseteq Level[Depth - i]
    BY <1>4, <2>1
  <2> QED
    BY <1>6, <2>1, <2>2
<1> HIDE DEF Below
<1>7. 0 .. Depth \subseteq Below
  BY <1>0, <1>5, <1>6, Upwards
<1>8. ASSUME NEW n \in 0 .. Depth
      PROVE  Leaf \subseteq Level[n] /\ Empty \in Level[n] /\ Level[n] \subseteq Value
  <2>1. Depth - n \in 0 .. Depth /\ Depth - (Depth - n) = n
    BY <1>0
  <2>2. Level[n] \subseteq Value
    BY <1>7, <2>1 DEF Below
  <2>3. CASE n = 0
    BY <2>2, <2>3, LevelProperties
  <2>4. CASE n # 0
    <3>1. n \in 1 .. Depth
      BY <1>0, <2>4
    <3> QED
      BY <2>2, <3>1, LevelProperties, ObjectsProperties
  <2> QED
    BY <2>3, <2>4
<1> QED
  BY <1>4, <1>8

\* A function with fields in Level[n - 1] is an object of Level[n], and the
\* other way round.
LEMMA LevelFields ==
  ASSUME NEW n \in 0 .. Depth, NEW v \in Level[n]
  PROVE  /\ IsObject(v) => /\ DOMAIN v \subseteq Key /\ v = [k \in DOMAIN v |-> v[k]]
                           /\ n = 0 => v = Empty
                           /\ n # 0 => n - 1 \in 0 .. Depth /\ \A k \in DOMAIN v : v[k] \in Level[n - 1]
         /\ n # 0 => \A k : At(v, k) \in Level[n - 1]
<1>0. Depth \in Nat
  BY MergePatchAssumption
<1>1. CASE n = 0
  <2>1. IsObject(v) => v = Empty
    BY <1>1, LevelProperties DEF IsObject
  <2>2. DOMAIN Empty \subseteq Key /\ Empty = [k \in DOMAIN Empty |-> Empty[k]]
    BY DEF Empty
  <2> QED
    BY <1>1, <2>1, <2>2
<1>2. CASE n # 0
  <2>1. n \in 1 .. Depth /\ n - 1 \in 0 .. Depth
    BY <1>0, <1>2
  <2>2. Null \in Level[n - 1]
    BY <2>1, LevelsGrow DEF Leaf
  <2>3. IsObject(v) => v \in Objects(Level[n - 1])
    BY <2>1, LevelProperties DEF IsObject
  <2>4. IsObject(v) => DOMAIN v \subseteq Key /\ v \in [DOMAIN v -> Level[n - 1]]
    BY <2>3, ObjectsProperties
  <2>5. \A k : At(v, k) \in Level[n - 1]
    BY <2>2, <2>4 DEF At, Fields
  <2> QED
    BY <1>2, <2>1, <2>4, <2>5
<1> QED
  BY <1>1, <1>2

LEMMA ValueProperties ==
  /\ Leaf \subseteq Value /\ Null \in Value /\ Empty \in Document
  /\ \A v \in Value : v \in Leaf \/ v \in Document
  /\ \A v \in Leaf : v \in Value /\ v \notin Document /\ ~IsObject(v) /\ Fields(v) = {}
  /\ \A v \in Document : /\ v \in Value /\ v \notin Leaf /\ IsObject(v) /\ Fields(v) = DOMAIN v
                         /\ DOMAIN v \subseteq Key /\ v = [k \in DOMAIN v |-> v[k]]
                         /\ \A k \in DOMAIN v : v[k] \in Value
  /\ \A v \in Value : \A k : At(v, k) \in Value
  /\ \A n \in 1 .. Depth : \A v : /\ DOMAIN v \subseteq Key /\ v = [k \in DOMAIN v |-> v[k]]
                                  /\ \A k \in DOMAIN v : v[k] \in Level[n - 1]
                                  => v \in Level[n] /\ v \in Document
<1>0. Depth \in Nat /\ Depth \in 0 .. Depth
  BY MergePatchAssumption
<1>1. Leaf \subseteq Value /\ Null \in Value /\ Empty \in Value
  BY <1>0, LevelsGrow DEF Leaf
<1>2. \A v \in Objects(Value) : v \notin Leaf
  BY MergePatchAssumption
<1>3. Empty \in Document
  BY <1>1, <1>2, ObjectsProperties DEF Document
<1>4. ASSUME NEW v \in Document
      PROVE  /\ v \in Value /\ v \notin Leaf /\ IsObject(v) /\ Fields(v) = DOMAIN v
             /\ DOMAIN v \subseteq Key /\ v = [k \in DOMAIN v |-> v[k]]
             /\ \A k \in DOMAIN v : v[k] \in Value
  <2>1. v \in Value /\ v \notin Leaf /\ IsObject(v) /\ Fields(v) = DOMAIN v /\ v \in Level[Depth]
    BY DEF Document, IsObject, Fields, Value
  <2>2. CASE Depth = 0
    BY <1>0, <2>1, <2>2, LevelFields DEF Empty
  <2>3. CASE Depth # 0
    <3>1. /\ DOMAIN v \subseteq Key /\ v = [k \in DOMAIN v |-> v[k]] /\ Depth - 1 \in 0 .. Depth
          /\ \A k \in DOMAIN v : v[k] \in Level[Depth - 1]
      BY <1>0, <2>1, <2>3, LevelFields
    <3>2. Level[Depth - 1] \subseteq Value
      BY <3>1, LevelsGrow
    <3> QED
      BY <2>1, <3>1, <3>2
  <2> QED
    BY <2>2, <2>3
<1>5. \A v \in Leaf : v \in Value /\ v \notin Document /\ ~IsObject(v) /\ Fields(v) = {}
  BY <1>1 DEF Document, IsObject, Fields
<1>6. \A v \in Value : v \in Leaf \/ v \in Document
  BY DEF Document
<1>7. \A v \in Value : \A k : At(v, k) \in Value
  BY <1>1, <1>4, <1>5, <1>6 DEF At
<1>8. ASSUME NEW n \in 1 .. Depth, NEW v, DOMAIN v \subseteq Key, v = [k \in DOMAIN v |-> v[k]],
             \A k \in DOMAIN v : v[k] \in Level[n - 1]
      PROVE  v \in Level[n] /\ v \in Document
  <2>1. n \in 0 .. Depth /\ n - 1 \in 0 .. Depth
    BY <1>0
  <2>2. v \in Objects(Level[n - 1])
    <3>1. v \in [DOMAIN v -> Level[n - 1]]
      BY <1>8
    <3> QED
      BY <1>8, <3>1, ObjectsProperties
  <2>3. v \in Level[n] /\ Level[n] \subseteq Value /\ v \in Value
    BY <2>1, <2>2, LevelProperties, LevelsGrow
  <2>4. v \in Objects(Value)
    BY <2>1, <2>2, ObjectsProperties, LevelsGrow
  <2> QED
    BY <1>2, <2>3, <2>4 DEF Document
<1> QED
  BY <1>1, <1>3, <1>4, <1>5, <1>6, <1>7, <1>8

\* Induction over values: what holds of the leaves, and of an object if it
\* holds of its fields, holds of every value.
LEMMA ByFields ==
  ASSUME NEW S, Leaf \subseteq S,
         \A v \in Document : (\A k \in DOMAIN v : v[k] \in S) => v \in S
  PROVE  Value \subseteq S
<1>0. Depth \in Nat
  BY MergePatchAssumption
<1> DEFINE Shown == {n \in 0 .. Depth : Level[n] \subseteq S}
<1>1. ASSUME NEW n \in 0 .. Depth, NEW v \in Level[n], IsObject(v) PROVE v \in Document
  BY <1>1, LevelsGrow DEF Document, IsObject
<1>2. 0 \in Shown
  <2>1. Empty \in S
    BY ValueProperties DEF Empty
  <2> QED
    BY <1>0, <2>1, LevelProperties
<1>3. ASSUME NEW n \in 0 .. Depth - 1, n \in Shown PROVE n + 1 \in Shown
  <2>1. n + 1 \in 0 .. Depth /\ n + 1 # 0 /\ (n + 1) - 1 = n /\ n \in 0 .. Depth
    BY <1>0
  <2>2. ASSUME NEW v \in Level[n + 1] PROVE v \in S
    <3>1. CASE v \in Leaf
      BY <3>1
    <3>2. CASE IsObject(v)
      <4>1. \A k \in DOMAIN v : v[k] \in Level[n]
        BY <2>1, <3>2, LevelFields
      <4>2. v \in Document
        BY <1>1, <2>1, <3>2
      <4> QED
        BY <1>3, <4>1, <4>2
    <3> QED
      BY <3>1, <3>2 DEF IsObject
  <2> QED
    BY <2>1, <2>2
<1> HIDE DEF Shown
<1>4. Depth \in Shown
  BY <1>0, <1>2, <1>3, Upwards
<1> QED
  BY <1>4 DEF Shown, Value

-----------------------------------------------------------------------------
(***************************************************************************)
(* The recursive functions exist: a step looks at the fields of a value    *)
(* only, and those are one level below.                                    *)
(***************************************************************************)

LEMMA MergeDepends ==
  ASSUME NEW f, NEW g, NEW v, NEW w,
         IsObject(v) => \A k \in DOMAIN v : f[v[k]] = g[v[k]]
  PROVE  MergeOf(f, w, v) = MergeOf(g, w, v)
<1>1. CASE ~IsObject(v)
  BY <1>1 DEF MergeOf
<1>2. CASE IsObject(v)
  <2>1. [k \in Sets(v) |-> f[v[k]][At(w, k)]] = [k \in Sets(v) |-> g[v[k]][At(w, k)]]
    BY <1>2 DEF Sets
  <2> QED
    BY <2>1 DEF MergeOf
<1> QED
  BY <1>1, <1>2

LEMMA MergeExists == \E f : f = [v \in Value |-> [w \in Value |-> MergeOf(f, w, v)]]
<1>0. Depth \in Nat
  BY MergePatchAssumption
<1> DEFINE Defined(n) == \E f : f = [v \in Level[n] |-> [w \in Value |-> MergeOf(f, w, v)]]
           Reached == {n \in 0 .. Depth : Defined(n)}
<1>1. 0 \in Reached
  <2> DEFINE g == [v \in Level[0] |-> [w \in Value |-> MergeOf({}, w, v)]]
  <2>1. ASSUME NEW v \in Level[0], NEW w \in Value PROVE MergeOf(g, w, v) = MergeOf({}, w, v)
    <3>1. IsObject(v) => DOMAIN v = {}
      BY LevelProperties DEF IsObject, Empty
    <3> HIDE DEF g
    <3> QED
      BY <3>1, MergeDepends
  <2>2. g = [v \in Level[0] |-> [w \in Value |-> MergeOf(g, w, v)]]
    BY <2>1
  <2> HIDE DEF g
  <2>3. Defined(0)
    BY <2>2
  <2> QED
    BY <1>0, <2>3
<1>2. ASSUME NEW n \in 0 .. Depth - 1, n \in Reached PROVE n + 1 \in Reached
  <2>0. n + 1 \in 0 .. Depth /\ n + 1 # 0 /\ (n + 1) - 1 = n /\ n \in 0 .. Depth /\ n + 1 \in 1 .. Depth
    BY <1>0
  <2>1. PICK f : f = [v \in Level[n] |-> [w \in Value |-> MergeOf(f, w, v)]]
    BY <1>2
  <2> DEFINE g == [v \in Level[n + 1] |-> [w \in Value |-> MergeOf(f, w, v)]]
  <2>2. \A v \in Level[n] : f[v] = g[v]
    <3>1. Level[n] \subseteq Level[n + 1]
      BY <2>0, LevelsGrow
    <3>2. ASSUME NEW v \in Level[n] PROVE f[v] = [w \in Value |-> MergeOf(f, w, v)]
      BY <2>1
    <3>3. ASSUME NEW v \in Level[n] PROVE g[v] = [w \in Value |-> MergeOf(f, w, v)]
      BY <3>1
    <3> QED
      BY <3>2, <3>3
  <2>3. ASSUME NEW v \in Level[n + 1], NEW w \in Value PROVE MergeOf(f, w, v) = MergeOf(g, w, v)
    <3>1. IsObject(v) => \A k \in DOMAIN v : v[k] \in Level[n]
      BY <2>0, LevelFields
    <3>2. IsObject(v) => \A k \in DOMAIN v : f[v[k]] = g[v[k]]
      BY <2>2, <3>1
    <3> HIDE DEF g
    <3> QED
      BY <3>2, MergeDepends
  <2>4. g = [v \in Level[n + 1] |-> [w \in Value |-> MergeOf(g, w, v)]]
    BY <2>3
  <2> HIDE DEF g
  <2>5. Defined(n + 1)
    BY <2>4
  <2> QED
    BY <2>0, <2>5
<1> HIDE DEF Reached
<1>3. Depth \in Reached
  BY <1>0, <1>1, <1>2, Upwards
<1>4. Defined(Depth)
  BY <1>3 DEF Reached
<1> QED
  BY <1>4 DEF Value

LEMMA MergeEquation == \A v, w \in Value : Merging[v][w] = MergeOf(Merging, w, v)
<1>1. Merging = [v \in Value |-> [w \in Value |-> MergeOf(Merging, w, v)]]
  BY MergeExists DEF Merging
<1> HIDE DEF Merging
<1> QED
  BY <1>1

LEMMA DiffDepends ==
  ASSUME NEW f, NEW g, NEW v, NEW w,
         IsObject(v) => \A k \in DOMAIN v : f[v[k]] = g[v[k]]
  PROVE  DiffOf(f, v, w) = DiffOf(g, v, w)
<1>1. CASE ~IsObject(v)
  BY <1>1 DEF DiffOf
<1>2. CASE IsObject(v)
  <2>1. [k \in DOMAIN v \cap DOMAIN w |-> f[v[k]][w[k]]] = [k \in DOMAIN v \cap DOMAIN w |-> g[v[k]][w[k]]]
    BY <1>2
  <2> QED
    BY <2>1 DEF DiffOf
<1> QED
  BY <1>1, <1>2

LEMMA DiffExists == \E f : f = [v \in Value |-> [w \in Value |-> DiffOf(f, v, w)]]
<1>0. Depth \in Nat
  BY MergePatchAssumption
<1> DEFINE Defined(n) == \E f : f = [v \in Level[n] |-> [w \in Value |-> DiffOf(f, v, w)]]
           Reached == {n \in 0 .. Depth : Defined(n)}
<1>1. 0 \in Reached
  <2> DEFINE g == [v \in Level[0] |-> [w \in Value |-> DiffOf({}, v, w)]]
  <2>1. ASSUME NEW v \in Level[0], NEW w \in Value PROVE DiffOf(g, v, w) = DiffOf({}, v, w)
    <3>1. IsObject(v) => DOMAIN v = {}
      BY LevelProperties DEF IsObject, Empty
    <3> HIDE DEF g
    <3> QED
      BY <3>1, DiffDepends
  <2>2. g = [v \in Level[0] |-> [w \in Value |-> DiffOf(g, v, w)]]
    BY <2>1
  <2> HIDE DEF g
  <2>3. Defined(0)
    BY <2>2
  <2> QED
    BY <1>0, <2>3
<1>2. ASSUME NEW n \in 0 .. Depth - 1, n \in Reached PROVE n + 1 \in Reached
  <2>0. n + 1 \in 0 .. Depth /\ n + 1 # 0 /\ (n + 1) - 1 = n /\ n \in 0 .. Depth /\ n + 1 \in 1 .. Depth
    BY <1>0
  <2>1. PICK f : f = [v \in Level[n] |-> [w \in Value |-> DiffOf(f, v, w)]]
    BY <1>2
  <2> DEFINE g == [v \in Level[n + 1] |-> [w \in Value |-> DiffOf(f, v, w)]]
  <2>2. \A v \in Level[n] : f[v] = g[v]
    <3>1. Level[n] \subseteq Level[n + 1]
      BY <2>0, LevelsGrow
    <3>2. ASSUME NEW v \in Level[n] PROVE f[v] = [w \in Value |-> DiffOf(f, v, w)]
      BY <2>1
    <3>3. ASSUME NEW v \in Level[n] PROVE g[v] = [w \in Value |-> DiffOf(f, v, w)]
      BY <3>1
    <3> QED
      BY <3>2, <3>3
  <2>3. ASSUME NEW v \in Level[n + 1], NEW w \in Value PROVE DiffOf(f, v, w) = DiffOf(g, v, w)
    <3>1. IsObject(v) => \A k \in DOMAIN v : v[k] \in Level[n]
      BY <2>0, LevelFields
    <3>2. IsObject(v) => \A k \in DOMAIN v : f[v[k]] = g[v[k]]
      BY <2>2, <3>1
    <3> HIDE DEF g
    <3> QED
      BY <3>2, DiffDepends
  <2>4. g = [v \in Level[n + 1] |-> [w \in Value |-> DiffOf(g, v, w)]]
    BY <2>3
  <2> HIDE DEF g
  <2>5. Defined(n + 1)
    BY <2>4
  <2> QED
    BY <2>0, <2>5
<1> HIDE DEF Reached
<1>3. Depth \in Reached
  BY <1>0, <1>1, <1>2, Upwards
<1>4. Defined(Depth)
  BY <1>3 DEF Reached
<1> QED
  BY <1>4 DEF Value

LEMMA DiffEquation == \A v, w \in Value : Differing[v][w] = DiffOf(Differing, v, w)
<1>1. Differing = [v \in Value |-> [w \in Value |-> DiffOf(Differing, v, w)]]
  BY DiffExists DEF Differing
<1> HIDE DEF Differing
<1> QED
  BY <1>1

LEMMA ReferenceDepends ==
  ASSUME NEW f, NEW g, NEW v, NEW w,
         IsObject(v) => \A k \in DOMAIN v : f[v[k]] = g[v[k]]
  PROVE  ReferenceOf(f, w, v) = ReferenceOf(g, w, v)
<1>1. CASE ~IsObject(v)
  BY <1>1 DEF ReferenceOf
<1>2. CASE IsObject(v)
  <2> DEFINE kept == {k \in Fields(w) \cup DOMAIN v : IF k \in DOMAIN v THEN v[k] # Null ELSE TRUE}
  <2>1. [k \in kept |-> IF k \in DOMAIN v THEN f[v[k]][At(w, k)] ELSE w[k]]
        = [k \in kept |-> IF k \in DOMAIN v THEN g[v[k]][At(w, k)] ELSE w[k]]
    BY <1>2
  <2> QED
    BY <2>1 DEF ReferenceOf
<1> QED
  BY <1>1, <1>2

LEMMA ReferenceExists == \E f : f = [v \in Value |-> [w \in Value |-> ReferenceOf(f, w, v)]]
<1>0. Depth \in Nat
  BY MergePatchAssumption
<1> DEFINE Defined(n) == \E f : f = [v \in Level[n] |-> [w \in Value |-> ReferenceOf(f, w, v)]]
           Reached == {n \in 0 .. Depth : Defined(n)}
<1>1. 0 \in Reached
  <2> DEFINE g == [v \in Level[0] |-> [w \in Value |-> ReferenceOf({}, w, v)]]
  <2>1. ASSUME NEW v \in Level[0], NEW w \in Value PROVE ReferenceOf(g, w, v) = ReferenceOf({}, w, v)
    <3>1. IsObject(v) => DOMAIN v = {}
      BY LevelProperties DEF IsObject, Empty
    <3> HIDE DEF g
    <3> QED
      BY <3>1, ReferenceDepends
  <2>2. g = [v \in Level[0] |-> [w \in Value |-> ReferenceOf(g, w, v)]]
    BY <2>1
  <2> HIDE DEF g
  <2>3. Defined(0)
    BY <2>2
  <2> QED
    BY <1>0, <2>3
<1>2. ASSUME NEW n \in 0 .. Depth - 1, n \in Reached PROVE n + 1 \in Reached
  <2>0. n + 1 \in 0 .. Depth /\ n + 1 # 0 /\ (n + 1) - 1 = n /\ n \in 0 .. Depth /\ n + 1 \in 1 .. Depth
    BY <1>0
  <2>1. PICK f : f = [v \in Level[n] |-> [w \in Value |-> ReferenceOf(f, w, v)]]
    BY <1>2
  <2> DEFINE g == [v \in Level[n + 1] |-> [w \in Value |-> ReferenceOf(f, w, v)]]
  <2>2. \A v \in Level[n] : f[v] = g[v]
    <3>1. Level[n] \subseteq Level[n + 1]
      BY <2>0, LevelsGrow
    <3>2. ASSUME NEW v \in Level[n] PROVE f[v] = [w \in Value |-> ReferenceOf(f, w, v)]
      BY <2>1
    <3>3. ASSUME NEW v \in Level[n] PROVE g[v] = [w \in Value |-> ReferenceOf(f, w, v)]
      BY <3>1
    <3> QED
      BY <3>2, <3>3
  <2>3. ASSUME NEW v \in Level[n + 1], NEW w \in Value PROVE ReferenceOf(f, w, v) = ReferenceOf(g, w, v)
    <3>1. IsObject(v) => \A k \in DOMAIN v : v[k] \in Level[n]
      BY <2>0, LevelFields
    <3>2. IsObject(v) => \A k \in DOMAIN v : f[v[k]] = g[v[k]]
      BY <2>2, <3>1
    <3> HIDE DEF g
    <3> QED
      BY <3>2, ReferenceDepends
  <2>4. g = [v \in Level[n + 1] |-> [w \in Value |-> ReferenceOf(g, w, v)]]
    BY <2>3
  <2> HIDE DEF g
  <2>5. Defined(n + 1)
    BY <2>4
  <2> QED
    BY <2>0, <2>5
<1> HIDE DEF Reached
<1>3. Depth \in Reached
  BY <1>0, <1>1, <1>2, Upwards
<1>4. Defined(Depth)
  BY <1>3 DEF Reached
<1> QED
  BY <1>4 DEF Value

LEMMA ReferenceEquation == \A v, w \in Value : Referring[v][w] = ReferenceOf(Referring, w, v)
<1>1. Referring = [v \in Value |-> [w \in Value |-> ReferenceOf(Referring, w, v)]]
  BY ReferenceExists DEF Referring
<1> HIDE DEF Referring
<1> QED
  BY <1>1

LEMMA AlikeDepends ==
  ASSUME NEW f, NEW g, NEW v, NEW w,
         IsObject(v) => \A k \in DOMAIN v : f[v[k]] = g[v[k]]
  PROVE  AlikeOf(f, v, w) = AlikeOf(g, v, w)
<1>1. IsObject(v) => \A k \in DOMAIN v : f[v[k]][w[k]] = g[v[k]][w[k]]
  OBVIOUS
<1> QED
  BY <1>1 DEF AlikeOf

LEMMA AlikeExists == \E f : f = [v \in Value |-> [w \in Value |-> AlikeOf(f, v, w)]]
<1>0. Depth \in Nat
  BY MergePatchAssumption
<1> DEFINE Defined(n) == \E f : f = [v \in Level[n] |-> [w \in Value |-> AlikeOf(f, v, w)]]
           Reached == {n \in 0 .. Depth : Defined(n)}
<1>1. 0 \in Reached
  <2> DEFINE g == [v \in Level[0] |-> [w \in Value |-> AlikeOf({}, v, w)]]
  <2>1. ASSUME NEW v \in Level[0], NEW w \in Value PROVE AlikeOf(g, v, w) = AlikeOf({}, v, w)
    <3>1. IsObject(v) => DOMAIN v = {}
      BY LevelProperties DEF IsObject, Empty
    <3> HIDE DEF g
    <3> QED
      BY <3>1, AlikeDepends
  <2>2. g = [v \in Level[0] |-> [w \in Value |-> AlikeOf(g, v, w)]]
    BY <2>1
  <2> HIDE DEF g
  <2>3. Defined(0)
    BY <2>2
  <2> QED
    BY <1>0, <2>3
<1>2. ASSUME NEW n \in 0 .. Depth - 1, n \in Reached PROVE n + 1 \in Reached
  <2>0. n + 1 \in 0 .. Depth /\ n + 1 # 0 /\ (n + 1) - 1 = n /\ n \in 0 .. Depth /\ n + 1 \in 1 .. Depth
    BY <1>0
  <2>1. PICK f : f = [v \in Level[n] |-> [w \in Value |-> AlikeOf(f, v, w)]]
    BY <1>2
  <2> DEFINE g == [v \in Level[n + 1] |-> [w \in Value |-> AlikeOf(f, v, w)]]
  <2>2. \A v \in Level[n] : f[v] = g[v]
    <3>1. Level[n] \subseteq Level[n + 1]
      BY <2>0, LevelsGrow
    <3>2. ASSUME NEW v \in Level[n] PROVE f[v] = [w \in Value |-> AlikeOf(f, v, w)]
      BY <2>1
    <3>3. ASSUME NEW v \in Level[n] PROVE g[v] = [w \in Value |-> AlikeOf(f, v, w)]
      BY <3>1
    <3> QED
      BY <3>2, <3>3
  <2>3. ASSUME NEW v \in Level[n + 1], NEW w \in Value PROVE AlikeOf(f, v, w) = AlikeOf(g, v, w)
    <3>1. IsObject(v) => \A k \in DOMAIN v : v[k] \in Level[n]
      BY <2>0, LevelFields
    <3>2. IsObject(v) => \A k \in DOMAIN v : f[v[k]] = g[v[k]]
      BY <2>2, <3>1
    <3> HIDE DEF g
    <3> QED
      BY <3>2, AlikeDepends
  <2>4. g = [v \in Level[n + 1] |-> [w \in Value |-> AlikeOf(g, v, w)]]
    BY <2>3
  <2> HIDE DEF g
  <2>5. Defined(n + 1)
    BY <2>4
  <2> QED
    BY <2>0, <2>5
<1> HIDE DEF Reached
<1>3. Depth \in Reached
  BY <1>0, <1>1, <1>2, Upwards
<1>4. Defined(Depth)
  BY <1>3 DEF Reached
<1> QED
  BY <1>4 DEF Value

LEMMA AlikeEquation == \A v, w \in Value : Liking[v][w] = AlikeOf(Liking, v, w)
<1>1. Liking = [v \in Value |-> [w \in Value |-> AlikeOf(Liking, v, w)]]
  BY AlikeExists DEF Liking
<1> HIDE DEF Liking
<1> QED
  BY <1>1

-----------------------------------------------------------------------------
(***************************************************************************)
(* Merge.                                                                  *)
(***************************************************************************)

\* Two objects are equal when they have the same fields.
LEMMA ObjectsEqual ==
  ASSUME NEW v, NEW w, v = [k \in DOMAIN v |-> v[k]], w = [k \in DOMAIN w |-> w[k]],
         DOMAIN v = DOMAIN w, \A k \in DOMAIN v : v[k] = w[k]
  PROVE  v = w
OBVIOUS

LEMMA SetsAndRemoves ==
  ASSUME NEW p
  PROVE  /\ Sets(p) \subseteq DOMAIN p /\ Removes(p) \subseteq DOMAIN p
         /\ \A k \in DOMAIN p : (k \in Sets(p) <=> p[k] # Null) /\ (k \in Removes(p) <=> p[k] = Null)
BY DEF Sets, Removes

LEMMA MergeLeaf ==
  ASSUME NEW o \in Value, NEW p \in Leaf
  PROVE  Merge(o, p).value = p /\ (Merge(o, p).changed <=> p # o)
<1>1. Merge(o, p) = MergeOf(Merging, o, p)
  BY ValueProperties, MergeEquation DEF Merge
<1>2. MergeOf(Merging, o, p) = [value |-> p, changed |-> p # o]
  BY DEF MergeOf, IsObject
<1>3. Merge(o, p).value = p
  BY <1>1, <1>2
<1>4. Merge(o, p).changed = (p # o)
  BY <1>1, <1>2
<1> QED
  BY <1>3, <1>4

\* m has the fields of p merged into o.
IsMerged(m, o, p) ==
  /\ m = [k \in DOMAIN m |-> m[k]]
  /\ DOMAIN m = (Fields(o) \ Removes(p)) \cup Sets(p)
  /\ \A k \in Sets(p) : m[k] = Merge(At(o, k), p[k]).value
  /\ \A k \in DOMAIN m \ Sets(p) : k \in Fields(o) /\ m[k] = o[k]

LEMMA MergeObject ==
  ASSUME NEW o \in Value, NEW p \in Document
  PROVE  /\ IsMerged(Merge(o, p).value, o, p)
         /\ Merge(o, p).changed <=>
              \/ Removes(p) \cap Fields(o) # {}
              \/ \E k \in Sets(p) : k \notin Fields(o) \/ Merge(At(o, k), p[k]).changed
<1> DEFINE sub == [k \in Sets(p) |-> Merge(At(o, k), p[k])]
           differs == \/ Removes(p) \cap Fields(o) # {}
                      \/ \E k \in Sets(p) : k \notin Fields(o) \/ sub[k].changed
<1>1. Merge(o, p) = MergeOf(Merging, o, p)
  BY ValueProperties, MergeEquation DEF Merge
<1>2. MergeOf(Merging, o, p) = [value |-> MergedFields(o, p, sub), changed |-> differs]
  BY ValueProperties DEF MergeOf, Merge
<1>3. Merge(o, p).value = MergedFields(o, p, sub)
  BY <1>1, <1>2
<1>4. Merge(o, p).changed <=> differs
  BY <1>1, <1>2
<1>5. \A k \in Sets(p) : sub[k] = Merge(At(o, k), p[k])
  OBVIOUS
<1> HIDE DEF sub
<1> DEFINE m == MergedFields(o, p, sub)
<1>6. /\ m = [k \in DOMAIN m |-> m[k]]
      /\ DOMAIN m = (Fields(o) \ Removes(p)) \cup Sets(p)
      /\ \A k \in Sets(p) : m[k] = sub[k].value
      /\ \A k \in DOMAIN m \ Sets(p) : k \in Fields(o) /\ m[k] = o[k]
  BY DEF MergedFields
<1> HIDE DEF m
<1>7. IsMerged(m, o, p)
  BY <1>5, <1>6 DEF IsMerged
<1> QED
  BY <1>3, <1>4, <1>5, <1>7 DEF m

\* The value of a merge has no more levels than the two it is made of.
LEMMA MergeStays ==
  \A n \in 0 .. Depth : \A o, p \in Level[n] : Merge(o, p).value \in Level[n]
<1>0. Depth \in Nat
  BY MergePatchAssumption
<1>1. ASSUME NEW n \in 0 .. Depth, NEW o \in Level[n], NEW p \in Level[n]
      PROVE  /\ o \in Value /\ p \in Value /\ (p \in Leaf \/ p \in Document)
             /\ p \in Leaf => Merge(o, p).value \in Level[n]
  BY ValueProperties, LevelsGrow, MergeLeaf
<1> DEFINE Kept == {n \in 0 .. Depth : \A o, p \in Level[n] : Merge(o, p).value \in Level[n]}
<1>2. 0 \in Kept
  <2> SUFFICES ASSUME NEW o \in Level[0], NEW p \in Level[0], p \in Document
               PROVE  Merge(o, p).value \in Level[0]
    BY <1>0, <1>1
  <2> DEFINE m == Merge(o, p).value
  <2>1. DOMAIN p = {} /\ Fields(o) = {} /\ o \in Value
    BY <1>0, <1>1, LevelProperties, ValueProperties DEF Fields, IsObject, Empty
  <2>2. m = [k \in DOMAIN m |-> m[k]] /\ DOMAIN m = {}
    BY <2>1, MergeObject, SetsAndRemoves DEF IsMerged
  <2>3. m = Empty
    BY <2>2 DEF Empty
  <2> QED
    BY <2>3, LevelProperties
<1>3. ASSUME NEW n \in 0 .. Depth - 1, n \in Kept PROVE n + 1 \in Kept
  <2>0. n + 1 \in 0 .. Depth /\ n + 1 # 0 /\ (n + 1) - 1 = n /\ n \in 0 .. Depth /\ n + 1 \in 1 .. Depth
    BY <1>0
  <2> SUFFICES ASSUME NEW o \in Level[n + 1], NEW p \in Level[n + 1], p \in Document
               PROVE  Merge(o, p).value \in Level[n + 1]
    BY <2>0, <1>1
  <2> DEFINE m == Merge(o, p).value
  <2>1. o \in Value /\ p \in Value
    BY <2>0, <1>1
  <2>2. /\ m = [k \in DOMAIN m |-> m[k]]
        /\ DOMAIN m = (Fields(o) \ Removes(p)) \cup Sets(p)
        /\ \A k \in Sets(p) : m[k] = Merge(At(o, k), p[k]).value
        /\ \A k \in DOMAIN m \ Sets(p) : k \in Fields(o) /\ m[k] = o[k]
    BY <2>1, MergeObject DEF IsMerged
  <2>3. DOMAIN p \subseteq Key /\ \A k \in DOMAIN p : p[k] \in Level[n]
    BY <2>0, LevelFields, ValueProperties
  <2>4. Fields(o) \subseteq Key /\ (\A k : At(o, k) \in Level[n]) /\ \A k \in Fields(o) : o[k] \in Level[n]
    BY <2>0, LevelFields DEF Fields
  <2>5. \A k \in DOMAIN m : m[k] \in Level[n]
    BY <1>3, <2>2, <2>3, <2>4, SetsAndRemoves
  <2>6. DOMAIN m \subseteq Key
    BY <2>2, <2>3, <2>4, SetsAndRemoves
  <2> QED
    BY <2>0, <2>2, <2>5, <2>6, ValueProperties
<1> HIDE DEF Kept
<1>4. 0 .. Depth \subseteq Kept
  BY <1>0, <1>2, <1>3, Upwards
<1> QED
  BY <1>4 DEF Kept

LEMMA MergeIsValue ==
  ASSUME NEW o \in Value, NEW p \in Value
  PROVE  /\ Merge(o, p).value \in Value
         /\ p \in Document => Merge(o, p).value \in Document
<1>1. Depth \in 0 .. Depth /\ Depth \in Nat
  BY MergePatchAssumption
<1>2. Merge(o, p).value \in Value
  BY <1>1, MergeStays DEF Value
<1>3. ASSUME p \in Document PROVE Merge(o, p).value \in Document
  <2> DEFINE m == Merge(o, p).value
  <2>1. /\ m = [k \in DOMAIN m |-> m[k]]
        /\ DOMAIN m = (Fields(o) \ Removes(p)) \cup Sets(p)
        /\ \A k \in Sets(p) : m[k] = Merge(At(o, k), p[k]).value
        /\ \A k \in DOMAIN m \ Sets(p) : k \in Fields(o) /\ m[k] = o[k]
    BY <1>3, MergeObject DEF IsMerged
  <2>2. DOMAIN p \subseteq Key /\ (\A k \in DOMAIN p : p[k] \in Value)
        /\ Fields(o) \subseteq Key /\ (\A k \in Fields(o) : o[k] \in Value) /\ \A k : At(o, k) \in Value
    BY <1>3, ValueProperties
  <2>3. \A v, w \in Value : Merge(v, w).value \in Value
    BY <1>1, MergeStays DEF Value
  <2>4. DOMAIN m \subseteq Key /\ \A k \in DOMAIN m : m[k] \in Value
    BY <2>1, <2>2, <2>3, SetsAndRemoves
  <2>5. m \in Objects(Value)
    <3>1. m \in [DOMAIN m -> Value]
      BY <2>1, <2>4
    <3> QED
      BY <2>4, <3>1, ObjectsProperties
  <2> QED
    BY <1>2, <2>5, MergePatchAssumption DEF Document
<1> QED
  BY <1>2, <1>3

\* Merge and the merge of RFC 7386 are the same function.
LEMMA MergeIsReference == \A o, p \in Value : Merge(o, p).value = Reference(o, p)
<1> DEFINE Same == {p \in Value : \A o \in Value : Merge(o, p).value = Reference(o, p)}
<1>1. Leaf \subseteq Same
  <2> SUFFICES ASSUME NEW p \in Leaf, NEW o \in Value PROVE Merge(o, p).value = Reference(o, p)
    BY ValueProperties
  <2>1. Reference(o, p) = p
    BY ValueProperties, ReferenceEquation DEF Reference, ReferenceOf
  <2> QED
    BY <2>1, MergeLeaf
<1>2. ASSUME NEW p \in Document, \A k \in DOMAIN p : p[k] \in Same PROVE p \in Same
  <2> SUFFICES ASSUME NEW o \in Value PROVE Merge(o, p).value = Reference(o, p)
    BY ValueProperties
  <2> DEFINE kept == {k \in Fields(o) \cup DOMAIN p : IF k \in DOMAIN p THEN p[k] # Null ELSE TRUE}
             r == [k \in kept |-> IF k \in DOMAIN p THEN Reference(At(o, k), p[k]) ELSE o[k]]
             m == Merge(o, p).value
  <2>1. Reference(o, p) = r
    <3>1. Reference(o, p) = ReferenceOf(Referring, o, p)
      BY ValueProperties, ReferenceEquation DEF Reference
    <3>2. IsObject(p)
      BY ValueProperties
    <3>3. ReferenceOf(Referring, o, p) = r
      BY <3>2, Zenon DEF ReferenceOf, Reference
    <3> QED
      BY <3>1, <3>3
  <2>2. IsMerged(m, o, p)
    BY MergeObject
  <2>3. DOMAIN m = DOMAIN r
    BY <2>2, SetsAndRemoves DEF IsMerged
  <2>4. ASSUME NEW k \in DOMAIN m PROVE m[k] = r[k]
    <3>1. CASE k \in Sets(p)
      <4>1. m[k] = Merge(At(o, k), p[k]).value /\ k \in DOMAIN p
        BY <2>2, <3>1, SetsAndRemoves DEF IsMerged
      <4>2. Merge(At(o, k), p[k]).value = Reference(At(o, k), p[k])
        BY <1>2, <4>1, ValueProperties
      <4> QED
        BY <2>3, <2>4, <4>1, <4>2
    <3>2. CASE k \notin Sets(p)
      <4>1. m[k] = o[k] /\ k \notin DOMAIN p
        BY <2>2, <2>3, <2>4, <3>2, SetsAndRemoves DEF IsMerged
      <4> QED
        BY <2>3, <2>4, <4>1
    <3> QED
      BY <3>1, <3>2
  <2>5. r = [k \in DOMAIN r |-> r[k]]
    OBVIOUS
  <2> HIDE DEF r, m
  <2>6. m = r
    BY <2>2, <2>3, <2>4, <2>5, ObjectsEqual DEF IsMerged
  <2> QED
    BY <2>1, <2>6 DEF m
<1> HIDE DEF Same
<1>3. Value \subseteq Same
  BY <1>1, <1>2, ByFields
<1> QED
  BY <1>3 DEF Same

LEMMA AlikeProperties ==
  ASSUME NEW v \in Value, NEW w \in Value
  PROVE  /\ v = w => Alike(v, w)
         /\ v \in Leaf /\ w = Empty => Alike(v, w)
         /\ /\ v \in Document /\ w \in Document /\ DOMAIN v = DOMAIN w
            /\ \A k \in DOMAIN v : Alike(v[k], w[k])
            => Alike(v, w)
<1>1. Alike(v, w) = AlikeOf(Liking, v, w)
  BY AlikeEquation DEF Alike
<1> QED
  BY <1>1, ValueProperties DEF AlikeOf, Alike

\* What is said to change nothing turns leaves into empty objects at most.
LEMMA UnchangedIsAlike ==
  \A o, p \in Value : ~Merge(o, p).changed => Alike(o, Merge(o, p).value)
<1> DEFINE Fine == {p \in Value : \A o \in Value : ~Merge(o, p).changed => Alike(o, Merge(o, p).value)}
<1>1. Leaf \subseteq Fine
  BY MergeLeaf, AlikeProperties, ValueProperties
<1>2. ASSUME NEW p \in Document, \A k \in DOMAIN p : p[k] \in Fine PROVE p \in Fine
  <2> SUFFICES ASSUME NEW o \in Value, ~Merge(o, p).changed PROVE Alike(o, Merge(o, p).value)
    BY ValueProperties
  <2> DEFINE m == Merge(o, p).value
  <2>1. IsMerged(m, o, p) /\ m \in Document /\ m \in Value /\ p \in Value
    BY MergeObject, MergeIsValue, ValueProperties
  <2>2. /\ Removes(p) \cap Fields(o) = {}
        /\ \A k \in Sets(p) : k \in Fields(o) /\ ~Merge(At(o, k), p[k]).changed
    BY MergeObject
  <2>3. DOMAIN m = Fields(o)
    BY <2>1, <2>2 DEF IsMerged
  <2>4. CASE o \in Leaf
    <3>1. DOMAIN m = {}
      BY <2>3, <2>4, ValueProperties
    <3>2. m = Empty
      BY <2>1, <3>1 DEF Empty, IsMerged
    <3> QED
      BY <2>1, <2>4, <3>2, AlikeProperties
  <2>5. CASE o \in Document
    <3>1. ASSUME NEW k \in DOMAIN o PROVE Alike(o[k], m[k])
      <4>1. Fields(o) = DOMAIN o /\ At(o, k) = o[k] /\ o[k] \in Value /\ m[k] \in Value
        BY <2>1, <2>3, <2>5, ValueProperties DEF At
      <4>2. CASE k \in Sets(p)
        <5>1. p[k] \in Fine /\ ~Merge(o[k], p[k]).changed /\ m[k] = Merge(o[k], p[k]).value
          BY <1>2, <2>1, <2>2, <4>1, <4>2, SetsAndRemoves DEF IsMerged
        <5> QED
          BY <4>1, <5>1
      <4>3. CASE k \notin Sets(p)
        <5>1. m[k] = o[k]
          BY <2>1, <2>3, <4>1, <4>3 DEF IsMerged
        <5> QED
          BY <4>1, <5>1, AlikeProperties
      <4> QED
        BY <4>2, <4>3
    <3>2. DOMAIN m = DOMAIN o
      BY <2>3, <2>5, ValueProperties
    <3> QED
      BY <2>1, <2>5, <3>1, <3>2, AlikeProperties
  <2> QED
    BY <2>4, <2>5, ValueProperties
<1> HIDE DEF Fine
<1>3. Value \subseteq Fine
  BY <1>1, <1>2, ByFields
<1> QED
  BY <1>3 DEF Fine

\* What is said to change something does.
LEMMA ChangedIsNew ==
  \A o, p \in Value : Merge(o, p).changed => Merge(o, p).value # o
<1> DEFINE Fine == {p \in Value : \A o \in Value : Merge(o, p).changed => Merge(o, p).value # o}
<1>1. Leaf \subseteq Fine
  BY MergeLeaf, ValueProperties
<1>2. ASSUME NEW p \in Document, \A k \in DOMAIN p : p[k] \in Fine PROVE p \in Fine
  <2> SUFFICES ASSUME NEW o \in Value, Merge(o, p).changed PROVE Merge(o, p).value # o
    BY ValueProperties
  <2> DEFINE m == Merge(o, p).value
  <2>1. IsMerged(m, o, p) /\ m \in Document
    BY MergeObject, MergeIsValue, ValueProperties
  <2>2. \/ Removes(p) \cap Fields(o) # {}
        \/ \E k \in Sets(p) : k \notin Fields(o)
        \/ \E k \in Sets(p) : k \in Fields(o) /\ Merge(At(o, k), p[k]).changed
    BY MergeObject
  <2>3. Removes(p) \cap Sets(p) = {} /\ Fields(m) = DOMAIN m
    BY <2>1, SetsAndRemoves, ValueProperties
  <2>4. CASE Removes(p) \cap Fields(o) # {}
    BY <2>1, <2>3, <2>4 DEF IsMerged
  <2>5. CASE \E k \in Sets(p) : k \notin Fields(o)
    BY <2>1, <2>3, <2>5 DEF IsMerged
  <2>6. ASSUME NEW k \in Sets(p), k \in Fields(o), Merge(At(o, k), p[k]).changed PROVE m # o
    <3>1. At(o, k) = o[k] /\ At(o, k) \in Value /\ p[k] \in Fine
      BY <1>2, <2>6, SetsAndRemoves, ValueProperties DEF At
    <3>2. m[k] # o[k]
      BY <2>1, <2>6, <3>1 DEF IsMerged
    <3> QED
      BY <3>2
  <2> QED
    BY <2>2, <2>4, <2>5, <2>6
<1> HIDE DEF Fine
<1>3. Value \subseteq Fine
  BY <1>1, <1>2, ByFields
<1> QED
  BY <1>3 DEF Fine

\* A patch that is sent again changes nothing.
LEMMA TwiceIsOnce ==
  \A o, p \in Value : ~Merge(Merge(o, p).value, p).changed
<1> DEFINE Fine == {p \in Value : \A o \in Value : ~Merge(Merge(o, p).value, p).changed}
<1>1. Leaf \subseteq Fine
  BY MergeLeaf, ValueProperties
<1>2. ASSUME NEW p \in Document, \A k \in DOMAIN p : p[k] \in Fine PROVE p \in Fine
  <2> SUFFICES ASSUME NEW o \in Value PROVE ~Merge(Merge(o, p).value, p).changed
    BY ValueProperties
  <2> DEFINE m == Merge(o, p).value
  <2>1. IsMerged(m, o, p) /\ m \in Document /\ m \in Value
    BY MergeObject, MergeIsValue, ValueProperties
  <2>2. Removes(p) \cap Sets(p) = {} /\ Fields(m) = DOMAIN m
    BY <2>1, SetsAndRemoves, ValueProperties
  <2>3. Removes(p) \cap Fields(m) = {}
    BY <2>1, <2>2 DEF IsMerged
  <2>4. ASSUME NEW k \in Sets(p) PROVE k \in Fields(m) /\ ~Merge(At(m, k), p[k]).changed
    <3>1. k \in Fields(m) /\ At(m, k) = Merge(At(o, k), p[k]).value
      BY <2>1, <2>2 DEF IsMerged, At
    <3>2. p[k] \in Fine /\ At(o, k) \in Value
      BY <1>2, SetsAndRemoves, ValueProperties
    <3> QED
      BY <3>1, <3>2
  <2> HIDE DEF m
  <2>5. ~Merge(m, p).changed
    BY <2>1, <2>3, <2>4, MergeObject
  <2> QED
    BY <2>5 DEF m
<1> HIDE DEF Fine
<1>3. Value \subseteq Fine
  BY <1>1, <1>2, ByFields
<1> QED
  BY <1>3 DEF Fine

-----------------------------------------------------------------------------
(***************************************************************************)
(* Diff, and the merge of a diff.                                          *)
(***************************************************************************)

Edited(v, w) == {k \in DOMAIN v \cap DOMAIN w : Diff(v[k], w[k]).has}
Added(v, w) == DOMAIN w \ DOMAIN v
Gone(v, w) == DOMAIN v \ DOMAIN w

\* d has the fields of the diff from v to w.
IsDiff(d, v, w) ==
  /\ d = [k \in DOMAIN d |-> d[k]]
  /\ DOMAIN d = Edited(v, w) \cup Added(v, w) \cup Gone(v, w)
  /\ \A k \in Edited(v, w) : d[k] = Diff(v[k], w[k]).diff
  /\ \A k \in Added(v, w) : d[k] = w[k]
  /\ \A k \in Gone(v, w) : d[k] = Null

LEMMA DiffLeaf ==
  ASSUME NEW v \in Value, NEW w \in Value, v \in Leaf \/ w \in Leaf
  PROVE  Diff(v, w).diff = w /\ (Diff(v, w).has <=> v # w)
<1>1. Diff(v, w) = DiffOf(Differing, v, w)
  BY DiffEquation DEF Diff
<1>2. DiffOf(Differing, v, w) = [diff |-> w, has |-> v # w]
  BY DEF DiffOf, IsObject
<1>3. Diff(v, w).diff = w
  BY <1>1, <1>2
<1>4. Diff(v, w).has = (v # w)
  BY <1>1, <1>2
<1> QED
  BY <1>3, <1>4

LEMMA DiffObject ==
  ASSUME NEW v \in Document, NEW w \in Document
  PROVE  /\ IsDiff(Diff(v, w).diff, v, w)
         /\ Diff(v, w).has <=> Edited(v, w) \cup Added(v, w) \cup Gone(v, w) # {}
<1> DEFINE sub == [k \in DOMAIN v \cap DOMAIN w |-> Differing[v[k]][w[k]]]
           edited == {k \in DOMAIN sub : sub[k].has}
           added == DOMAIN w \ DOMAIN v
           gone == DOMAIN v \ DOMAIN w
           d == [k \in edited \cup added \cup gone |->
                   IF k \in gone THEN Null ELSE IF k \in edited THEN sub[k].diff ELSE w[k]]
           differs == edited \cup added \cup gone # {}
<1>1. Diff(v, w) = DiffOf(Differing, v, w)
  BY ValueProperties, DiffEquation DEF Diff
<1>2. DiffOf(Differing, v, w) = [diff |-> d, has |-> differs]
  <2>1. IsObject(v) /\ IsObject(w)
    BY ValueProperties
  <2> QED
    BY <2>1, Zenon DEF DiffOf
<1>3. Diff(v, w).diff = d
  BY <1>1, <1>2
<1>4. Diff(v, w).has = differs
  <2> HIDE DEF differs, d
  <2> QED
    BY <1>1, <1>2
<1>5. edited = Edited(v, w) /\ added = Added(v, w) /\ gone = Gone(v, w)
  BY DEF Edited, Added, Gone, Diff
<1>6. \A k \in Edited(v, w) : sub[k] = Diff(v[k], w[k]) /\ k \notin Gone(v, w)
  BY DEF Edited, Gone, Diff
<1>7. \A k \in Added(v, w) : k \notin Gone(v, w) /\ k \notin Edited(v, w)
  BY DEF Edited, Gone, Added
<1> HIDE DEF sub, edited, added, gone
<1>8. IsDiff(d, v, w)
  BY <1>5, <1>6, <1>7 DEF IsDiff
<1> QED
  BY <1>3, <1>4, <1>5, <1>8

\* createMergeDiff finds nothing between a value and itself ...
LEMMA SameHasNoDiff == \A v \in Value : ~Diff(v, v).has
<1> DEFINE Fine == {v \in Value : ~Diff(v, v).has}
<1>1. Leaf \subseteq Fine
  BY DiffLeaf, ValueProperties
<1>2. ASSUME NEW v \in Document, \A k \in DOMAIN v : v[k] \in Fine PROVE v \in Fine
  <2>1. Edited(v, v) \cup Added(v, v) \cup Gone(v, v) = {}
    BY <1>2 DEF Edited, Added, Gone
  <2> QED
    BY <2>1, DiffObject, ValueProperties
<1> HIDE DEF Fine
<1>3. Value \subseteq Fine
  BY <1>1, <1>2, ByFields
<1> QED
  BY <1>3 DEF Fine

\* ... and something between two values that differ.
LEMMA NoDiffIsSame == \A v, w \in Value : ~Diff(v, w).has => v = w
<1> DEFINE Fine == {v \in Value : \A w \in Value : ~Diff(v, w).has => v = w}
<1>1. Leaf \subseteq Fine
  BY DiffLeaf, ValueProperties
<1>2. ASSUME NEW v \in Document, \A k \in DOMAIN v : v[k] \in Fine PROVE v \in Fine
  <2> SUFFICES ASSUME NEW w \in Value, ~Diff(v, w).has PROVE v = w
    BY ValueProperties
  <2>1. CASE w \in Leaf
    BY <2>1, DiffLeaf, ValueProperties
  <2>2. CASE w \in Document
    <3>1. Edited(v, w) \cup Added(v, w) \cup Gone(v, w) = {}
      BY <2>2, DiffObject
    <3>2. DOMAIN v = DOMAIN w
      BY <3>1 DEF Added, Gone
    <3>3. \A k \in DOMAIN v : v[k] = w[k]
      <4> SUFFICES ASSUME NEW k \in DOMAIN v PROVE v[k] = w[k]
        OBVIOUS
      <4>1. ~Diff(v[k], w[k]).has
        BY <3>1, <3>2 DEF Edited
      <4> QED
        BY <1>2, <2>2, <3>2, <4>1, ValueProperties
    <3> QED
      BY <2>2, <3>2, <3>3, ValueProperties, ObjectsEqual
  <2> QED
    BY <2>1, <2>2, ValueProperties
<1> HIDE DEF Fine
<1>3. Value \subseteq Fine
  BY <1>1, <1>2, ByFields
<1> QED
  BY <1>3 DEF Fine

\* A diff has no more levels than the two it is made of.
LEMMA DiffStays ==
  \A n \in 0 .. Depth : \A v, w \in Level[n] : Diff(v, w).diff \in Level[n]
<1>0. Depth \in Nat
  BY MergePatchAssumption
<1>1. ASSUME NEW n \in 0 .. Depth, NEW v \in Level[n], NEW w \in Level[n]
      PROVE  /\ v \in Value /\ w \in Value
             /\ v \in Leaf \/ w \in Leaf => Diff(v, w).diff \in Level[n]
             /\ (v \in Leaf \/ v \in Document) /\ (w \in Leaf \/ w \in Document)
  BY ValueProperties, LevelsGrow, DiffLeaf
<1> DEFINE Kept == {n \in 0 .. Depth : \A v, w \in Level[n] : Diff(v, w).diff \in Level[n]}
<1>2. 0 \in Kept
  <2> SUFFICES ASSUME NEW v \in Level[0], NEW w \in Level[0], v \in Document, w \in Document
               PROVE  Diff(v, w).diff \in Level[0]
    BY <1>0, <1>1
  <2> DEFINE d == Diff(v, w).diff
  <2>1. DOMAIN v = {} /\ DOMAIN w = {}
    BY LevelProperties, ValueProperties DEF Empty
  <2>2. d = [k \in DOMAIN d |-> d[k]] /\ DOMAIN d = {}
    BY <2>1, DiffObject DEF IsDiff, Edited, Added, Gone
  <2>3. d = Empty
    BY <2>2 DEF Empty
  <2> QED
    BY <2>3, LevelProperties
<1>3. ASSUME NEW n \in 0 .. Depth - 1, n \in Kept PROVE n + 1 \in Kept
  <2>0. n + 1 \in 0 .. Depth /\ n + 1 # 0 /\ (n + 1) - 1 = n /\ n \in 0 .. Depth /\ n + 1 \in 1 .. Depth
    BY <1>0
  <2> SUFFICES ASSUME NEW v \in Level[n + 1], NEW w \in Level[n + 1], v \in Document, w \in Document
               PROVE  Diff(v, w).diff \in Level[n + 1]
    BY <2>0, <1>1
  <2> DEFINE d == Diff(v, w).diff
  <2>1. IsDiff(d, v, w)
    BY DiffObject
  <2>2. /\ DOMAIN v \subseteq Key /\ \A k \in DOMAIN v : v[k] \in Level[n]
        /\ DOMAIN w \subseteq Key /\ \A k \in DOMAIN w : w[k] \in Level[n]
    BY <2>0, LevelFields, ValueProperties
  <2>3. Null \in Level[n]
    BY <2>0, LevelsGrow DEF Leaf
  <2>4. \A k \in Edited(v, w) : d[k] \in Level[n]
    BY <1>3, <2>1, <2>2 DEF IsDiff, Edited
  <2>5. \A k \in Added(v, w) \cup Gone(v, w) : d[k] \in Level[n]
    BY <2>1, <2>2, <2>3 DEF IsDiff, Added
  <2>6. DOMAIN d \subseteq Key /\ \A k \in DOMAIN d : d[k] \in Level[n]
    BY <2>1, <2>2, <2>4, <2>5 DEF IsDiff, Edited, Added, Gone
  <2>7. d = [k \in DOMAIN d |-> d[k]]
    BY <2>1 DEF IsDiff
  <2> QED
    BY <2>0, <2>6, <2>7, ValueProperties
<1> HIDE DEF Kept
<1>4. 0 .. Depth \subseteq Kept
  BY <1>0, <1>2, <1>3, Upwards
<1> QED
  BY <1>4 DEF Kept

LEMMA DiffIsValue ==
  ASSUME NEW v \in Value, NEW w \in Value
  PROVE  /\ Diff(v, w).diff \in Value
         /\ v \in Document /\ w \in Document => Diff(v, w).diff \in Document
<1>1. Depth \in 0 .. Depth /\ Depth \in Nat
  BY MergePatchAssumption
<1>2. \A x, y \in Value : Diff(x, y).diff \in Value
  BY <1>1, DiffStays DEF Value
<1>3. ASSUME v \in Document, w \in Document PROVE Diff(v, w).diff \in Document
  <2> DEFINE d == Diff(v, w).diff
  <2>1. IsDiff(d, v, w)
    BY <1>3, DiffObject
  <2>2. DOMAIN d \subseteq Key /\ \A k \in DOMAIN d : d[k] \in Value
    BY <1>2, <1>3, <2>1, ValueProperties DEF IsDiff, Edited, Added, Gone
  <2>3. d \in Objects(Value)
    <3>1. d \in [DOMAIN d -> Value]
      BY <2>1, <2>2 DEF IsDiff
    <3> QED
      BY <2>2, <3>1, ObjectsProperties
  <2> QED
    BY <1>2, <2>3, MergePatchAssumption DEF Document
<1> QED
  BY <1>2, <1>3

\* No field of x is null, at any level: merged into a leaf it is itself.
IsNew(x) == x # Null /\ \A u \in Leaf : Merge(u, x).value = x

LEMMA MergedIntoLeafIsNew ==
  \A p \in Value : p # Null => \A u \in Leaf : IsNew(Merge(u, p).value)
<1> DEFINE Fine == {p \in Value : p # Null => \A u \in Leaf : IsNew(Merge(u, p).value)}
<1>1. Leaf \subseteq Fine
  BY MergeLeaf, ValueProperties DEF IsNew
<1>2. ASSUME NEW p \in Document, \A k \in DOMAIN p : p[k] \in Fine PROVE p \in Fine
  <2> SUFFICES ASSUME NEW u \in Leaf PROVE IsNew(Merge(u, p).value)
    BY ValueProperties
  <2> DEFINE x == Merge(u, p).value
  <2>1. u \in Value /\ Fields(u) = {} /\ p \in Value
    BY ValueProperties
  <2>2. IsMerged(x, u, p) /\ x \in Document /\ x \in Value
    BY <2>1, MergeObject, MergeIsValue
  <2> HIDE DEF x
  <2>3. DOMAIN x = Sets(p)
    BY <2>1, <2>2 DEF IsMerged
  <2>4. \A k \in DOMAIN x : x[k] = Merge(Null, p[k]).value /\ p[k] \in Fine /\ p[k] # Null
    BY <1>2, <2>1, <2>2, <2>3, SetsAndRemoves DEF IsMerged, At
  <2>5. \A k \in DOMAIN x : IsNew(x[k])
    BY <2>4 DEF Leaf
  <2>6. ASSUME NEW v \in Leaf PROVE Merge(v, x).value = x
    <3> DEFINE y == Merge(v, x).value
    <3>1. v \in Value /\ Fields(v) = {}
      BY ValueProperties
    <3>2. IsMerged(y, v, x)
      BY <2>2, <3>1, MergeObject
    <3>3. Sets(x) = DOMAIN x
      BY <2>5, SetsAndRemoves DEF IsNew
    <3>4. DOMAIN y = DOMAIN x
      BY <3>1, <3>2, <3>3 DEF IsMerged
    <3>5. \A k \in DOMAIN y : y[k] = x[k]
      BY <2>5, <3>1, <3>2, <3>3, <3>4 DEF IsMerged, At, IsNew, Leaf
    <3> HIDE DEF y
    <3>6. y = x
      BY <2>2, <3>2, <3>4, <3>5, ObjectsEqual DEF IsMerged
    <3> QED
      BY <3>6 DEF y
  <2>7. IsNew(x)
    BY <2>2, <2>6, ValueProperties DEF IsNew, Leaf
  <2> QED
    BY <2>7 DEF x
<1> HIDE DEF Fine
<1>3. Value \subseteq Fine
  BY <1>1, <1>2, ByFields
<1> QED
  BY <1>3 DEF Fine

\* The diff d between v and what p makes of it, merged into v, does the same.
Restores(v, p, w, d) ==
  /\ Diff(v, w).has => Merge(v, d).value = w
  /\ Merge(v, p).changed => Merge(v, d).changed
  /\ p # Null => d # Null

\* Between objects: what is edited and added is set, what is gone is removed.
LEMMA DiffOfObjectsRestores ==
  ASSUME NEW v \in Document, NEW p \in Document, NEW w, w = Merge(v, p).value,
         NEW d, d = Diff(v, w).diff,
         \A k \in Sets(p) : \A o \in Value :
           LET m == Merge(o, p[k]).value IN Restores(o, p[k], m, Diff(o, m).diff)
  PROVE  Restores(v, p, w, d)
<1>1. IsMerged(w, v, p) /\ w \in Document /\ w \in Value /\ v \in Value /\ p \in Value
  BY ValueProperties, MergeObject, MergeIsValue
<1>2. IsDiff(d, v, w) /\ d \in Document /\ d \in Value
  BY <1>1, DiffObject, DiffIsValue, ValueProperties
<1>3. /\ Fields(v) = DOMAIN v /\ DOMAIN w = (DOMAIN v \ Removes(p)) \cup Sets(p)
      /\ \A k \in DOMAIN v : At(v, k) = v[k] /\ v[k] \in Value
      /\ \A k \in DOMAIN w : w[k] \in Value
      /\ \A k \in DOMAIN p : p[k] \in Value
  BY <1>1, ValueProperties DEF IsMerged, At
<1>4. ASSUME NEW k \in Edited(v, w)
      PROVE  k \in Sets(p) /\ d[k] # Null /\ Merge(v[k], d[k]).value = w[k]
  <2>1. k \in DOMAIN v /\ k \in DOMAIN w /\ Diff(v[k], w[k]).has /\ d[k] = Diff(v[k], w[k]).diff
    BY <1>2 DEF Edited, IsDiff
  <2>2. k \in Sets(p)
    BY <1>1, <1>3, <2>1, SameHasNoDiff DEF IsMerged
  <2>3. w[k] = Merge(v[k], p[k]).value /\ p[k] # Null
    BY <1>1, <1>3, <2>1, <2>2, SetsAndRemoves DEF IsMerged
  <2>4. Restores(v[k], p[k], w[k], d[k])
    BY <1>3, <2>1, <2>2, <2>3
  <2> QED
    BY <2>1, <2>2, <2>3, <2>4 DEF Restores
<1>5. ASSUME NEW k \in Added(v, w)
      PROVE  k \in Sets(p) /\ d[k] = w[k] /\ IsNew(w[k])
  <2>1. k \in Sets(p) /\ d[k] = w[k] /\ At(v, k) = Null
    BY <1>2, <1>3 DEF Added, IsDiff, At
  <2>2. w[k] = Merge(Null, p[k]).value /\ p[k] # Null /\ p[k] \in Value
    BY <1>1, <1>3, <2>1, SetsAndRemoves DEF IsMerged
  <2> QED
    BY <2>1, <2>2, MergedIntoLeafIsNew DEF Leaf
<1>6. Removes(d) = Gone(v, w) /\ Sets(d) = Edited(v, w) \cup Added(v, w)
  <2>1. \A k \in Gone(v, w) : d[k] = Null
    BY <1>2 DEF IsDiff
  <2>2. \A k \in Edited(v, w) \cup Added(v, w) : d[k] # Null
    BY <1>4, <1>5 DEF IsNew
  <2>3. DOMAIN d = Edited(v, w) \cup Added(v, w) \cup Gone(v, w)
    BY <1>2 DEF IsDiff
  <2> QED
    BY <2>1, <2>2, <2>3 DEF Sets, Removes
<1> DEFINE r == Merge(v, d).value
<1>7. IsMerged(r, v, d)
  BY <1>1, <1>2, MergeObject
<1> HIDE DEF r
<1>8. DOMAIN r = DOMAIN w
  BY <1>3, <1>6, <1>7 DEF IsMerged, Edited, Added, Gone
<1>9. ASSUME NEW k \in DOMAIN r PROVE r[k] = w[k]
  <2>1. CASE k \in Edited(v, w)
    BY <1>3, <1>4, <1>6, <1>7, <2>1 DEF IsMerged, Edited
  <2>2. CASE k \in Added(v, w)
    <3>1. At(v, k) = Null
      BY <1>3, <2>2 DEF Added, At
    <3>2. r[k] = Merge(Null, w[k]).value
      BY <1>5, <1>6, <1>7, <2>2, <3>1 DEF IsMerged
    <3> QED
      BY <1>5, <2>2, <3>2 DEF IsNew, Leaf
  <2>3. CASE k \notin Edited(v, w) /\ k \notin Added(v, w)
    <3>1. k \in DOMAIN v /\ k \in DOMAIN w /\ ~Diff(v[k], w[k]).has
      BY <1>8, <1>9, <2>3 DEF Edited, Added
    <3>2. r[k] = v[k]
      BY <1>6, <1>7, <1>9, <2>3 DEF IsMerged
    <3> QED
      BY <1>3, <3>1, <3>2, NoDiffIsSame
  <2> QED
    BY <2>1, <2>2, <2>3
<1>10. r = w
  BY <1>1, <1>7, <1>8, <1>9, ObjectsEqual DEF IsMerged
<1>11. ASSUME Merge(v, p).changed PROVE Merge(v, d).changed
  <2>1. CASE Removes(p) \cap DOMAIN v # {}
    <3>1. PICK k \in Removes(p) : k \in DOMAIN v
      BY <2>1
    <3>2. k \in Gone(v, w)
      BY <1>3, <3>1, SetsAndRemoves DEF Gone
    <3>3. Removes(d) \cap Fields(v) # {}
      BY <1>3, <1>6, <3>1, <3>2
    <3> QED
      BY <1>1, <1>2, <3>3, MergeObject
  <2>2. CASE \E k \in Sets(p) : k \notin DOMAIN v
    <3>1. PICK k \in Sets(p) : k \notin DOMAIN v
      BY <2>2
    <3>2. k \in Sets(d) /\ k \notin Fields(v)
      BY <1>3, <1>6, <3>1 DEF Added
    <3> QED
      BY <1>1, <1>2, <3>2, MergeObject
  <2>3. CASE \E k \in Sets(p) : k \in DOMAIN v /\ Merge(v[k], p[k]).changed
    <3>1. PICK k \in Sets(p) : k \in DOMAIN v /\ Merge(v[k], p[k]).changed
      BY <2>3
    <3>2. w[k] = Merge(v[k], p[k]).value /\ k \in DOMAIN w /\ k \in DOMAIN p
      BY <1>1, <1>3, <3>1, SetsAndRemoves DEF IsMerged
    <3>3. Diff(v[k], w[k]).has
      BY <1>3, <3>1, <3>2, ChangedIsNew, NoDiffIsSame
    <3>4. k \in Edited(v, w) /\ d[k] = Diff(v[k], w[k]).diff
      BY <1>2, <3>1, <3>2, <3>3 DEF Edited, IsDiff
    <3>5. Restores(v[k], p[k], w[k], d[k])
      BY <1>3, <3>1, <3>2, <3>4
    <3>6. k \in Sets(d) /\ Merge(At(v, k), d[k]).changed
      BY <1>3, <1>6, <3>1, <3>4, <3>5 DEF Restores
    <3> QED
      BY <1>1, <1>2, <3>6, MergeObject
  <2>4. \/ Removes(p) \cap DOMAIN v # {}
        \/ \E k \in Sets(p) : k \notin DOMAIN v
        \/ \E k \in Sets(p) : k \in DOMAIN v /\ Merge(v[k], p[k]).changed
    <3>1. \/ Removes(p) \cap Fields(v) # {}
          \/ \E k \in Sets(p) : k \notin Fields(v) \/ Merge(At(v, k), p[k]).changed
      BY <1>1, <1>11, MergeObject
    <3> QED
      BY <1>3, <3>1
  <2> QED
    BY <2>1, <2>2, <2>3, <2>4
<1>12. d # Null
  BY <1>2, ValueProperties DEF Leaf
<1> QED
  BY <1>10, <1>11, <1>12 DEF Restores, r

LEMMA DiffRestores ==
  \A v, p \in Value : LET w == Merge(v, p).value IN Restores(v, p, w, Diff(v, w).diff)
<1> DEFINE Does(v, p) == LET w == Merge(v, p).value IN Restores(v, p, w, Diff(v, w).diff)
           Fine == {p \in Value : \A v \in Value : Does(v, p)}
<1>1. ASSUME NEW p \in Leaf, NEW v \in Value PROVE Does(v, p)
  <2>1. Merge(v, p).value = p /\ Diff(v, p).diff = p
    BY MergeLeaf, DiffLeaf, ValueProperties
  <2> QED
    BY <2>1 DEF Restores
<1>2. ASSUME NEW p \in Document, NEW v \in Leaf PROVE Does(v, p)
  <2> DEFINE w == Merge(v, p).value
  <2>1. v \in Value /\ p \in Value /\ Fields(v) = {} /\ p # Null
    BY ValueProperties DEF Leaf
  <2>2. IsMerged(w, v, p) /\ IsNew(w) /\ w \in Value /\ w \in Document
    BY <2>1, MergeObject, MergeIsValue, MergedIntoLeafIsNew
  <2> HIDE DEF w
  <2>3. Diff(v, w).diff = w /\ Merge(v, w).value = w /\ w # Null
    BY <2>1, <2>2, DiffLeaf DEF IsNew
  <2>4. ASSUME Merge(v, p).changed PROVE Merge(v, w).changed
    <3>1. PICK k \in Sets(p) : TRUE
      BY <2>1, <2>4, MergeObject
    <3>2. k \in DOMAIN w /\ w[k] = Merge(Null, p[k]).value /\ p[k] # Null /\ p[k] \in Value
      BY <2>1, <2>2, <3>1, SetsAndRemoves, ValueProperties DEF IsMerged, At
    <3>3. w[k] # Null
      BY <3>2, MergedIntoLeafIsNew DEF IsNew, Leaf
    <3>4. k \in Sets(w) /\ k \notin Fields(v)
      BY <2>1, <3>2, <3>3, SetsAndRemoves
    <3> QED
      BY <2>1, <2>2, <3>4, MergeObject
  <2>5. Restores(v, p, w, Diff(v, w).diff)
    BY <2>3, <2>4 DEF Restores
  <2> QED
    BY <2>5 DEF w
<1>3. ASSUME NEW p \in Document, \A k \in DOMAIN p : p[k] \in Fine, NEW v \in Document PROVE Does(v, p)
  <2>1. \A k \in Sets(p) : \A o \in Value : Does(o, p[k])
    BY <1>3, SetsAndRemoves
  <2> QED
    BY <2>1, DiffOfObjectsRestores
<1>4. Leaf \subseteq Fine
  BY <1>1, ValueProperties
<1>5. ASSUME NEW p \in Document, \A k \in DOMAIN p : p[k] \in Fine PROVE p \in Fine
  BY <1>2, <1>3, <1>5, ValueProperties
<1> HIDE DEF Fine
<1>6. Value \subseteq Fine
  BY <1>4, <1>5, ByFields
<1> QED
  BY <1>6 DEF Fine

-----------------------------------------------------------------------------
(***************************************************************************)
(* The specification.                                                      *)
(***************************************************************************)

LEMMA PatchedIsValue ==
  ASSUME NEW v \in Value, NEW p \in Value
  PROVE  /\ Patched(v, p) \in Value
         /\ Merge(v, p).changed => Patched(v, p) = Merge(v, p).value
         /\ ~Merge(v, p).changed => Patched(v, p) = v
BY MergeIsValue DEF Patched

\* The replay of the command a patch writes does to the document what the
\* patch did, or nothing if that is no object.
LEMMA ReplayDoesTheSame ==
  ASSUME NEW v \in Document, NEW p \in Value, NEW new, new = Patched(v, p)
  PROVE  /\ new \in Value
         /\ Diff(v, new).has => /\ IsObject(new) => Replay(v, Diff(v, new).diff) = new
                                /\ ~IsObject(new) => Replay(v, Diff(v, new).diff) = v
         /\ ~Diff(v, new).has => new = v
<1> DEFINE d == Diff(v, new).diff
<1>1. v \in Value /\ new \in Value
  BY ValueProperties, PatchedIsValue
<1>2. ~Diff(v, new).has => new = v
  BY <1>1, NoDiffIsSame
<1>3. ASSUME Diff(v, new).has, IsObject(new) PROVE Replay(v, d) = new
  <2>1. Merge(v, p).changed /\ new = Merge(v, p).value
    BY <1>1, <1>3, PatchedIsValue, SameHasNoDiff
  <2>2. Restores(v, p, new, d)
    BY <1>1, <2>1, DiffRestores
  <2>3. Merge(v, d).value = new /\ Merge(v, d).changed
    BY <1>3, <2>1, <2>2 DEF Restores
  <2>4. new \in Document /\ IsObject(d)
    BY <1>1, <1>3, DiffIsValue, ValueProperties DEF IsObject
  <2> QED
    BY <2>3, <2>4 DEF Replay, Patched
<1>4. ASSUME ~IsObject(new) PROVE Replay(v, d) = v
  <2>1. new \in Leaf /\ d = new
    BY <1>1, <1>4, DiffLeaf DEF IsObject
  <2>2. Sets(Empty) = {} /\ Removes(Empty) = {} /\ Empty \in Document
    BY ValueProperties DEF Sets, Removes, Empty
  <2>3. ~Merge(v, Empty).changed
    BY <1>1, <2>2, MergeObject
  <2> QED
    BY <1>4, <2>1, <2>3 DEF Replay, Patched
<1> QED
  BY <1>1, <1>2, <1>3, <1>4

ReplayInv == TypeOK /\ ReplayRestoresPayload

LEMMA ReplayInvariant == Spec => []ReplayInv
<1>1. Init => ReplayInv
  BY ValueProperties DEF Init, ReplayInv, TypeOK, ReplayRestoresPayload
<1>2. ReplayInv /\ [Next]_vars => ReplayInv'
  <2> SUFFICES ASSUME ReplayInv, [Next]_vars PROVE ReplayInv'
    OBVIOUS
  <2>1. payload \in Value /\ replayed \in Document /\ (IsObject(payload) => replayed = payload)
    BY DEF ReplayInv, TypeOK, ReplayRestoresPayload
  <2>2. CASE Restart
    BY <2>1, <2>2, ValueProperties DEF Restart, ReplayInv, TypeOK, ReplayRestoresPayload
  <2>3. ASSUME NEW patch \in Value, Patch(patch) PROVE ReplayInv'
    <3> DEFINE new == Patched(payload, patch)
               d == Diff(payload, new)
    <3>1. /\ payload \in Document /\ replayed = payload /\ payload' = new
          /\ replayed' = IF d.has THEN Replay(payload, d.diff) ELSE payload
      BY <2>1, <2>3, ValueProperties DEF Patch, IsObject
    <3> HIDE DEF new
    <3>2. /\ new \in Value
          /\ d.has => /\ IsObject(new) => Replay(payload, d.diff) = new
                      /\ ~IsObject(new) => Replay(payload, d.diff) = payload
          /\ ~d.has => new = payload
      BY <3>1, ReplayDoesTheSame DEF new
    <3>3. replayed' = IF IsObject(new) THEN new ELSE payload
      BY <3>1, <3>2, ValueProperties
    <3>4. replayed' \in Document
      BY <3>1, <3>2, <3>3, ValueProperties DEF IsObject
    <3> QED
      BY <3>1, <3>2, <3>3, <3>4 DEF ReplayInv, TypeOK, ReplayRestoresPayload
  <2>4. CASE UNCHANGED vars
    BY <2>1, <2>4 DEF vars, ReplayInv, TypeOK, ReplayRestoresPayload
  <2> QED
    BY <2>2, <2>3, <2>4 DEF Next
<1> QED
  BY <1>1, <1>2, PTL DEF Spec

\* The payload is a JSON value and the replayed payload a document, whatever
\* values are patched in, at any depth.
THEOREM SpecTypeOK == Spec => []TypeOK
<1>1. ReplayInv => TypeOK
  BY DEF ReplayInv
<1> QED
  BY <1>1, ReplayInvariant, PTL

\* applyMergePatchValue computes the merge of RFC 7386 for every payload and
\* every patch, at any depth: by induction over the patch.
THEOREM SpecMergeFollowsTheRFC == Spec => []MergeFollowsTheRFC
<1>1. TypeOK => MergeFollowsTheRFC
  BY MergeIsReference DEF TypeOK, MergeFollowsTheRFC
<1> QED
  BY <1>1, SpecTypeOK, PTL

\* What patchByRow drops as changing nothing turns leaves into empty objects at
\* most, and the same patch sent again is dropped.
THEOREM SpecOnlyWhatChangesIsWritten == Spec => []OnlyWhatChangesIsWritten
<1>1. ASSUME TypeOK PROVE OnlyWhatChangesIsWritten
  <2> SUFFICES ASSUME NEW patch \in Value
               PROVE  LET new == Patched(payload, patch) IN
                      /\ new = payload => Alike(payload, Reference(payload, patch))
                      /\ ~Merge(new, patch).changed
    BY DEF OnlyWhatChangesIsWritten
  <2> DEFINE new == Patched(payload, patch)
             m == Merge(payload, patch)
  <2>1. payload \in Value /\ m.value \in Value
    BY <1>1, MergeIsValue DEF TypeOK
  <2>2. m.value = Reference(payload, patch)
    BY <2>1, MergeIsReference
  <2>3. new = payload => Alike(payload, m.value)
    BY <2>1, PatchedIsValue, UnchangedIsAlike, ChangedIsNew
  <2>4. ~Merge(new, patch).changed
    BY <2>1, PatchedIsValue, TwiceIsOnce
  <2> QED
    BY <2>2, <2>3, <2>4
<1> QED
  BY <1>1, SpecTypeOK, PTL

\* However many patches and restarts there are, as long as the document is an
\* object the diffs that patchByRow journals add up to the payload in memory.
THEOREM SpecReplayRestoresPayload == Spec => []ReplayRestoresPayload
<1>1. ReplayInv => ReplayRestoresPayload
  BY DEF ReplayInv
<1> QED
  BY <1>1, ReplayInvariant, PTL
=============================================================================

--------------------------- MODULE DefaultsProofs ---------------------------
(***************************************************************************)
(* For any number of workers, fields, maps and inserts, and any requests:  *)
(* every variable of the defaults keeps its type, no two documents of one  *)
(* process get the same number, requests that follow one another add up,   *)
(* and inserts that meet no change are filled in as a whole.               *)
(***************************************************************************)
EXTENDS Defaults, FiniteSetTheorems, TLAPS

Asks == {"decode", "clean", "publish", "marshal", "encode"}
Inserts == {"number", "fill"}
Number == 1 .. MaxCount

\* A handler that asks has a request as its body, and a loop over the fields
\* of a map has one.
Good(h) ==
  /\ h \in Handler
  /\ h.pc \in Inserts => h.item \in Document
  /\ h.pc \notin Inserts => h.item \in Setting
  /\ h.pc \in Asks => h.body \in Setting
  /\ h.pc = "fill" /\ h.left # {} => h.map \in Map
HandlersOK == handler \in [Worker -> Handler] /\ \A w \in Worker : Good(handler[w])
SharedOK ==
  /\ created \in BOOLEAN
  /\ Defaults \in Map \cup {Nil} /\ maps \in [Map -> Setting]
  /\ Count \in 0 .. MaxCount
  /\ saved \in Setting /\ durable \in Setting /\ setting \in Setting
  /\ used \subseteq Number
  /\ crossed \in BOOLEAN /\ mixed \subseteq Worker

\* A number is at most Count, and it is in the document of its insert only.
Numbered(h) ==
  h.pc \in Inserts =>
    /\ h.auto \in 1 .. Count /\ h.auto \notin used
    /\ \A f \in Field : h.item[f] \in Number => h.item[f] = h.auto
NumbersInv ==
  /\ used \subseteq 1 .. Count
  /\ \A w \in Worker : Numbered(handler[w])
  /\ \A v, w \in Worker : Inserting(v) /\ Inserting(w) /\ handler[v].auto = handler[w].auto => v = w

DefaultsInv == SharedOK /\ HandlersOK /\ NumbersInv

LEMMA InvImplies == DefaultsInv => TypeOK /\ NumbersDiffer
<1>1. SharedOK /\ HandlersOK => TypeOK
  BY DEF SharedOK, HandlersOK, Good, TypeOK, Number, Inserting, Inserts
<1>2. NumbersInv => NumbersDiffer
  BY DEF NumbersInv, Numbered, NumbersDiffer, Inserting, Inserts
<1> QED
  BY <1>1, <1>2 DEF DefaultsInv

\* No number is one of the other values.
LEMMA ValuesDiffer ==
  /\ MaxCount \in Nat
  /\ \A value \in {AutoNumber, Plain, Given, Null, Absent} : value \notin Number
  /\ Nothing \in Setting /\ Request \subseteq Setting /\ Input \subseteq Document
  /\ \A document \in Input : document \in [Field -> {Given, Null, Absent}]
<1>1. MaxCount \in Nat /\ \A value \in {AutoNumber, Plain, Given, Null, Absent} : value \notin Number
  <2>1. MaxCount \in Nat /\ {AutoNumber, Plain, Given, Null, Absent} \cap Number = {}
    BY DefaultsAssumption DEF Number
  <2> QED
    BY <2>1
<1>2. Nothing \in Setting /\ Request \subseteq Setting
  BY DefaultsAssumption DEF Nothing, Setting
<1>3. [Field -> {Given, Null, Absent}] \subseteq Document
  BY DEF Document
<1> QED
  BY <1>1, <1>2, <1>3, DefaultsAssumption

LEMMA IdleIsGood == Good(Idle) /\ Idle.pc = "idle"
BY ValuesDiffer DEF Good, Idle, Handler, Asks, Inserts

LEMMA InvInit == Init => DefaultsInv
<1> SUFFICES ASSUME Init PROVE DefaultsInv
  OBVIOUS
<1>1. \A w \in Worker : handler[w] = Idle
  BY DEF Init
<1>2. HandlersOK
  BY <1>1, IdleIsGood DEF Init, HandlersOK, Good
<1>3. SharedOK
  <2>1. [m \in Map |-> Nothing] \in [Map -> Setting] /\ 0 \in 0 .. MaxCount
    BY ValuesDiffer
  <2> QED
    BY <2>1, ValuesDiffer DEF Init, SharedOK
<1>4. NumbersInv
  BY <1>1, IdleIsGood DEF Init, NumbersInv, Numbered, Inserting, Inserts
<1> QED
  BY <1>2, <1>3, <1>4 DEF DefaultsInv

-----------------------------------------------------------------------------
\* A step that gives one handler another value.
LEMMA OneHandler ==
  ASSUME HandlersOK, NEW w \in Worker, NEW g, Good(g), handler' = [handler EXCEPT ![w] = g]
  PROVE  /\ HandlersOK' /\ handler'[w] = g
         /\ \A v \in Worker \ {w} : handler'[v] = handler[v]
<1>1. handler'[w] = g /\ \A v \in Worker \ {w} : handler'[v] = handler[v]
  BY DEF HandlersOK
<1>2. handler' \in [Worker -> Handler]
  BY DEF HandlersOK, Good
<1>3. \A v \in Worker : Good(handler'[v])
  BY <1>1 DEF HandlersOK
<1> QED
  BY <1>1, <1>2, <1>3 DEF HandlersOK

\* Numbers are not touched by a handler that is not inserting, nor by one
\* that keeps its number and puts no other into its document.
LEMMA NumbersAside ==
  ASSUME NumbersInv, NEW w \in Worker, UNCHANGED <<Count, used>>,
         \A v \in Worker \ {w} : handler'[v] = handler[v],
         \/ handler'[w].pc \notin Inserts
         \/ /\ handler[w].pc \in Inserts /\ handler'[w].auto = handler[w].auto
            /\ \A f \in Field : handler'[w].item[f] \in Number =>
                 handler'[w].item[f] \in {handler[w].item[f], handler[w].auto}
  PROVE  NumbersInv'
<1>1. \A v \in Worker : Inserting(v)' => Inserting(v) /\ handler'[v].auto = handler[v].auto
  BY DEF Inserting, Inserts
<1>2. \A v \in Worker : Numbered(handler[v])'
  <2>1. ASSUME NEW v \in Worker \ {w} PROVE Numbered(handler[v])'
    BY <2>1 DEF NumbersInv, Numbered
  <2>2. Numbered(handler[w])'
    BY DEF NumbersInv, Numbered
  <2> QED
    BY <2>1, <2>2
<1> QED
  BY <1>1, <1>2 DEF NumbersInv

\* A handler that is not inserting goes on with another value that is good.
LEMMA Settles ==
  ASSUME DefaultsInv, NEW w \in Worker, NEW g, Good(g), g.pc \notin Inserts,
         handler' = [handler EXCEPT ![w] = g], UNCHANGED <<Count, used>>, SharedOK'
  PROVE  DefaultsInv'
<1>1. HandlersOK' /\ handler'[w] = g /\ \A v \in Worker \ {w} : handler'[v] = handler[v]
  BY OneHandler DEF DefaultsInv
<1>2. NumbersInv'
  BY <1>1, NumbersAside DEF DefaultsInv
<1> QED
  BY <1>1, <1>2 DEF DefaultsInv

\* The requests that set defaults.
LEMMA SetsNext ==
  ASSUME DefaultsInv, NEW w \in Worker,
         \/ \E request \in Request : Create(w, request) \/ StartSet(w, request)
         \/ StartClear(w)
         \/ \E f \in Field : DecodeField(w, f) \/ CleanField(w, f)
         \/ DecodeEnd(w) \/ CleanEnd(w) \/ Publish(w) \/ Marshal(w) \/ Encode(w)
  PROVE  DefaultsInv'
<1> DEFINE h == handler[w]
<1>1. SharedOK /\ Good(h) /\ h \in Handler
  BY DEF DefaultsInv, HandlersOK, Good
<1>2. ASSUME NEW request \in Request, Create(w, request) PROVE DefaultsInv'
  <2>1. PICK m \in Unused :
          /\ maps' = [maps EXCEPT ![m] = request]
          /\ handler' = [handler EXCEPT ![w] = [Idle EXCEPT !.pc = "publish", !.body = request, !.map = m]]
    BY <1>2 DEF Create
  <2> DEFINE g == [Idle EXCEPT !.pc = "publish", !.body = request, !.map = m]
  <2>2. m \in Map /\ request \in Setting
    BY ValuesDiffer DEF Unused
  <2>3. Good(g) /\ g.pc = "publish"
    <3>1. Idle \in Handler /\ Idle.item \in Setting
      BY IdleIsGood DEF Good, Inserts
    <3> QED
      BY <2>2, <3>1 DEF Good, Handler, Inserts
  <2>4. SharedOK'
    BY <1>1, <1>2, <2>1, <2>2 DEF Create, Overlaps, SharedOK
  <2>5. UNCHANGED <<Count, used>>
    BY <1>2 DEF Create
  <2> HIDE DEF g
  <2> QED
    BY <2>1, <2>3, <2>4, <2>5, Settles DEF g, Inserts
<1>3. ASSUME NEW request \in Request, StartSet(w, request) PROVE DefaultsInv'
  <2>1. PICK m \in Map :
          /\ maps' = [maps EXCEPT ![m] = Content(Defaults)]
          /\ handler' = [handler EXCEPT ![w] = [Idle EXCEPT
               !.pc = "decode", !.body = request, !.map = m, !.left = Fields(request)]]
    BY <1>1, <1>3 DEF StartSet, Unused, SharedOK
  <2> DEFINE g == [Idle EXCEPT !.pc = "decode", !.body = request, !.map = m, !.left = Fields(request)]
  <2>2. request \in Setting /\ Fields(request) \subseteq Field
    BY ValuesDiffer DEF Fields
  <2>3. Good(g) /\ g.pc = "decode"
    <3>1. Idle \in Handler /\ Idle.item \in Setting
      BY IdleIsGood DEF Good, Inserts
    <3> QED
      BY <2>2, <3>1 DEF Good, Handler, Inserts
  <2>4. Content(Defaults) \in Setting /\ Applied(setting, request) \in Setting
    <3>1. Content(Defaults) \in Setting
      BY <1>1, ValuesDiffer DEF Content, SharedOK
    <3>2. Applied(setting, request) \in Setting
      BY <1>1, <2>2 DEF Applied, Setting, SharedOK
    <3> QED
      BY <3>1, <3>2
  <2>5. SharedOK'
    BY <1>1, <1>3, <2>1, <2>4 DEF StartSet, Overlaps, SharedOK
  <2>6. UNCHANGED <<Count, used>>
    BY <1>3 DEF StartSet
  <2> HIDE DEF g
  <2> QED
    BY <2>1, <2>3, <2>5, <2>6, Settles DEF g, Inserts
<1>0. CASE StartClear(w)
  <2> DEFINE g == [Idle EXCEPT !.pc = "publish"]
  <2>1. Good(g) /\ g.pc = "publish"
    <3>1. Idle \in Handler /\ Idle.item \in Setting /\ Idle.body \in Setting
      BY IdleIsGood, ValuesDiffer DEF Good, Inserts, Idle
    <3> QED
      BY <3>1 DEF Good, Handler, Inserts
  <2>2. SharedOK'
    BY <1>0, <1>1, ValuesDiffer DEF StartClear, Overlaps, SharedOK
  <2>3. handler' = [handler EXCEPT ![w] = g] /\ UNCHANGED <<Count, used>>
    BY <1>0 DEF StartClear
  <2> HIDE DEF g
  <2> QED
    BY <2>1, <2>2, <2>3, Settles DEF Inserts
<1>4. ASSUME NEW f \in Field, DecodeField(w, f) PROVE DefaultsInv'
  <2> DEFINE g == [h EXCEPT !.left = @ \ {f}]
  <2>1. /\ h.pc = "decode" /\ h.body[f] \in {AutoNumber, Plain, Null, Absent}
        /\ handler' = [handler EXCEPT ![w] = g]
        /\ maps' = [maps EXCEPT ![h.map][f] = h.body[f]]
    BY <1>1, <1>4 DEF DecodeField, At, Good, Asks, Setting
  <2>2. Good(g) /\ g.pc = "decode"
    BY <1>1, <2>1 DEF Good, Handler, Asks, Inserts
  <2>3. SharedOK'
    <3>1. maps' \in [Map -> Setting]
      BY <1>1, <2>1 DEF SharedOK, Setting
    <3> QED
      BY <1>1, <1>4, <3>1 DEF DecodeField, history, SharedOK
  <2>4. UNCHANGED <<Count, used>>
    BY <1>4 DEF DecodeField, history
  <2> HIDE DEF g
  <2> QED
    BY <2>1, <2>2, <2>3, <2>4, Settles DEF Inserts
<1>5. ASSUME NEW f \in Field, CleanField(w, f) PROVE DefaultsInv'
  <2> DEFINE g == [h EXCEPT !.left = @ \ {f}]
  <2>1. /\ h.pc = "clean" /\ handler' = [handler EXCEPT ![w] = g]
        /\ maps' = [maps EXCEPT ![h.map][f] = IF @ = Null THEN Absent ELSE @]
    BY <1>5 DEF CleanField, At
  <2>2. Good(g) /\ g.pc = "clean"
    BY <1>1, <2>1 DEF Good, Handler, Asks, Inserts
  <2>3. SharedOK'
    <3>1. maps' \in [Map -> Setting]
      BY <1>1, <2>1 DEF SharedOK, Setting
    <3> QED
      BY <1>1, <1>5, <3>1 DEF CleanField, history, SharedOK
  <2>4. UNCHANGED <<Count, used>>
    BY <1>5 DEF CleanField, history
  <2> HIDE DEF g
  <2> QED
    BY <2>1, <2>2, <2>3, <2>4, Settles DEF Inserts
<1>6. CASE DecodeEnd(w) \/ CleanEnd(w) \/ Publish(w) \/ Marshal(w) \/ Encode(w)
  <2>1. UNCHANGED <<created, maps, Count, history>>
    BY <1>6 DEF DecodeEnd, CleanEnd, Publish, Marshal, Encode, collection
  <2>2. SharedOK'
    <3>1. Defaults' \in Map \cup {Nil} /\ saved' \in Setting /\ durable' = durable
      BY <1>1, <1>6 DEF DecodeEnd, CleanEnd, Publish, Marshal, Encode, collection, At,
                        SharedOK, Good, Handler, Inserts
    <3> QED
      BY <1>1, <2>1, <3>1 DEF SharedOK, history
  <2>3. \E g : Good(g) /\ g.pc \notin Inserts /\ handler' = [handler EXCEPT ![w] = g]
    <3>1. CASE DecodeEnd(w)
      <4> DEFINE g == [h EXCEPT !.pc = "clean", !.left = Field]
      <4>1. h.pc = "decode" /\ handler' = [handler EXCEPT ![w] = g]
        BY <3>1 DEF DecodeEnd, At
      <4>2. Good(g) /\ g.pc = "clean"
        BY <1>1, <4>1 DEF Good, Handler, Asks, Inserts
      <4> HIDE DEF g
      <4> QED
        BY <4>1, <4>2 DEF Inserts
    <3>2. CASE CleanEnd(w)
      <4> DEFINE g == [h EXCEPT !.pc = "publish", !.map = IF Fields(maps[@]) = {} THEN Nil ELSE @]
      <4>1. h.pc = "clean" /\ handler' = [handler EXCEPT ![w] = g]
        BY <3>2 DEF CleanEnd, At
      <4>2. Good(g) /\ g.pc = "publish"
        BY <1>1, <4>1 DEF Good, Handler, Asks, Inserts
      <4> HIDE DEF g
      <4> QED
        BY <4>1, <4>2 DEF Inserts
    <3>3. CASE Publish(w)
      <4> DEFINE g == [h EXCEPT !.pc = "marshal"]
      <4>1. h.pc = "publish" /\ handler' = [handler EXCEPT ![w] = g]
        BY <3>3 DEF Publish, At
      <4>2. Good(g) /\ g.pc = "marshal"
        BY <1>1, <4>1 DEF Good, Handler, Asks, Inserts
      <4> HIDE DEF g
      <4> QED
        BY <4>1, <4>2 DEF Inserts
    <3>4. CASE Marshal(w)
      <4> DEFINE g == [h EXCEPT !.pc = "encode", !.item = Content(h.map)]
      <4>1. h.pc = "marshal" /\ handler' = [handler EXCEPT ![w] = g]
        BY <3>4 DEF Marshal, At
      <4>2. Content(h.map) \in Setting
        BY <1>1, ValuesDiffer DEF Content, SharedOK, Handler
      <4>3. Good(g) /\ g.pc = "encode"
        BY <1>1, <4>1, <4>2 DEF Good, Handler, Asks, Inserts
      <4> HIDE DEF g
      <4> QED
        BY <4>1, <4>3 DEF Inserts
    <3>5. CASE Encode(w)
      BY <3>5, IdleIsGood DEF Encode, Inserts
    <3> QED
      BY <1>6, <3>1, <3>2, <3>3, <3>4, <3>5
  <2>4. UNCHANGED <<Count, used>>
    BY <2>1 DEF history
  <2> QED
    BY <2>2, <2>3, <2>4, Settles
<1> QED
  BY <1>0, <1>2, <1>3, <1>4, <1>5, <1>6

\* An insert takes the number after Count, which no other has.
LEMMA StartInsertNext ==
  ASSUME DefaultsInv, NEW w \in Worker, NEW document \in Input, StartInsert(w, document)
  PROVE  DefaultsInv'
<1> DEFINE g == [Idle EXCEPT !.pc = "number", !.body = document, !.item = document, !.auto = Count + 1]
<1>1. SharedOK /\ HandlersOK /\ NumbersInv
  BY DEF DefaultsInv
<1>2. /\ handler' = [handler EXCEPT ![w] = g] /\ Count' = Count + 1 /\ used' = used
      /\ Count < MaxCount /\ ~Inserting(w)
  BY DEF StartInsert, NextCount, At, Inserting
<1>3. Count \in Nat /\ Count' \in 0 .. MaxCount /\ Count' \in 1 .. Count'
      /\ Count' \notin 1 .. Count /\ 1 .. Count \subseteq 1 .. Count'
  BY <1>1, <1>2, ValuesDiffer DEF SharedOK
<1>4. /\ g \in Handler /\ g.pc = "number" /\ g.item = document /\ g.auto = Count'
      /\ document \in Document
  <2>1. Idle \in Handler
    BY IdleIsGood DEF Good
  <2> QED
    BY <1>2, <1>3, <2>1, ValuesDiffer DEF Handler
<1> HIDE DEF g
<1>5. HandlersOK' /\ handler'[w] = g /\ \A v \in Worker \ {w} : handler'[v] = handler[v]
  <2>1. Good(g)
    BY <1>4 DEF Good, Inserts, Asks
  <2> QED
    BY <1>1, <1>2, <2>1, OneHandler
<1>6. SharedOK'
  BY <1>1, <1>2, <1>3 DEF StartInsert, SharedOK
<1>7. NumbersInv'
  <2>1. used' \subseteq 1 .. Count'
    BY <1>1, <1>2, <1>3 DEF NumbersInv
  <2>2. Numbered(handler[w])'
    <3>1. \A f \in Field : document[f] \notin Number
      BY ValuesDiffer
    <3>2. Count' \notin used
      BY <1>1, <1>3 DEF NumbersInv
    <3> QED
      BY <1>2, <1>3, <1>4, <1>5, <3>1, <3>2 DEF Numbered
  <2>3. ASSUME NEW v \in Worker \ {w} PROVE Numbered(handler[v])'
    <3>1. Numbered(handler[v])
      BY <1>1 DEF NumbersInv
    <3> QED
      BY <1>2, <1>3, <1>5, <3>1 DEF Numbered
  <2>4. \A v \in Worker \ {w} : Inserting(v)' => Inserting(v) /\ handler'[v].auto \in 1 .. Count
    BY <1>1, <1>5 DEF NumbersInv, Numbered, Inserting, Inserts
  <2>5. \A u, v \in Worker :
          Inserting(u)' /\ Inserting(v)' /\ handler'[u].auto = handler'[v].auto => u = v
    <3> SUFFICES ASSUME NEW u \in Worker, NEW v \in Worker, Inserting(u)', Inserting(v)',
                        handler'[u].auto = handler'[v].auto
                 PROVE  u = v
      OBVIOUS
    <3>1. CASE u # w /\ v # w
      BY <1>1, <1>5, <2>4, <3>1 DEF NumbersInv
    <3>2. CASE u = w /\ v # w
      BY <1>3, <1>4, <1>5, <2>4, <3>2
    <3>3. CASE u # w /\ v = w
      BY <1>3, <1>4, <1>5, <2>4, <3>3
    <3> QED
      BY <3>1, <3>2, <3>3
  <2> QED
    BY <2>1, <2>2, <2>3, <2>5 DEF NumbersInv
<1> QED
  BY <1>5, <1>6, <1>7 DEF DefaultsInv

\* An insert that goes on keeps its number, and one field that lacks a value
\* may get it.
LEMMA FillsNext ==
  ASSUME DefaultsInv, NEW w \in Worker, StartFill(w) \/ \E f \in Field : Fill(w, f)
  PROVE  DefaultsInv'
<1> DEFINE h == handler[w]
<1>1. SharedOK /\ HandlersOK /\ NumbersInv /\ Good(h) /\ h \in Handler
  BY DEF DefaultsInv, HandlersOK, Good
<1>2. SharedOK' /\ UNCHANGED <<Count, used>>
  <2>1. UNCHANGED <<collection, history>>
    BY DEF StartFill, Fill
  <2> QED
    BY <1>1, <2>1 DEF collection, history, SharedOK
<1>3. ASSUME NEW g, Good(g), handler' = [handler EXCEPT ![w] = g], h.pc \in Inserts, g.auto = h.auto,
             \A f \in Field : g.item[f] \in Number => g.item[f] \in {h.item[f], h.auto}
      PROVE  DefaultsInv'
  <2>1. HandlersOK' /\ handler'[w] = g /\ \A v \in Worker \ {w} : handler'[v] = handler[v]
    BY <1>1, <1>3, OneHandler
  <2>2. NumbersInv'
    BY <1>1, <1>2, <1>3, <2>1, NumbersAside
  <2> QED
    BY <1>2, <2>1, <2>2 DEF DefaultsInv
<1>4. CASE StartFill(w)
  <2> DEFINE g == [h EXCEPT !.pc = "fill", !.map = Defaults,
                            !.left = IF Defaults = Nil THEN {} ELSE Field]
  <2>1. h.pc = "number" /\ handler' = [handler EXCEPT ![w] = g]
    BY <1>4 DEF StartFill, At
  <2>2. Good(g) /\ g.auto = h.auto /\ g.item = h.item
    BY <1>1, <2>1 DEF Good, Handler, Asks, Inserts, SharedOK
  <2> HIDE DEF g
  <2> QED
    BY <1>3, <2>1, <2>2 DEF Inserts
<1>5. ASSUME NEW f \in Field, Fill(w, f) PROVE DefaultsInv'
  <2> DEFINE default == maps[h.map][f]
             value == IF Lacks(h.item, f) /\ default # Absent THEN Value(default, h.auto) ELSE h.item[f]
             g == [h EXCEPT !.left = @ \ {f}, !.item[f] = value]
  <2>1. h.pc = "fill" /\ f \in h.left /\ handler' = [handler EXCEPT ![w] = g]
    BY <1>5 DEF Fill, At
  <2>2. /\ h.map \in Map /\ h.item \in Document /\ h.auto \in Number
        /\ default \in {AutoNumber, Plain, Null, Absent}
    <3>1. h.map \in Map /\ h.item \in Document
      BY <1>1, <2>1 DEF Good, Inserts
    <3>2. maps[h.map] \in Setting
      BY <1>1, <3>1 DEF SharedOK
    <3>3. h.auto \in Number
      <4>1. h.auto \in 1 .. Count /\ Count \in 0 .. MaxCount
        BY <1>1, <2>1 DEF NumbersInv, Numbered, Inserts, SharedOK
      <4> QED
        BY <4>1, ValuesDiffer DEF Number
    <3> QED
      BY <3>1, <3>2, <3>3 DEF Setting
  <2>3. /\ value \in {Given, Plain, Null, Absent} \cup Number
        /\ value \in Number => value \in {h.item[f], h.auto}
    <3>1. h.item[f] \in {Given, Plain, Null, Absent} \cup Number
      BY <2>2 DEF Document, Number
    <3>2. Value(default, h.auto) \in {Plain, Null, Absent, h.auto}
      BY <2>2 DEF Value
    <3> QED
      BY <2>2, <3>1, <3>2, ValuesDiffer
  <2> HIDE DEF value
  <2>4. [h.item EXCEPT ![f] = value] \in Document
    BY <2>2, <2>3 DEF Document, Number
  <2>5. g = [h EXCEPT !.left = @ \ {f}, !.item = [h.item EXCEPT ![f] = value]]
    OBVIOUS
  <2>6. /\ g \in Handler /\ g.pc = h.pc /\ g.auto = h.auto /\ g.left \subseteq h.left /\ g.map = h.map
        /\ g.item = [h.item EXCEPT ![f] = value]
    BY <1>1, <2>4, <2>5 DEF Handler
  <2> HIDE DEF g
  <2>7. Good(g)
    BY <2>1, <2>2, <2>4, <2>6 DEF Good, Asks, Inserts
  <2>8. \A e \in Field : g.item[e] \in Number => g.item[e] \in {h.item[e], h.auto}
    BY <2>2, <2>3, <2>6 DEF Document
  <2> QED
    BY <1>3, <2>1, <2>6, <2>7, <2>8 DEF Inserts
<1> QED
  BY <1>4, <1>5

\* An insert that ends leaves its number behind, or none.
LEMMA AppendNext ==
  ASSUME DefaultsInv, NEW w \in Worker, Append(w)
  PROVE  DefaultsInv'
<1> DEFINE h == handler[w]
<1>1. SharedOK /\ HandlersOK /\ NumbersInv /\ Count \in 0 .. MaxCount
  BY DEF DefaultsInv, SharedOK
<1>2. h.pc = "fill" /\ Inserting(w) /\ UNCHANGED <<collection, Count>>
  BY DEF Append, At, Inserting, collection
<1>3. used' \subseteq used \cup {h.auto} /\ used \subseteq used' /\ h.auto \in 1 .. Count
  <2>1. /\ h.auto \in 1 .. Count
        /\ \A f \in Field : h.item[f] \in Number => h.item[f] = h.auto
    BY <1>1, <1>2 DEF NumbersInv, Numbered, Inserts
  <2>2. \/ used' = used \cup ({h.item[f] : f \in Field} \cap Number)
        \/ used' = used
    BY DEF Append, Number
  <2> QED
    BY <2>1, <2>2
<1>4. HandlersOK' /\ handler'[w] = Idle /\ \A v \in Worker \ {w} : handler'[v] = handler[v]
  BY <1>1, IdleIsGood, OneHandler DEF Append
<1>5. used' \subseteq 1 .. Count' /\ used' \subseteq Number
  <2>1. 1 .. Count \subseteq Number
    BY <1>1, ValuesDiffer DEF Number
  <2> QED
    BY <1>1, <1>2, <1>3, <2>1 DEF NumbersInv
<1>6. SharedOK'
  BY <1>1, <1>2, <1>5 DEF Append, SharedOK, collection
<1>7. NumbersInv'
  <2>1. \A v \in Worker : Inserting(v)' => v # w /\ Inserting(v) /\ handler'[v] = handler[v]
    BY <1>4, IdleIsGood DEF Inserting
  <2>2. \A v \in Worker \ {w} : Inserting(v) => handler[v].auto # h.auto
    BY <1>1, <1>2 DEF NumbersInv
  <2>3. \A v \in Worker : Numbered(handler[v])'
    <3>1. ASSUME NEW v \in Worker, v # w PROVE Numbered(handler[v])'
      BY <1>1, <1>2, <1>3, <1>4, <2>2, <3>1 DEF NumbersInv, Numbered, Inserting, Inserts
    <3>2. Numbered(handler[w])'
      BY <1>4, IdleIsGood DEF Numbered, Inserts
    <3> QED
      BY <3>1, <3>2
  <2>4. \A u, v \in Worker :
          Inserting(u)' /\ Inserting(v)' /\ handler'[u].auto = handler'[v].auto => u = v
    BY <1>1, <2>1 DEF NumbersInv
  <2> QED
    BY <1>5, <2>3, <2>4 DEF NumbersInv
<1> QED
  BY <1>4, <1>6, <1>7 DEF DefaultsInv

\* A new process counts from zero and has no insert.
LEMMA RestartNext ==
  ASSUME DefaultsInv, Restart
  PROVE  DefaultsInv'
<1>1. SharedOK
  BY DEF DefaultsInv
<1>2. handler' = [w \in Worker |-> Idle] /\ used' = {} /\ Count' = 0
  BY DEF Restart
<1>3. HandlersOK'
  BY <1>2, IdleIsGood DEF HandlersOK, Good
<1>4. NumbersInv'
  BY <1>2, IdleIsGood DEF NumbersInv, Numbered, Inserting, Inserts
<1>5. SharedOK'
  <2>1. 0 \in 0 .. MaxCount
    BY ValuesDiffer
  <2>2. PICK p \in Map \cup {Nil} :
          Defaults' = p /\ maps' = [m \in Map |-> IF m = p THEN durable ELSE Nothing]
    BY DEF Restart
  <2>3. maps' \in [Map -> Setting]
    BY <1>1, <2>2, ValuesDiffer DEF SharedOK
  <2> QED
    BY <1>1, <1>2, <2>1, <2>2, <2>3 DEF Restart, SharedOK
<1> QED
  BY <1>3, <1>4, <1>5 DEF DefaultsInv

LEMMA InvNext == DefaultsInv /\ [Next]_vars => DefaultsInv'
<1> SUFFICES ASSUME DefaultsInv, [Next]_vars PROVE DefaultsInv'
  OBVIOUS
<1>1. CASE UNCHANGED vars
  BY <1>1 DEF vars, collection, history, DefaultsInv, SharedOK, HandlersOK, NumbersInv, Numbered, Inserting
<1>2. CASE Next
  <2>1. CASE Flush
    BY <2>1 DEF Flush, history, DefaultsInv, SharedOK, HandlersOK, NumbersInv, Numbered, Inserting
  <2> QED
    BY <1>2, <2>1, SetsNext, StartInsertNext, FillsNext, AppendNext, RestartNext DEF Next
<1> QED
  BY <1>1, <1>2

-----------------------------------------------------------------------------
LEMMA InvariantHolds == Spec => []DefaultsInv
  BY InvInit, InvNext, PTL DEF Spec

\* Every variable keeps its type: a document gets the number that auto()
\* stands for and never auto() itself, and what is set, journaled and restored
\* are defaults, also when requests decode into the map others iterate.
THEOREM SpecTypeOK == Spec => []TypeOK
  BY InvariantHolds, InvImplies, PTL

\* Inserts of one process get different numbers from the atomic addition to
\* Count, in whatever order they fill their documents in and append them, and
\* none is the number of a document that is there.
THEOREM SpecNumbersDiffer == Spec => []NumbersDiffer
  BY InvariantHolds, InvImplies, PTL

-----------------------------------------------------------------------------
\* Five values that are one set of five are different.
LEMMA FiveDiffer ==
  ASSUME NEW a, NEW b, NEW c, NEW d, NEW e, Cardinality({a, b, c, d, e}) = 5
  PROVE  d # e
<1> SUFFICES ASSUME d = e PROVE FALSE
  OBVIOUS
<1>1. IsFiniteSet({a}) /\ Cardinality({a}) = 1
  BY FS_Singleton
<1>2. IsFiniteSet({a} \cup {b}) /\ Cardinality({a} \cup {b}) \in 1 .. 2
  BY <1>1, FS_AddElement
<1>3. /\ IsFiniteSet({a} \cup {b} \cup {c})
      /\ Cardinality({a} \cup {b} \cup {c}) \in 1 .. 3
  BY <1>2, FS_AddElement
<1>4. Cardinality({a} \cup {b} \cup {c} \cup {d}) \in 1 .. 4
  BY <1>3, FS_AddElement
<1>5. {a} \cup {b} \cup {c} \cup {d} = {a, b, c, d, e}
  OBVIOUS
<1> QED
  BY <1>4, <1>5

LEMMA NoValueTwice == Absent # Null /\ Given # Null /\ Given # Absent
<1>1. Cardinality({AutoNumber, Plain, Given, Null, Absent}) = 5
  BY DefaultsAssumption
<1>2. Null # Absent
  BY <1>1, FiveDiffer
<1>3. Given # Null
  <2>1. {AutoNumber, Plain, Given, Null, Absent} = {AutoNumber, Plain, Absent, Given, Null}
    OBVIOUS
  <2>2. Cardinality({AutoNumber, Plain, Absent, Given, Null}) = 5
    BY <1>1, <2>1
  <2> QED
    BY <2>2, FiveDiffer
<1>4. Given # Absent
  <2>1. {AutoNumber, Plain, Given, Null, Absent} = {AutoNumber, Plain, Null, Given, Absent}
    OBVIOUS
  <2>2. Cardinality({AutoNumber, Plain, Null, Given, Absent}) = 5
    BY <1>1, <2>1
  <2> QED
    BY <2>2, FiveDiffer
<1> QED
  BY <1>2, <1>3, <1>4

\* No two requests that set defaults overlap: the one there is will make of
\* its map what the requests add up to, publish that and write it.
Remaining(h, f) ==
  IF h.pc = "decode" /\ f \in h.left THEN IF h.body[f] = Null THEN Absent ELSE h.body[f]
  ELSE IF maps[h.map][f] = Null /\ (h.pc = "decode" \/ f \in h.left) THEN Absent
  ELSE maps[h.map][f]

Promised(h) ==
  /\ h.pc \in {"decode", "clean"} => h.map \in Map /\ \A f \in Field : setting[f] = Remaining(h, f)
  /\ h.pc \in {"publish", "marshal"} => Content(h.map) = setting
  /\ h.pc \in {"marshal", "encode"} => Content(Defaults) = setting
  /\ h.pc = "encode" => h.item = setting

Settled == Content(Defaults) = setting /\ saved = setting

AddUpInv ==
  ~crossed =>
    /\ \A v, w \in Worker : Asking(v) /\ Asking(w) => v = w
    /\ \A w \in Worker : Promised(handler[w])
    /\ (\A w \in Worker : ~Asking(w)) => Settled

LEMMA AddUpImplies == AddUpInv => DefaultsAddUp
  BY DEF AddUpInv, DefaultsAddUp, Settled

LEMMA AddUpInit == Init => AddUpInv
<1> SUFFICES ASSUME Init PROVE AddUpInv
  OBVIOUS
<1>1. \A w \in Worker : handler[w].pc = "idle"
  BY IdleIsGood DEF Init
<1>2. Settled
  BY DEF Init, Settled, Content
<1> QED
  BY <1>1, <1>2 DEF AddUpInv, Promised, Asking, Changing

\* A step that no request and no map takes part in.
LEMMA AddUpAside ==
  ASSUME AddUpInv, UNCHANGED <<Defaults, maps, saved, setting, crossed>>,
         \A v \in Worker : \/ handler'[v] = handler[v]
                           \/ ~Asking(v) /\ ~Asking(v)'
  PROVE  AddUpInv'
<1>1. \A v \in Worker : Asking(v)' <=> Asking(v)
  BY DEF Asking, Changing
<1>2. ASSUME ~crossed, NEW v \in Worker PROVE Promised(handler[v])'
  <2>1. CASE handler'[v] = handler[v]
    <3>1. Promised(handler[v])
      BY <1>2 DEF AddUpInv
    <3> QED
      BY <2>1, <3>1 DEF Promised, Remaining, Content
  <2>2. CASE ~Asking(v)'
    BY <2>2 DEF Promised, Asking, Changing
  <2> QED
    BY <2>1, <2>2
<1>3. Settled' <=> Settled
  BY DEF Settled, Content
<1> QED
  BY <1>1, <1>2, <1>3 DEF AddUpInv

\* A step of the only request.
LEMMA AddUpStep ==
  ASSUME NEW w \in Worker, \A v \in Worker \ {w} : ~Asking(v)',
         Promised(handler[w])', ~Asking(w)' => Settled'
  PROVE  AddUpInv'
<1>1. ASSUME NEW v \in Worker \ {w} PROVE Promised(handler[v])'
  <2>1. ~Asking(v)'
    OBVIOUS
  <2> QED
    BY <2>1 DEF Promised, Asking, Changing
<1> QED
  BY <1>1 DEF AddUpInv

\* A step of one handler is no step of the others.
LEMMA OthersWait ==
  ASSUME DefaultsInv, NEW w \in Worker,
         \/ \E request \in Request : Create(w, request) \/ StartSet(w, request)
         \/ StartClear(w)
         \/ \E f \in Field : DecodeField(w, f) \/ CleanField(w, f) \/ Fill(w, f)
         \/ DecodeEnd(w) \/ CleanEnd(w) \/ Publish(w) \/ Marshal(w) \/ Encode(w)
         \/ \E document \in Input : StartInsert(w, document)
         \/ StartFill(w) \/ Append(w)
  PROVE  \A v \in Worker \ {w} : handler'[v] = handler[v]
<1>1. handler \in [Worker -> Handler]
  BY DEF DefaultsInv, HandlersOK
<1>2. ASSUME NEW request \in Request, Create(w, request) \/ StartSet(w, request)
      PROVE  \A v \in Worker \ {w} : handler'[v] = handler[v]
  BY <1>1, <1>2 DEF Create, StartSet
<1>3. ASSUME NEW f \in Field, DecodeField(w, f) \/ CleanField(w, f) \/ Fill(w, f)
      PROVE  \A v \in Worker \ {w} : handler'[v] = handler[v]
  BY <1>1, <1>3 DEF DecodeField, CleanField, Fill
<1>4. CASE DecodeEnd(w) \/ CleanEnd(w) \/ Publish(w) \/ Marshal(w) \/ Encode(w)
  BY <1>1, <1>4 DEF DecodeEnd, CleanEnd, Publish, Marshal, Encode
<1>5. ASSUME NEW document \in Input, StartInsert(w, document)
      PROVE  \A v \in Worker \ {w} : handler'[v] = handler[v]
  BY <1>1, <1>5 DEF StartInsert
<1>6. CASE StartFill(w) \/ Append(w)
  BY <1>1, <1>6 DEF StartFill, Append
<1>7. CASE StartClear(w)
  BY <1>1, <1>7 DEF StartClear
<1> QED
  BY <1>2, <1>3, <1>4, <1>5, <1>6, <1>7

\* Inserts read what they find.
LEMMA InsertsAddNothing ==
  ASSUME DefaultsInv, AddUpInv, NEW w \in Worker,
         \/ \E document \in Input : StartInsert(w, document)
         \/ StartFill(w) \/ (\E f \in Field : Fill(w, f)) \/ Append(w)
  PROVE  AddUpInv'
<1>1. \A v \in Worker \ {w} : handler'[v] = handler[v]
  BY OthersWait
<1>2. handler \in [Worker -> Handler] /\ Idle.pc = "idle"
  BY IdleIsGood DEF DefaultsInv, HandlersOK
<1>3. handler[w].pc \in {"idle", "number", "fill"}
  BY DEF StartInsert, StartFill, Fill, Append, At
<1>4. handler'[w].pc \in {"idle", "number", "fill"}
  <2>1. ASSUME NEW document \in Input, StartInsert(w, document)
        PROVE  handler'[w].pc \in {"idle", "number", "fill"}
    <3>1. Idle \in Handler
      BY IdleIsGood DEF Good
    <3> QED
      BY <1>2, <2>1, <3>1 DEF StartInsert, Handler
  <2>2. CASE StartFill(w) \/ Append(w)
    BY <1>2, <2>2 DEF StartFill, Append, Handler
  <2>3. ASSUME NEW f \in Field, Fill(w, f) PROVE handler'[w].pc \in {"idle", "number", "fill"}
    BY <1>2, <1>3, <2>3 DEF Fill, Handler
  <2> QED
    BY <2>1, <2>2, <2>3
<1>5. UNCHANGED <<Defaults, maps, saved, setting, crossed>>
  BY DEF StartInsert, StartFill, Fill, Append, collection, history
<1> QED
  BY <1>1, <1>3, <1>4, <1>5, AddUpAside DEF Asking, Changing

\* What OpenCollection restores is what the file has.
LEMMA RestartAddsUp ==
  ASSUME DefaultsInv, Restart
  PROVE  AddUpInv'
<1>1. \A w \in Worker : handler'[w].pc = "idle"
  BY IdleIsGood DEF Restart
<1>2. PICK p \in Map \cup {Nil} :
        /\ p = Nil => durable = Nothing
        /\ Defaults' = p
        /\ maps' = [m \in Map |-> IF m = p THEN durable ELSE Nothing]
  BY DEF Restart
<1>3. Content(Defaults)' = durable
  <2>1. CASE p = Nil
    BY <1>2, <2>1 DEF Content
  <2>2. CASE p # Nil
    BY <1>2, <2>2 DEF Content
  <2> QED
    BY <2>1, <2>2
<1>4. Settled'
  BY <1>3 DEF Restart, Settled
<1> QED
  BY <1>1, <1>4 DEF AddUpInv, Promised, Asking, Changing

\* A request begins, decodes, takes the nulls out, publishes and writes.
LEMMA RequestAddsUp ==
  ASSUME DefaultsInv, AddUpInv, NEW w \in Worker,
         \/ \E request \in Request : Create(w, request) \/ StartSet(w, request)
         \/ StartClear(w)
         \/ \E f \in Field : DecodeField(w, f) \/ CleanField(w, f)
         \/ DecodeEnd(w) \/ CleanEnd(w) \/ Publish(w) \/ Marshal(w) \/ Encode(w)
  PROVE  AddUpInv'
<1> DEFINE h == handler[w]
<1> SUFFICES ASSUME ~crossed' PROVE AddUpInv'
  BY DEF AddUpInv
<1>1. \A v \in Worker \ {w} : handler'[v] = handler[v]
  BY OthersWait
<1>2. /\ handler \in [Worker -> Handler] /\ h \in Handler
      /\ maps \in [Map -> Setting] /\ setting \in Setting /\ Defaults \in Map \cup {Nil}
      /\ Nil \notin Map /\ Nothing \in Setting
  BY ValuesDiffer, DefaultsAssumption DEF DefaultsInv, HandlersOK, SharedOK
<1>3. ASSUME ~crossed, Asking(w)
      PROVE  (\A v \in Worker \ {w} : ~Asking(v)') /\ Promised(h)
  BY <1>1, <1>3 DEF AddUpInv, Asking, Changing
<1>4. Idle \in Handler
  BY IdleIsGood DEF Good
<1>5. ASSUME NEW request \in Request, Create(w, request) PROVE AddUpInv'
  <2>1. PICK m \in Map :
          /\ maps' = [maps EXCEPT ![m] = request]
          /\ handler' = [handler EXCEPT ![w] = [Idle EXCEPT !.pc = "publish", !.body = request, !.map = m]]
    BY <1>5 DEF Create, Unused
  <2>2. setting' = request /\ \A v \in Worker \ {w} : ~Asking(v)'
    BY <1>1, <1>5 DEF Create, Overlaps, Asking, Changing
  <2>3. handler'[w].pc = "publish" /\ handler'[w].map = m
    BY <1>2, <1>4, <2>1 DEF Handler
  <2>4. Content(m)' = request
    BY <1>2, <2>1 DEF Content
  <2> QED
    BY <2>2, <2>3, <2>4, AddUpStep DEF Promised, Asking, Changing, Content
<1>6. ASSUME NEW request \in Request, StartSet(w, request) PROVE AddUpInv'
  <2>1. PICK m \in Map :
          /\ maps' = [maps EXCEPT ![m] = Content(Defaults)]
          /\ handler' = [handler EXCEPT ![w] = [Idle EXCEPT
               !.pc = "decode", !.body = request, !.map = m, !.left = Fields(request)]]
    BY <1>2, <1>6 DEF StartSet, Unused
  <2>2. /\ setting' = Applied(setting, request) /\ ~crossed
        /\ \A v \in Worker \ {w} : ~Asking(v) /\ ~Asking(v)'
        /\ ~Asking(w)
    BY <1>1, <1>6 DEF StartSet, Overlaps, Asking, Changing, At
  <2>3. Content(Defaults) = setting
    BY <2>2 DEF AddUpInv, Settled
  <2>4. /\ handler'[w].pc = "decode" /\ handler'[w].map = m
        /\ handler'[w].body = request /\ handler'[w].left = Fields(request)
    BY <1>2, <1>4, <2>1 DEF Handler
  <2>5. maps'[m] = setting
    BY <1>2, <2>1, <2>3
  <2>6. \A f \in Field : setting'[f] = Remaining(handler[w], f)'
    <3> SUFFICES ASSUME NEW f \in Field PROVE setting'[f] = Remaining(handler[w], f)'
      OBVIOUS
    <3>1. setting'[f] = CASE request[f] = Absent -> IF setting[f] = Null THEN Absent ELSE setting[f]
                          [] request[f] = Null -> Absent
                          [] OTHER -> request[f]
      BY <2>2 DEF Applied
    <3>2. f \in Fields(request) <=> request[f] # Absent
      BY DEF Fields
    <3>3. CASE f \in Fields(request)
      <4>1. setting'[f] = IF request[f] = Null THEN Absent ELSE request[f]
        BY <3>1, <3>2, <3>3
      <4> QED
        BY <2>4, <3>3, <4>1 DEF Remaining
    <3>4. CASE f \notin Fields(request)
      <4>1. setting'[f] = IF setting[f] = Null THEN Absent ELSE setting[f]
        BY <3>1, <3>2, <3>4, NoValueTwice
      <4> QED
        BY <2>4, <2>5, <3>4, <4>1 DEF Remaining
    <3> QED
      BY <3>3, <3>4
  <2> QED
    BY <2>2, <2>4, <2>6, AddUpStep DEF Promised, Asking, Changing
<1>7. ASSUME NEW f \in Field, DecodeField(w, f) PROVE AddUpInv'
  <2>1. /\ h.pc = "decode" /\ f \in h.left
        /\ handler' = [handler EXCEPT ![w] = [h EXCEPT !.left = @ \ {f}]]
        /\ maps' = [maps EXCEPT ![h.map][f] = h.body[f]]
        /\ UNCHANGED <<crossed, setting>>
    BY <1>7 DEF DecodeField, At, history
  <2>2. /\ handler'[w].pc = "decode" /\ handler'[w].map = h.map
        /\ handler'[w].body = h.body /\ handler'[w].left = h.left \ {f}
    BY <1>2, <2>1 DEF Handler
  <2>3. /\ h.map \in Map /\ \A e \in Field : setting[e] = Remaining(h, e)
        /\ \A v \in Worker \ {w} : ~Asking(v)'
    BY <1>3, <2>1 DEF Promised, Asking, Changing
  <2>4. maps'[h.map][f] = h.body[f] /\ \A e \in Field \ {f} : maps'[h.map][e] = maps[h.map][e]
    BY <1>2, <2>1, <2>3 DEF Setting
  <2>5. \A e \in Field : setting'[e] = Remaining(handler[w], e)'
    <3> SUFFICES ASSUME NEW e \in Field PROVE setting'[e] = Remaining(handler[w], e)'
      OBVIOUS
    <3>1. setting'[e] = Remaining(h, e)
      BY <2>1, <2>3
    <3>2. CASE e = f
      BY <2>1, <2>2, <2>4, <3>1, <3>2 DEF Remaining
    <3>3. CASE e # f
      BY <2>1, <2>2, <2>4, <3>1, <3>3 DEF Remaining
    <3> QED
      BY <3>2, <3>3
  <2> QED
    BY <2>2, <2>3, <2>5, AddUpStep DEF Promised, Asking, Changing
<1>8. CASE DecodeEnd(w)
  <2>1. /\ h.pc = "decode" /\ h.left = {}
        /\ handler' = [handler EXCEPT ![w] = [h EXCEPT !.pc = "clean", !.left = Field]]
        /\ UNCHANGED <<maps, crossed, setting>>
    BY <1>8 DEF DecodeEnd, At, collection, history
  <2>2. /\ handler'[w].pc = "clean" /\ handler'[w].map = h.map /\ handler'[w].left = Field
    BY <1>2, <2>1 DEF Handler
  <2>3. /\ h.map \in Map /\ \A e \in Field : setting[e] = Remaining(h, e)
        /\ \A v \in Worker \ {w} : ~Asking(v)'
    BY <1>3, <2>1 DEF Promised, Asking, Changing
  <2>4. \A e \in Field : setting'[e] = Remaining(handler[w], e)'
    BY <2>1, <2>2, <2>3 DEF Remaining
  <2> QED
    BY <2>2, <2>3, <2>4, AddUpStep DEF Promised, Asking, Changing
<1>9. ASSUME NEW f \in Field, CleanField(w, f) PROVE AddUpInv'
  <2>1. /\ h.pc = "clean" /\ f \in h.left
        /\ handler' = [handler EXCEPT ![w] = [h EXCEPT !.left = @ \ {f}]]
        /\ maps' = [maps EXCEPT ![h.map][f] = IF @ = Null THEN Absent ELSE @]
        /\ UNCHANGED <<crossed, setting>>
    BY <1>9 DEF CleanField, At, history
  <2>2. /\ handler'[w].pc = "clean" /\ handler'[w].map = h.map /\ handler'[w].left = h.left \ {f}
    BY <1>2, <2>1 DEF Handler
  <2>3. /\ h.map \in Map /\ \A e \in Field : setting[e] = Remaining(h, e)
        /\ \A v \in Worker \ {w} : ~Asking(v)'
    BY <1>3, <2>1 DEF Promised, Asking, Changing
  <2>4. /\ maps'[h.map][f] = IF maps[h.map][f] = Null THEN Absent ELSE maps[h.map][f]
        /\ \A e \in Field \ {f} : maps'[h.map][e] = maps[h.map][e]
    BY <1>2, <2>1, <2>3 DEF Setting
  <2>5. \A e \in Field : setting'[e] = Remaining(handler[w], e)'
    <3> SUFFICES ASSUME NEW e \in Field PROVE setting'[e] = Remaining(handler[w], e)'
      OBVIOUS
    <3>1. setting'[e] = Remaining(h, e)
      BY <2>1, <2>3
    <3>2. CASE e = f
      BY <2>1, <2>2, <2>4, <3>1, <3>2 DEF Remaining
    <3>3. CASE e # f
      BY <2>1, <2>2, <2>4, <3>1, <3>3 DEF Remaining
    <3> QED
      BY <3>2, <3>3
  <2> QED
    BY <2>2, <2>3, <2>5, AddUpStep DEF Promised, Asking, Changing
<1>10. CASE CleanEnd(w)
  <2>1. /\ h.pc = "clean" /\ h.left = {}
        /\ handler' = [handler EXCEPT ![w] = [h EXCEPT !.pc = "publish",
                         !.map = IF Fields(maps[@]) = {} THEN Nil ELSE @]]
        /\ UNCHANGED <<maps, crossed, setting>>
    BY <1>10 DEF CleanEnd, At, collection, history
  <2>2. /\ handler'[w].pc = "publish"
        /\ handler'[w].map = IF Fields(maps[h.map]) = {} THEN Nil ELSE h.map
    BY <1>2, <2>1 DEF Handler
  <2>3. /\ h.map \in Map /\ \A e \in Field : setting[e] = maps[h.map][e]
        /\ \A v \in Worker \ {w} : ~Asking(v)'
    BY <1>3, <2>1 DEF Promised, Remaining, Asking, Changing
  <2>4. setting = maps[h.map]
    BY <1>2, <2>3 DEF Setting
  <2>5. (Content(handler[w].map) = setting)'
    <3>1. CASE Fields(maps[h.map]) = {}
      <4>1. \A e \in Field : setting[e] = Absent
        BY <2>4, <3>1 DEF Fields
      <4>2. setting = Nothing
        BY <1>2, <4>1 DEF Setting, Nothing
      <4> QED
        BY <2>1, <2>2, <3>1, <4>2 DEF Content, Nothing
    <3>2. CASE Fields(maps[h.map]) # {}
      BY <1>2, <2>1, <2>2, <2>3, <2>4, <3>2 DEF Content
    <3> QED
      BY <3>1, <3>2
  <2> QED
    BY <2>2, <2>3, <2>5, AddUpStep DEF Promised, Asking, Changing
<1>11. CASE Publish(w)
  <2>1. /\ h.pc = "publish" /\ Defaults' = h.map
        /\ handler' = [handler EXCEPT ![w] = [h EXCEPT !.pc = "marshal"]]
        /\ UNCHANGED <<maps, crossed, setting>>
    BY <1>11 DEF Publish, At, history
  <2>2. handler'[w].pc = "marshal" /\ handler'[w].map = h.map
    BY <1>2, <2>1 DEF Handler
  <2>3. Content(h.map) = setting /\ \A v \in Worker \ {w} : ~Asking(v)'
    BY <1>3, <2>1 DEF Promised, Asking, Changing
  <2>4. (Content(handler[w].map) = setting)' /\ (Content(Defaults) = setting)'
    BY <2>1, <2>2, <2>3 DEF Content
  <2> QED
    BY <2>2, <2>3, <2>4, AddUpStep DEF Promised, Asking, Changing
<1>12. CASE Marshal(w)
  <2>1. /\ h.pc = "marshal"
        /\ handler' = [handler EXCEPT ![w] = [h EXCEPT !.pc = "encode", !.item = Content(h.map)]]
        /\ UNCHANGED <<Defaults, maps, crossed, setting>>
    BY <1>12 DEF Marshal, At, collection, history
  <2>2. handler'[w].pc = "encode" /\ handler'[w].item = Content(h.map)
    BY <1>2, <2>1 DEF Handler
  <2>3. /\ Content(h.map) = setting /\ Content(Defaults) = setting
        /\ \A v \in Worker \ {w} : ~Asking(v)'
    BY <1>3, <2>1 DEF Promised, Asking, Changing
  <2>4. (Content(Defaults) = setting)'
    BY <2>1, <2>3 DEF Content
  <2> QED
    BY <2>1, <2>2, <2>3, <2>4, AddUpStep DEF Promised, Asking, Changing
<1>13. CASE Encode(w)
  <2>1. /\ h.pc = "encode" /\ saved' = h.item /\ handler' = [handler EXCEPT ![w] = Idle]
        /\ UNCHANGED <<Defaults, maps, crossed, setting>>
    BY <1>13 DEF Encode, At, history
  <2>2. handler'[w].pc = "idle"
    BY <1>2, <2>1, IdleIsGood
  <2>3. /\ h.item = setting /\ Content(Defaults) = setting
        /\ \A v \in Worker \ {w} : ~Asking(v)'
    BY <1>3, <2>1 DEF Promised, Asking, Changing
  <2>4. Settled'
    BY <2>1, <2>3 DEF Settled, Content
  <2> QED
    BY <2>2, <2>3, <2>4, AddUpStep DEF Promised, Asking, Changing
<1>14. CASE StartClear(w)
  <2>1. /\ handler' = [handler EXCEPT ![w] = [Idle EXCEPT !.pc = "publish"]]
        /\ setting' = Nothing /\ \A v \in Worker \ {w} : ~Asking(v)'
    BY <1>1, <1>14 DEF StartClear, Overlaps, Asking, Changing
  <2>2. handler'[w].pc = "publish" /\ handler'[w].map = Nil
    BY <1>2, <1>4, <2>1 DEF Handler, Idle
  <2> QED
    BY <2>1, <2>2, AddUpStep DEF Promised, Asking, Changing, Content
<1> QED
  BY <1>5, <1>6, <1>7, <1>8, <1>9, <1>10, <1>11, <1>12, <1>13, <1>14

LEMMA AddUpNext == DefaultsInv /\ AddUpInv /\ [Next]_vars => AddUpInv'
<1> SUFFICES ASSUME DefaultsInv, AddUpInv, [Next]_vars PROVE AddUpInv'
  OBVIOUS
<1>1. CASE UNCHANGED vars
  BY <1>1, AddUpAside DEF vars, collection, history
<1>2. CASE Next
  <2>1. CASE Flush
    BY <2>1, AddUpAside DEF Flush, history
  <2> QED
    BY <1>2, <2>1, RequestAddsUp, InsertsAddNothing, RestartAddsUp DEF Next
<1> QED
  BY <1>1, <1>2

\* Requests that follow one another add up (setDefaults.go:36-51 and
\* setDefaults, collection.go:327-349): what inserts find and the last
\* command of the journal are what the requests say, with inserts and restarts
\* in between.
THEOREM SpecDefaultsAddUp == Spec => []DefaultsAddUp
  BY InvInit, InvNext, AddUpInit, AddUpNext, AddUpImplies, PTL DEF Spec

-----------------------------------------------------------------------------
\* An insert that meets no change of the defaults: no map it may read changes
\* while it runs, and what it has still to look at it has as the client gave it.
FilledSoFar(h) ==
  /\ h.body \in Input
  /\ h.pc = "number" => h.item = h.body
  /\ h.pc = "fill" =>
       /\ h.map = Defaults
       /\ \A f \in Field : h.item[f] = IF f \in h.left THEN h.body[f]
                                       ELSE Filled(h.body, Content(Defaults), h.auto)[f]

FillInv ==
  \A w \in Worker : Inserting(w) /\ w \notin mixed =>
    (\A x \in Worker : ~Changing(x)) /\ FilledSoFar(handler[w])

LEMMA FillImplies == DefaultsInv /\ FillInv => InsertsAreFilledIn
<1> SUFFICES ASSUME DefaultsInv, FillInv, NEW w \in Worker,
                    handler[w].pc = "fill", handler[w].left = {}, w \notin mixed
             PROVE  handler[w].item = Filled(handler[w].body, Content(Defaults), handler[w].auto)
  BY DEF InsertsAreFilledIn
<1> DEFINE h == handler[w]
           full == Filled(h.body, Content(Defaults), h.auto)
<1>1. \A f \in Field : h.item[f] = full[f]
  BY DEF FillInv, FilledSoFar, Inserting
<1>2. h.item \in Document
  BY DEF DefaultsInv, HandlersOK, Good, Inserts
<1>3. full = [f \in Field |-> full[f]] /\ h.item = [f \in Field |-> h.item[f]]
  BY <1>2 DEF Filled, Document
<1> QED
  BY <1>1, <1>3

LEMMA FillInit == Init => FillInv
<1> SUFFICES ASSUME Init PROVE FillInv
  OBVIOUS
<1>1. \A w \in Worker : handler[w].pc = "idle"
  BY IdleIsGood DEF Init
<1> QED
  BY <1>1 DEF FillInv, Inserting

\* A request that changes nothing an insert reads.
LEMMA FillAside ==
  ASSUME FillInv, NEW w \in Worker,
         \A v \in Worker \ {w} : handler'[v] = handler[v] /\ (v \in mixed <=> v \in mixed'),
         UNCHANGED <<Defaults, maps>>,
         ~Inserting(w)', Changing(w)' => Changing(w)
  PROVE  FillInv'
<1> SUFFICES ASSUME NEW v \in Worker, Inserting(v)', v \notin mixed'
             PROVE  (\A x \in Worker : ~Changing(x)') /\ FilledSoFar(handler[v])'
  BY DEF FillInv
<1>1. v # w /\ handler'[v] = handler[v] /\ Inserting(v) /\ v \notin mixed
  BY DEF Inserting
<1>2. (\A x \in Worker : ~Changing(x)) /\ FilledSoFar(handler[v])
  BY <1>1 DEF FillInv
<1>3. \A x \in Worker : ~Changing(x)'
  BY <1>2 DEF Changing
<1>4. FilledSoFar(handler[v])'
  BY <1>1, <1>2 DEF FilledSoFar, Content
<1> QED
  BY <1>3, <1>4

\* A step of a request that changes the defaults is no step under such an insert.
LEMMA RequestMeetsNone ==
  ASSUME DefaultsInv, FillInv, NEW w \in Worker,
         \/ \E request \in Request : Create(w, request) \/ StartSet(w, request)
         \/ StartClear(w)
         \/ \E f \in Field : DecodeField(w, f) \/ CleanField(w, f)
         \/ DecodeEnd(w) \/ CleanEnd(w) \/ Publish(w) \/ Marshal(w) \/ Encode(w)
  PROVE  FillInv'
<1>1. \A v \in Worker \ {w} : handler'[v] = handler[v]
  BY OthersWait
<1>2. handler \in [Worker -> Handler] /\ handler[w] \in Handler /\ Idle \in Handler /\ Idle.pc = "idle"
  BY IdleIsGood DEF DefaultsInv, HandlersOK, Good
<1>3. ~Inserting(w)'
  <2>1. ASSUME NEW request \in Request, Create(w, request) \/ StartSet(w, request)
        PROVE  handler'[w].pc \in {"publish", "decode"}
    <3>1. CASE Create(w, request)
      <4>1. PICK m \in Map : handler' = [handler EXCEPT ![w] =
              [Idle EXCEPT !.pc = "publish", !.body = request, !.map = m]]
        BY <3>1 DEF Create, Unused
      <4> QED
        BY <1>2, <4>1 DEF Handler
    <3>2. CASE StartSet(w, request)
      <4>1. \E m : handler' = [handler EXCEPT ![w] = [Idle EXCEPT
              !.pc = "decode", !.body = request, !.map = m, !.left = Fields(request)]]
        BY <3>2 DEF StartSet
      <4> QED
        BY <1>2, <4>1 DEF Handler
    <3> QED
      BY <2>1, <3>1, <3>2
  <2>2. ASSUME NEW f \in Field, DecodeField(w, f) \/ CleanField(w, f)
        PROVE  handler'[w].pc \in {"decode", "clean"}
    BY <1>2, <2>2 DEF DecodeField, CleanField, At, Handler
  <2>3. CASE DecodeEnd(w) \/ CleanEnd(w) \/ Publish(w) \/ Marshal(w) \/ Encode(w)
    <3>1. handler'[w].pc \in {"clean", "publish", "marshal", "encode", "idle"}
      BY <1>2, <2>3 DEF DecodeEnd, CleanEnd, Publish, Marshal, Encode, Handler
    <3> QED
      BY <3>1 DEF Inserting
  <2>4. CASE StartClear(w)
    BY <1>2, <2>4 DEF StartClear, Inserting, Handler
  <2> QED
    BY <2>1, <2>2, <2>3, <2>4 DEF Inserting
<1>4. CASE StartClear(w) \/ \E request \in Request : Create(w, request) \/ StartSet(w, request)
  <2>1. mixed' = mixed \cup {v \in Worker : Inserting(v)}
    BY <1>4 DEF Create, StartSet, StartClear, Overlaps
  <2>2. \A v \in Worker : Inserting(v)' => v \in mixed'
    BY <1>1, <1>3, <2>1 DEF Inserting
  <2> QED
    BY <2>2 DEF FillInv
<1>5. CASE Changing(w)
  <2>1. \A v \in Worker : Inserting(v) => v \in mixed
    BY <1>5 DEF FillInv
  <2>2. mixed \subseteq mixed'
    BY DEF Create, StartSet, StartClear, Overlaps, DecodeField, CleanField, DecodeEnd, CleanEnd,
           Publish, Marshal, Encode, history
  <2>3. \A v \in Worker : Inserting(v)' => v \in mixed'
    BY <1>1, <1>3, <2>1, <2>2 DEF Inserting
  <2> QED
    BY <2>3 DEF FillInv
<1>6. CASE Marshal(w) \/ Encode(w)
  <2>1. UNCHANGED <<Defaults, maps, mixed>>
    BY <1>6 DEF Marshal, Encode, collection, history
  <2>2. ~Changing(w)'
    <3>1. handler'[w].pc \in {"encode", "idle"}
      BY <1>2, <1>6 DEF Marshal, Encode, Handler
    <3> QED
      BY <3>1 DEF Changing
  <2> QED
    BY <1>1, <1>3, <2>1, <2>2, FillAside
<1> QED
  BY <1>4, <1>5, <1>6 DEF DecodeField, CleanField, DecodeEnd, CleanEnd, Publish, At, Changing

\* An insert begins, or goes on.
LEMMA InsertFills ==
  ASSUME DefaultsInv, FillInv, NEW w \in Worker,
         \/ \E document \in Input : StartInsert(w, document)
         \/ StartFill(w) \/ (\E f \in Field : Fill(w, f)) \/ Append(w)
  PROVE  FillInv'
<1> DEFINE h == handler[w]
<1>1. \A v \in Worker \ {w} : handler'[v] = handler[v]
  BY OthersWait
<1>2. /\ handler \in [Worker -> Handler] /\ h \in Handler /\ Idle \in Handler /\ Idle.pc = "idle"
      /\ maps \in [Map -> Setting] /\ Good(h) /\ Defaults \in Map \cup {Nil}
  BY IdleIsGood DEF DefaultsInv, HandlersOK, SharedOK, Good
<1>3. UNCHANGED <<Defaults, maps>>
  BY DEF StartInsert, StartFill, Fill, Append, collection
<1>4. /\ h.pc \in {"idle", "number", "fill"}
      /\ \A v \in Worker \ {w} : v \in mixed' <=> v \in mixed
  BY DEF StartInsert, StartFill, Fill, Append, At, history
<1>5. ASSUME handler'[w].pc \in {"number", "fill"},
             w \notin mixed' => (\A x \in Worker : ~Changing(x)) /\ FilledSoFar(handler[w])'
      PROVE  FillInv'
  <2>1. \A x \in Worker : Changing(x)' <=> Changing(x)
    BY <1>1, <1>4, <1>5 DEF Changing
  <2> SUFFICES ASSUME NEW v \in Worker, Inserting(v)', v \notin mixed'
               PROVE  (\A x \in Worker : ~Changing(x)) /\ FilledSoFar(handler[v])'
    BY <2>1 DEF FillInv
  <2>2. CASE v = w
    BY <1>5, <2>2
  <2>3. CASE v # w
    <3>1. handler'[v] = handler[v] /\ Inserting(v) /\ v \notin mixed
      BY <1>1, <1>4, <2>3 DEF Inserting
    <3>2. (\A x \in Worker : ~Changing(x)) /\ FilledSoFar(handler[v])
      BY <3>1 DEF FillInv
    <3> QED
      BY <1>3, <3>1, <3>2 DEF FilledSoFar, Content
  <2> QED
    BY <2>2, <2>3
<1>6. ASSUME NEW document \in Input, StartInsert(w, document) PROVE FillInv'
  <2>1. /\ handler' = [handler EXCEPT ![w] = [Idle EXCEPT
             !.pc = "number", !.body = document, !.item = document, !.auto = Count + 1]]
        /\ mixed' = mixed \cup {v \in {w} : \E x \in Worker : Changing(x)}
    BY <1>6 DEF StartInsert
  <2>2. /\ handler'[w].pc = "number" /\ handler'[w].body = document
        /\ handler'[w].item = document
    BY <1>2, <2>1 DEF Handler
  <2>3. w \notin mixed' => \A x \in Worker : ~Changing(x)
    BY <2>1
  <2> QED
    BY <1>5, <2>2, <2>3 DEF FilledSoFar
<1>7. CASE StartFill(w)
  <2>1. /\ h.pc = "number" /\ mixed' = mixed
        /\ handler' = [handler EXCEPT ![w] = [h EXCEPT !.pc = "fill", !.map = Defaults,
             !.left = IF Defaults = Nil THEN {} ELSE Field]]
    BY <1>7 DEF StartFill, At, history
  <2>2. /\ handler'[w].pc = "fill" /\ handler'[w].map = Defaults /\ handler'[w].auto = h.auto
        /\ handler'[w].body = h.body /\ handler'[w].item = h.item
        /\ handler'[w].left = IF Defaults = Nil THEN {} ELSE Field
    BY <1>2, <2>1 DEF Handler
  <2>3. ASSUME w \notin mixed
        PROVE  (\A x \in Worker : ~Changing(x)) /\ FilledSoFar(handler[w])'
    <3>1. (\A x \in Worker : ~Changing(x)) /\ h.body \in Input /\ h.item = h.body
      BY <2>1, <2>3 DEF FillInv, FilledSoFar, Inserting
    <3>2. CASE Defaults = Nil
      <4>1. \A f \in Field : Filled(h.body, Content(Defaults), h.auto)[f] = h.body[f]
        BY <3>2 DEF Filled, Content, Nothing
      <4> QED
        BY <1>3, <2>2, <3>1, <4>1 DEF FilledSoFar, Content
    <3>3. CASE Defaults # Nil
      BY <1>3, <2>2, <3>1, <3>3 DEF FilledSoFar
    <3> QED
      BY <3>1, <3>2, <3>3
  <2> QED
    BY <1>5, <2>1, <2>2, <2>3
<1>8. ASSUME NEW f \in Field, Fill(w, f) PROVE FillInv'
  <2> DEFINE default == maps[h.map][f]
             value == IF Lacks(h.item, f) /\ default # Absent THEN Value(default, h.auto) ELSE h.item[f]
  <2>1. /\ h.pc = "fill" /\ f \in h.left /\ mixed' = mixed
        /\ handler' = [handler EXCEPT ![w] = [h EXCEPT !.left = @ \ {f}, !.item[f] = value]]
    BY <1>8 DEF Fill, At, history
  <2>2. h.item \in Document /\ h.map \in Map
    BY <1>2, <2>1 DEF Good, Inserts
  <2> HIDE DEF value
  <2>3. /\ handler'[w].pc = "fill" /\ handler'[w].map = h.map /\ handler'[w].auto = h.auto
        /\ handler'[w].body = h.body /\ handler'[w].left = h.left \ {f}
        /\ handler'[w].item = [h.item EXCEPT ![f] = value]
    BY <1>2, <2>1 DEF Handler
  <2>4. ASSUME w \notin mixed
        PROVE  (\A x \in Worker : ~Changing(x)) /\ FilledSoFar(handler[w])'
    <3> DEFINE full == Filled(h.body, Content(Defaults), h.auto)
    <3>1. /\ \A x \in Worker : ~Changing(x)
          /\ h.body \in Input /\ h.map = Defaults
          /\ \A e \in Field : h.item[e] = IF e \in h.left THEN h.body[e] ELSE full[e]
      BY <2>1, <2>4 DEF FillInv, FilledSoFar, Inserting
    <3>2. value = full[f]
      <4>1. h.item[f] = h.body[f] /\ h.body[f] \in {Given, Null, Absent}
        BY <2>1, <3>1, ValuesDiffer
      <4>2. Content(Defaults)[f] = default
        BY <2>2, <3>1, DefaultsAssumption DEF Content
      <4>3. full[f] = IF h.body[f] = Given \/ default = Absent THEN h.body[f]
                      ELSE Value(default, h.auto)
        BY <4>2 DEF Filled
      <4>4. Lacks(h.item, f) <=> h.body[f] # Given
        BY <4>1, NoValueTwice DEF Lacks
      <4> QED
        BY <4>1, <4>3, <4>4 DEF value
    <3>3. \A e \in Field : handler'[w].item[e] = IF e \in h.left \ {f} THEN h.body[e] ELSE full[e]
      BY <2>2, <2>3, <3>1, <3>2 DEF Document
    <3> HIDE DEF full
    <3>4. full = Filled(handler'[w].body, Content(Defaults)', handler'[w].auto)
      BY <1>3, <2>3 DEF full, Content
    <3> QED
      BY <1>3, <2>3, <3>1, <3>3, <3>4 DEF FilledSoFar
  <2> QED
    BY <1>5, <2>1, <2>3, <2>4
<1>9. CASE Append(w)
  <2>1. handler'[w].pc = "idle"
    BY <1>2, <1>9 DEF Append
  <2> QED
    BY <1>1, <1>3, <1>4, <2>1, FillAside DEF Inserting, Changing
<1> QED
  BY <1>6, <1>7, <1>8, <1>9

LEMMA FillNext == DefaultsInv /\ FillInv /\ [Next]_vars => FillInv'
<1> SUFFICES ASSUME DefaultsInv, FillInv, [Next]_vars PROVE FillInv'
  OBVIOUS
<1>1. CASE UNCHANGED vars
  BY <1>1 DEF vars, collection, history, FillInv, FilledSoFar, Inserting, Changing, Content
<1>2. CASE Restart
  <2>1. \A w \in Worker : handler'[w].pc = "idle"
    BY <1>2, IdleIsGood DEF Restart
  <2> QED
    BY <2>1 DEF FillInv, Inserting
<1>3. CASE Flush
  BY <1>3 DEF Flush, history, FillInv, FilledSoFar, Inserting, Changing, Content
<1> QED
  BY <1>1, <1>2, <1>3, RequestMeetsNone, InsertFills DEF Next

\* An insert that overlapped with no change of the defaults stores what the
\* client gave over the defaults as a whole (Insert, collection.go:229-255),
\* however many inserts fill their documents in from one map at once.
THEOREM SpecInsertsAreFilledIn == Spec => []InsertsAreFilledIn
  BY InvInit, InvNext, FillInit, FillNext, FillImplies, PTL DEF Spec
=============================================================================

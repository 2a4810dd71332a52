------------------------------ MODULE Defaults ------------------------------
(***************************************************************************)
(* The defaults of a collection and the numbers of auto(): Insert fills in *)
(* what a document lacks (collection.go), setDefaults decodes a request    *)
(* into the map that inserts are reading (apicollectionv1/setDefaults.go), *)
(* and createCollection sets the first ones after the collection can be    *)
(* found by others.  No lock covers any of it.                             *)
(*                                                                         *)
(* Maps are Go maps: Defaults and the variables of the handlers point at   *)
(* them, and handlers share them.  A default is "auto()", or Plain: any    *)
(* other value, uuid() and unixnano() included.  A document is described   *)
(* by what each field has.  Go may stop a process that iterates a map      *)
(* while it is written, which is a Restart here.                           *)
(*                                                                         *)
(*   created          the collection is registered                         *)
(*   Defaults, maps   c.Defaults and what the maps hold                    *)
(*   Count            c.Count                                              *)
(*   saved            the defaults of the last command written, and        *)
(*   durable          of the last one in the file: a command waits in the  *)
(*                    buffer until a flush                                 *)
(*   handler          of each worker: its step pc, the body it was sent,   *)
(*                    the map it points at, the fields its loop over the   *)
(*                    map has left, its item (the document it fills in, or *)
(*                    the defaults it has marshalled), its number auto     *)
(* History, read by the properties only:                                   *)
(*   setting   what the requests, one after another, make of the defaults  *)
(*   used      numbers of the documents inserted since the start           *)
(*   crossed   two requests were setting defaults at the same time         *)
(*   mixed     inserts that overlapped with a change of the defaults       *)
(* Bounds: MaxCount inserts of a process, and the maps in Map.             *)
(***************************************************************************)
EXTENDS Naturals, FiniteSets

CONSTANTS
  Worker, Field, Map,
  AutoNumber, Plain, Given, Null, Absent, \* what a field of a map or document has
  Nil,                                \* the pointer to no map
  Request,                            \* bodies of createCollection and setDefaults
  Input,                              \* documents clients insert
  MaxCount                            \* bound on the inserts of a process

Setting == [Field -> {AutoNumber, Plain, Null, Absent}]
Document == [Field -> {Given, Plain, Null, Absent} \cup 1 .. MaxCount]

ASSUME DefaultsAssumption ==
  /\ Request \subseteq Setting
  /\ Input \subseteq [Field -> {Given, Null, Absent}]
  /\ Nil \notin Map
  /\ MaxCount \in Nat
  /\ Cardinality({AutoNumber, Plain, Given, Null, Absent}) = 5
  /\ {AutoNumber, Plain, Given, Null, Absent} \cap (1 .. MaxCount) = {}

VARIABLES created, Defaults, maps, Count, saved, durable, handler,
          setting, used, crossed, mixed

collection == <<created, Defaults, maps, Count, saved, durable>>
history == <<setting, used, crossed, mixed>>
vars == <<collection, handler, history>>

Nothing == [f \in Field |-> Absent]
Fields(m) == {f \in Field : m[f] # Absent}

\* What a pointer leads to; a nil map has no fields.
Content(p) == IF p = Nil THEN Nothing ELSE maps[p]

\* Maps nothing points at.
Unused == Map \ ({Defaults} \cup {handler[w].map : w \in Worker})

\* A request over the defaults before it: nulls take fields away.
Applied(old, request) ==
  [f \in Field |-> CASE request[f] = Absent -> IF old[f] = Null THEN Absent ELSE old[f]
                     [] request[f] = Null -> Absent
                     [] OTHER -> request[f]]

\* Mutant: a function is stored as it is written.
ValueLiteral(default, number) == default

\* What a default gives a document of that number.
Value(default, number) == IF default = AutoNumber THEN number ELSE default

\* A document over the defaults: what it does not give is filled in.
Filled(document, defaults, number) ==
  [f \in Field |-> IF document[f] = Given \/ defaults[f] = Absent THEN document[f]
                   ELSE Value(defaults[f], number)]

At(w, step) == handler[w].pc = step
Changing(w) == handler[w].pc \in {"decode", "clean", "publish"}
Asking(w) == Changing(w) \/ handler[w].pc \in {"marshal", "encode"}
Inserting(w) == handler[w].pc \in {"number", "fill"}

Idle == [pc |-> "idle", body |-> Nothing, map |-> Nil, left |-> {}, item |-> Nothing, auto |-> 0]

-----------------------------------------------------------------------------
Init ==
  /\ created = FALSE
  /\ Defaults = Nil
  /\ maps = [m \in Map |-> Nothing]
  /\ Count = 0
  /\ saved = Nothing /\ durable = Nothing
  /\ handler = [w \in Worker |-> Idle]
  /\ setting = Nothing /\ used = {} /\ crossed = FALSE /\ mixed = {}

\* A request to set defaults begins: the others it overlaps with.
Overlaps(w) ==
  /\ crossed' = (crossed \/ \E v \in Worker \ {w} : Asking(v))
  /\ mixed' = mixed \cup {v \in Worker : Inserting(v)}

\* createCollection, and insert or setDefaults of a new collection: it is
\* registered first and its defaults are set next, nulls included.
Create(w, request) ==
  /\ At(w, "idle") /\ ~created
  /\ created' = TRUE
  /\ \E m \in Unused :
       /\ maps' = [maps EXCEPT ![m] = request]
       /\ handler' = [handler EXCEPT ![w] = [Idle EXCEPT !.pc = "publish", !.body = request, !.map = m]]
  /\ setting' = request
  /\ Overlaps(w)
  /\ UNCHANGED <<Defaults, Count, saved, durable, used>>

\* setDefaults: defaults := col.Defaults; Decode makes a map if that is nil.
StartSet(w, request) ==
  /\ At(w, "idle") /\ created
  /\ \E m \in IF Defaults = Nil THEN Unused ELSE {Defaults} :
       /\ maps' = [maps EXCEPT ![m] = Content(Defaults)]
       /\ handler' = [handler EXCEPT ![w] = [Idle EXCEPT
            !.pc = "decode", !.body = request, !.map = m, !.left = Fields(request)]]
  /\ setting' = Applied(setting, request)
  /\ Overlaps(w)
  /\ UNCHANGED <<created, Defaults, Count, saved, durable, used>>

\* setDefaults with the body null: Decode makes the variable a nil map, and the
\* map that was in it stays as it is.
StartClear(w) ==
  /\ At(w, "idle") /\ created
  /\ handler' = [handler EXCEPT ![w] = [Idle EXCEPT !.pc = "publish"]]
  /\ setting' = Nothing
  /\ Overlaps(w)
  /\ UNCHANGED <<created, Defaults, maps, Count, saved, durable, used>>

\* Decode stores one field of the request, a null too, ...
DecodeField(w, f) ==
  /\ At(w, "decode") /\ f \in handler[w].left
  /\ maps' = [maps EXCEPT ![handler[w].map][f] = handler[w].body[f]]
  /\ handler' = [handler EXCEPT ![w].left = @ \ {f}]
  /\ UNCHANGED <<created, Defaults, Count, saved, durable, history>>

\* ... and at the end the loop over the nulls begins.
DecodeEnd(w) ==
  /\ At(w, "decode") /\ handler[w].left = {}
  /\ handler' = [handler EXCEPT ![w].pc = "clean", ![w].left = Field]
  /\ UNCHANGED <<collection, history>>

\* if v == nil { delete(defaults, k) }
CleanField(w, f) ==
  /\ At(w, "clean") /\ f \in handler[w].left
  /\ maps' = [maps EXCEPT ![handler[w].map][f] = IF @ = Null THEN Absent ELSE @]
  /\ handler' = [handler EXCEPT ![w].left = @ \ {f}]
  /\ UNCHANGED <<created, Defaults, Count, saved, durable, history>>

\* if len(defaults) == 0 { defaults = nil }
CleanEnd(w) ==
  /\ At(w, "clean") /\ handler[w].left = {}
  /\ handler' = [handler EXCEPT ![w].pc = "publish",
                                ![w].map = IF Fields(maps[@]) = {} THEN Nil ELSE @]
  /\ UNCHANGED <<collection, history>>

\* Collection.SetDefaults: c.Defaults = defaults, ...
Publish(w) ==
  /\ At(w, "publish")
  /\ Defaults' = handler[w].map
  /\ handler' = [handler EXCEPT ![w].pc = "marshal"]
  /\ UNCHANGED <<created, maps, Count, saved, durable, history>>

\* Mutant: the request is journaled instead of the defaults it makes.
MarshalBody(w) ==
  /\ At(w, "marshal")
  /\ handler' = [handler EXCEPT ![w].pc = "encode", ![w].item = handler[w].body]
  /\ UNCHANGED <<collection, history>>

\* ... the map is marshalled as it is now, ...
Marshal(w) ==
  /\ At(w, "marshal")
  /\ handler' = [handler EXCEPT ![w].pc = "encode", ![w].item = Content(handler[w].map)]
  /\ UNCHANGED <<collection, history>>

\* ... and the command is written to the buffer; the request is answered.
Encode(w) ==
  /\ At(w, "encode")
  /\ saved' = handler[w].item
  /\ handler' = [handler EXCEPT ![w] = Idle]
  /\ UNCHANGED <<created, Defaults, maps, Count, durable, history>>

-----------------------------------------------------------------------------
\* Mutant: Count is read and stored, and an increment of others may be lost.
NextCountLoadStore ==
  {Count + 1} \cup {handler[w].auto : w \in {w \in Worker : Inserting(w)}}

\* atomic.AddInt64(&c.Count, 1)
NextCount == {Count + 1}

\* Insert takes its number.
StartInsert(w, document) ==
  /\ At(w, "idle") /\ created /\ Count < MaxCount
  /\ Count' \in NextCount
  /\ handler' = [handler EXCEPT ![w] = [Idle EXCEPT
       !.pc = "number", !.body = document, !.item = document, !.auto = Count + 1]]
  /\ mixed' = mixed \cup {v \in {w} : \E x \in Worker : Changing(x)}
  /\ UNCHANGED <<created, Defaults, maps, saved, durable, setting, used, crossed>>

\* range c.Defaults: the loop goes over this map, whatever is published next.
StartFill(w) ==
  /\ At(w, "number")
  /\ handler' = [handler EXCEPT ![w].pc = "fill", ![w].map = Defaults,
                                ![w].left = IF Defaults = Nil THEN {} ELSE Field]
  /\ UNCHANGED <<collection, history>>

\* Mutant: a field that is null counts as given.
LacksAbsent(item, f) == item[f] = Absent

\* item[k] == nil
Lacks(item, f) == item[f] \in {Absent, Null}

\* One field of the map is looked at, in any order; one stored or deleted
\* during the loop is met or not.
Fill(w, f) ==
  /\ At(w, "fill") /\ f \in handler[w].left
  /\ LET h == handler[w]
         default == maps[h.map][f]
     IN handler' = [handler EXCEPT
          ![w].left = @ \ {f},
          ![w].item[f] = IF Lacks(h.item, f) /\ default # Absent THEN Value(default, h.auto) ELSE @]
  /\ UNCHANGED <<collection, history>>

\* The document is marshalled, added and journaled, or an index refuses it.
Append(w) ==
  /\ At(w, "fill") /\ handler[w].left = {}
  /\ \/ used' = used \cup ({handler[w].item[f] : f \in Field} \cap (1 .. MaxCount))
     \/ used' = used
  /\ mixed' = mixed \ {w}
  /\ handler' = [handler EXCEPT ![w] = Idle]
  /\ UNCHANGED <<collection, setting, crossed>>

-----------------------------------------------------------------------------
\* The buffer goes to the file: the tick, Close, or a buffer that is full,
\* which may be after any command.
Flush ==
  /\ durable # saved
  /\ durable' = saved
  /\ UNCHANGED <<created, Defaults, maps, Count, saved, handler, history>>

\* The process ends at any moment; OpenCollection replays the last defaults in
\* the file, into a map of its own (none for null), and Count begins at zero.
Restart ==
  /\ \E p \in Map \cup {Nil} :
       /\ p = Nil => durable = Nothing
       /\ Defaults' = p
       /\ maps' = [m \in Map |-> IF m = p THEN durable ELSE Nothing]
  /\ Count' = 0
  /\ saved' = durable
  /\ handler' = [w \in Worker |-> Idle]
  /\ setting' = durable /\ used' = {} /\ crossed' = FALSE /\ mixed' = {}
  /\ UNCHANGED <<created, durable>>

Next ==
  \/ \E w \in Worker :
       \/ \E request \in Request : Create(w, request) \/ StartSet(w, request)
       \/ StartClear(w)
       \/ \E f \in Field : DecodeField(w, f) \/ CleanField(w, f) \/ Fill(w, f)
       \/ DecodeEnd(w) \/ CleanEnd(w) \/ Publish(w) \/ Marshal(w) \/ Encode(w)
       \/ \E document \in Input : StartInsert(w, document)
       \/ StartFill(w) \/ Append(w)
  \/ Flush \/ Restart

Spec == Init /\ [][Next]_vars

-----------------------------------------------------------------------------
Handler ==
  [pc : {"idle", "decode", "clean", "publish", "marshal", "encode", "number", "fill"},
   body : Setting \cup Input, map : Map \cup {Nil}, left : SUBSET Field,
   item : Setting \cup Document, auto : 0 .. MaxCount]

TypeOK ==
  /\ created \in BOOLEAN
  /\ Defaults \in Map \cup {Nil} /\ maps \in [Map -> Setting]
  /\ Count \in 0 .. MaxCount
  /\ saved \in Setting /\ durable \in Setting /\ setting \in Setting
  /\ handler \in [Worker -> Handler]
  /\ \A w \in Worker : handler[w].item \in IF Inserting(w) THEN Document ELSE Setting
  /\ used \subseteq 1 .. MaxCount
  /\ crossed \in BOOLEAN /\ mixed \subseteq Worker

\* Requests that set defaults one after another add up, with inserts and
\* crashes in between: when none is in progress, the defaults inserts will
\* find and those of the last command of the journal are both what the
\* requests say.
DefaultsAddUp ==
  ~crossed /\ (\A w \in Worker : ~Asking(w)) =>
    Content(Defaults) = setting /\ saved = setting

\* doc/examples/set_defaults.md, "automatically fill in any missing fields":
\* an insert that overlapped with no change of the defaults stores what the
\* client gave, over the defaults as a whole; null counts as missing.
InsertsAreFilledIn ==
  \A w \in Worker :
    LET h == handler[w] IN
    h.pc = "fill" /\ h.left = {} /\ w \notin mixed =>
      h.item = Filled(h.body, Content(Defaults), h.auto)

\* Two documents inserted by one process have different numbers, whatever the
\* order in which inserts take their number, fill it in and end.
NumbersDiffer ==
  \A w \in Worker :
    Inserting(w) =>
      /\ handler[w].auto \notin used
      /\ \A v \in Worker \ {w} : Inserting(v) => handler[v].auto # handler[w].auto
=============================================================================

--------------------------- MODULE DatabaseProofs ---------------------------
(***************************************************************************)
(* For any number of handlers, names, files and collections: every         *)
(* variable of the database keeps its type, and no request is given a      *)
(* collection that is closed, however creations and drops of one name      *)
(* overlap, until Stop closes them all.  While no two requests create or   *)
(* drop one name at once, and across stops, crashes and loads, the map     *)
(* mirrors the directory, what was answered as stored is in the collection *)
(* that requests are given, and Stop leaves all of it in the files.        *)
(***************************************************************************)
EXTENDS Database, TLAPS

Step == {"idle", "get", "check", "open", "register", "write", "find", "remove", "delete", "close"}
Holding == {"register", "write", "remove", "delete", "close"}

\* TypeOK in parts; a handler has a name, and after a look-up a collection.
LifeOK ==
  /\ process \in {"down", "running"}
  /\ status \in {"opening", "operating", "closing"}
  /\ accepting \in BOOLEAN
  /\ load \in {"walking", "done", "failed"}
  /\ toLoad \in SUBSET Name
  /\ stop \in {"idle", "closing", "stopped"}
  /\ must \in SUBSET Name /\ visited \in SUBSET Name
HistoryOK ==
  /\ issued \in SUBSET Doc
  /\ acked \in SUBSET (Name \X Doc) /\ due \in SUBSET (Name \X Doc)
  /\ crossed \in BOOLEAN
DiskOK ==
  /\ dir \in [Name -> File \cup {None}]
  /\ content \in [File -> SUBSET Doc]
  /\ torn \in SUBSET Name
MemoryOK ==
  /\ reg \in [Name -> Collection \cup {None}]
  /\ cols \in [Collection -> Record]
HandlersOK ==
  /\ pc \in [Worker -> Step]
  /\ req \in [Worker -> [kind: Kind, name: Name \cup {None}]]
  /\ held \in [Worker -> Collection \cup {None}]
  /\ \A w \in Worker :
       /\ pc[w] # "idle" => req[w].name \in Name
       /\ pc[w] \in Holding => held[w] \in Collection
TypeInv == LifeOK /\ HistoryOK /\ DiskOK /\ MemoryOK /\ HandlersOK

LEMMA TypeInit == Init => TypeInv
<1> SUFFICES ASSUME Init PROVE TypeInv
  OBVIOUS
<1>1. LifeOK /\ HistoryOK
  BY DEF Init, LifeOK, HistoryOK
<1>2. DiskOK /\ MemoryOK
  BY DEF Init, DiskOK, MemoryOK, Closed, Record
<1>3. HandlersOK
  BY DEF Init, HandlersOK, Step, Holding, Idle, Kind
<1> QED
  BY <1>1, <1>2, <1>3 DEF TypeInv

\* A handler that answers, and one that goes on.
LEMMA AnswerEnds ==
  ASSUME HandlersOK, NEW w \in Worker, Answer(w)
  PROVE  /\ HandlersOK'
         /\ pc'[w] = "idle" /\ held'[w] = None
         /\ \A v \in Worker \ {w} : pc'[v] = pc[v] /\ req'[v] = req[v] /\ held'[v] = held[v]
<1>1. Idle \in [kind: Kind, name: Name \cup {None}]
  BY DEF Idle, Kind
<1> QED
  BY <1>1 DEF Answer, HandlersOK, Step, Holding

LEMMA GotoStep ==
  ASSUME HandlersOK, NEW w \in Worker, NEW label \in Step, Goto(w, label)
  PROVE  /\ pc' \in [Worker -> Step] /\ pc'[w] = label
         /\ \A v \in Worker \ {w} : pc'[v] = pc[v]
  BY DEF HandlersOK, Goto

\* The step of one handler.
LEMMA OneHandler ==
  ASSUME HandlersOK, NEW w \in Worker,
         NEW label \in Step, Goto(w, label),
         NEW r \in [kind: Kind, name: Name], req' = [req EXCEPT ![w] = r],
         NEW c \in Collection \cup {None}, held' = [held EXCEPT ![w] = c],
         label \in Holding => c \in Collection
  PROVE  /\ HandlersOK'
         /\ pc'[w] = label /\ req'[w] = r /\ held'[w] = c
         /\ \A v \in Worker \ {w} : pc'[v] = pc[v] /\ req'[v] = req[v] /\ held'[v] = held[v]
<1>1. /\ pc' \in [Worker -> Step] /\ pc'[w] = label /\ \A v \in Worker \ {w} : pc'[v] = pc[v]
      /\ held' \in [Worker -> Collection \cup {None}]
      /\ held'[w] = c /\ \A v \in Worker \ {w} : held'[v] = held[v]
  BY GotoStep DEF HandlersOK
<1>2. /\ req' \in [Worker -> [kind: Kind, name: Name \cup {None}]]
      /\ req'[w] = r /\ \A v \in Worker \ {w} : req'[v] = req[v]
  BY DEF HandlersOK
<1> QED
  BY <1>1, <1>2 DEF HandlersOK

LEMMA SameRequest ==
  ASSUME HandlersOK, NEW w \in Worker, pc[w] # "idle",
         NEW label \in Step, Goto(w, label), UNCHANGED req,
         NEW c \in Collection \cup {None},
         held' = [held EXCEPT ![w] = c] \/ (UNCHANGED held /\ c = held[w]),
         label \in Holding => c \in Collection
  PROVE  /\ HandlersOK'
         /\ pc'[w] = label /\ req'[w] = req[w] /\ held'[w] = c
         /\ \A v \in Worker \ {w} : pc'[v] = pc[v] /\ req'[v] = req[v] /\ held'[v] = held[v]
<1>1. /\ pc' \in [Worker -> Step] /\ pc'[w] = label /\ \A v \in Worker \ {w} : pc'[v] = pc[v]
      /\ held' \in [Worker -> Collection \cup {None}]
      /\ held'[w] = c /\ \A v \in Worker \ {w} : held'[v] = held[v]
  BY GotoStep DEF HandlersOK
<1> QED
  BY <1>1 DEF HandlersOK

\* OpenCollection gives an object nobody has, open, and makes the file.
LEMMA OpenAsProperties ==
  ASSUME DiskOK, MemoryOK, NEW n \in Name, NEW c \in Collection, OpenAs(c, n)
  PROVE  /\ dir' \in [Name -> File \cup {None}] /\ cols' \in [Collection -> Record]
         /\ c \in Spare /\ cols'[c].open /\ cols'[c].file = dir'[n]
         /\ \A d \in Collection \ {c} : cols'[d] = cols[d]
<1>1. c \in Spare
  BY DEF OpenAs
<1>2. PICK f \in File : /\ cols' = [cols EXCEPT ![c] = Opened(f)]
                        /\ dir'[n] = f /\ dir' \in [Name -> File \cup {None}]
  <2>1. CASE dir[n] # None
    BY <2>1 DEF OpenAs, DiskOK
  <2>2. CASE dir[n] = None
    <3>1. (CHOOSE g \in Unlinked : TRUE) \in File /\ Unlinked # {}
      BY <2>2 DEF OpenAs, Unlinked
    <3> QED
      BY <2>2, <3>1 DEF OpenAs, DiskOK
  <2> QED
    BY <2>1, <2>2
<1>3. Opened(f) \in Record /\ Opened(f).open /\ Opened(f).file = f
  BY DEF Opened, Record, DiskOK
<1> QED
  BY <1>1, <1>2, <1>3 DEF MemoryOK

\* Close closes the one collection and leaves the others as they are.
LEMMA CloseColProperties ==
  ASSUME DiskOK, MemoryOK, NEW c \in Collection, CloseCol(c)
  PROVE  /\ content' \in [File -> SUBSET Doc] /\ cols' \in [Collection -> Record]
         /\ \A d \in Collection \ {c} : cols'[d] = cols[d]
<1>1. Closed \in Record
  BY DEF Closed, Record
<1>2. cols[c].buffer \in SUBSET Doc
  BY DEF MemoryOK, Record
<1>3. FlushTo(c) \in [File -> SUBSET Doc]
  BY <1>2 DEF FlushTo, DiskOK
<1> QED
  BY <1>1, <1>3 DEF CloseCol, DiskOK, MemoryOK

\* The process ends.
LEMMA DownEnds ==
  ASSUME TypeInv, Down
  PROVE  LifeOK' /\ HistoryOK' /\ MemoryOK' /\ HandlersOK' /\ UNCHANGED <<dir, content>>
<1>1. LifeOK' /\ UNCHANGED <<dir, content>>
  BY DEF Down, LifeOK
<1>2. HistoryOK'
  BY DEF Down, HistoryOK, OnDisk, TypeInv
<1>3. MemoryOK'
  BY DEF Down, MemoryOK, Closed, Record
<1>4. HandlersOK'
  BY DEF Down, HandlersOK, Step, Holding, Idle, Kind
<1> QED
  BY <1>1, <1>2, <1>3, <1>4

LEMMA LifeNext ==
  ASSUME TypeInv, [Next]_vars
  PROVE  LifeOK'
<1>1. LifeOK /\ DiskOK /\ MemoryOK
  BY DEF TypeInv
<1>2. CASE Exit \/ Crash
  BY <1>2, DownEnds DEF Exit, Crash
<1>3. CASE Start \/ Signal \/ StopDone \/ LoadDone \/ UNCHANGED vars
  BY <1>1, <1>3 DEF Start, Signal, StopDone, LoadDone, vars, LifeOK, Listed, loading, stopping
<1>4. ASSUME NEW n \in Name, StopOne(n) PROVE LifeOK'
  BY <1>1, <1>4 DEF StopOne, LifeOK, loading
<1>5. ASSUME NEW n \in Name, NEW c \in Collection, LoadOne(n, c) PROVE LifeOK'
  BY <1>1, <1>5 DEF LoadOne, LifeOK, stopping
<1>6. ASSUME \/ \E w \in Worker : Handle(w) \/ \E kind \in Kind, n \in Name : Request(w, kind, n)
             \/ \E c \in Collection : Tick(c)
      PROVE  LifeOK'
  <2>1. CASE \E w \in Worker : Delete(w)
    BY <1>1, <2>1 DEF Delete, LifeOK, loading
  <2>2. CASE ~\E w \in Worker : Delete(w)
    <3>1. UNCHANGED <<process, status, accepting, loading, stopping>>
      BY <1>6, <2>2 DEF Handle, Request, Get, Check, Register, Find, RemoveFile, CloseDropped,
                        OpenFile, Write, Tick
    <3> QED
      BY <1>1, <3>1 DEF LifeOK, loading, stopping
  <2> QED
    BY <2>1, <2>2
<1> QED
  BY <1>2, <1>3, <1>4, <1>5, <1>6 DEF Next, LoadStep, StopStep

LEMMA HistoryNext ==
  ASSUME TypeInv, [Next]_vars
  PROVE  HistoryOK'
<1>1. HistoryOK /\ HandlersOK
  BY DEF TypeInv
<1>2. CASE Exit \/ Crash
  BY <1>2, DownEnds DEF Exit, Crash
<1>3. CASE Signal
  BY <1>1, <1>3 DEF Signal, HistoryOK
<1>4. ASSUME NEW w \in Worker, Check(w) \/ Find(w) PROVE HistoryOK'
  BY <1>1, <1>4 DEF Check, Find, HistoryOK, Crosses
<1>5. ASSUME NEW w \in Worker, NEW x \in Doc, Write(w, x) PROVE HistoryOK'
  <2>1. req[w].name \in Name
    BY <1>1, <1>5 DEF Write, At, HandlersOK
  <2>2. acked' \subseteq acked \cup {<<req[w].name, x>>}
    BY <1>5 DEF Write
  <2> QED
    BY <1>1, <1>5, <2>1, <2>2 DEF Write, HistoryOK
<1>6. ASSUME NEW w \in Worker, RemoveFile(w) PROVE HistoryOK'
  BY <1>1, <1>6 DEF RemoveFile, HistoryOK
<1>7. ASSUME UNCHANGED history PROVE HistoryOK'
  BY <1>1, <1>7 DEF HistoryOK, history
<1>8. ASSUME NEW w \in Worker, Handle(w) PROVE HistoryOK'
  <2>1. CASE Get(w) \/ Register(w) \/ Delete(w) \/ CloseDropped(w) \/ \E c \in Collection : OpenFile(w, c)
    <3>1. UNCHANGED history
      BY <2>1 DEF Get, Register, Delete, CloseDropped, OpenFile
    <3> QED
      BY <1>7, <3>1
  <2> QED
    BY <1>4, <1>5, <1>6, <1>8, <2>1 DEF Handle
<1>9. CASE \/ Start \/ LoadDone \/ StopDone \/ UNCHANGED vars
           \/ \E n \in Name : StopOne(n) \/ \E c \in Collection : LoadOne(n, c)
           \/ \E w \in Worker, kind \in Kind, n \in Name : Request(w, kind, n)
           \/ \E c \in Collection : Tick(c)
  <2>1. UNCHANGED history
    BY <1>9 DEF Start, LoadDone, StopDone, vars, StopOne, LoadOne, Request, Tick, history
  <2> QED
    BY <1>7, <2>1
<1> QED
  BY <1>2, <1>3, <1>8, <1>9 DEF Next, LoadStep, StopStep

LEMMA FilesNext ==
  ASSUME TypeInv, [Next]_vars
  PROVE  DiskOK' /\ MemoryOK'
<1>1. LifeOK /\ DiskOK /\ MemoryOK /\ HandlersOK
  BY DEF TypeInv
<1>2. CASE Exit \/ Crash
  <2>1. MemoryOK' /\ UNCHANGED <<dir, content>>
    BY <1>2, DownEnds DEF Exit, Crash
  <2>2. torn' \in SUBSET Name
    BY <1>1, <1>2 DEF Exit, Crash, DiskOK
  <2> QED
    BY <1>1, <2>1, <2>2 DEF DiskOK
<1>3. ASSUME NEW n \in Name, NEW c \in Collection, LoadOne(n, c) PROVE DiskOK' /\ MemoryOK'
  <2>1. CASE n \in torn
    BY <1>1, <1>3, <2>1 DEF LoadOne, DiskOK, MemoryOK
  <2>2. CASE n \notin torn
    <3>1. OpenAs(c, n) /\ reg' = [reg EXCEPT ![n] = c] /\ UNCHANGED <<content, torn>>
      BY <1>3, <2>2 DEF LoadOne
    <3> QED
      BY <1>1, <3>1, OpenAsProperties DEF DiskOK, MemoryOK
  <2> QED
    BY <2>1, <2>2
<1>4. ASSUME NEW w \in Worker, NEW c \in Collection, OpenFile(w, c) PROVE DiskOK' /\ MemoryOK'
  <2>1. OpenAs(c, req[w].name) /\ UNCHANGED <<content, torn, reg>> /\ req[w].name \in Name
    BY <1>1, <1>4 DEF OpenFile, At, HandlersOK
  <2> QED
    BY <1>1, <2>1, OpenAsProperties DEF DiskOK, MemoryOK
<1>5. ASSUME NEW w \in Worker, Register(w) \/ Delete(w) PROVE DiskOK' /\ MemoryOK'
  <2>1. /\ UNCHANGED <<dir, content, torn, cols>>
        /\ \E c \in Collection \cup {None} : reg' = [reg EXCEPT ![req[w].name] = c]
    BY <1>1, <1>5 DEF Register, Delete, disk, HandlersOK
  <2> QED
    BY <1>1, <2>1 DEF DiskOK, MemoryOK
<1>6. ASSUME NEW w \in Worker, NEW x \in Doc, Write(w, x) PROVE DiskOK' /\ MemoryOK'
  <2>1. UNCHANGED <<disk, reg>> /\ held[w] \in Collection
    BY <1>1, <1>6 DEF Write, At, HandlersOK, Holding
  <2>2. \/ UNCHANGED cols
        \/ cols' = [cols EXCEPT ![held[w]].docs = @ \cup {x}, ![held[w]].buffer = @ \cup {x}]
    BY <1>6 DEF Write
  <2>3. cols' \in [Collection -> Record]
    BY <1>1, <2>1, <2>2 DEF MemoryOK, Record
  <2> QED
    BY <1>1, <2>1, <2>3 DEF DiskOK, MemoryOK, disk
<1>7. ASSUME NEW w \in Worker, RemoveFile(w) PROVE DiskOK' /\ MemoryOK'
  BY <1>1, <1>7 DEF RemoveFile, DiskOK, MemoryOK
<1>8. ASSUME NEW c \in Collection, CloseCol(c), UNCHANGED <<dir, torn, reg>> PROVE DiskOK' /\ MemoryOK'
  BY <1>1, <1>8, CloseColProperties DEF DiskOK, MemoryOK
<1>9. ASSUME NEW w \in Worker, CloseDropped(w) PROVE DiskOK' /\ MemoryOK'
  BY <1>1, <1>8, <1>9 DEF CloseDropped, At, HandlersOK, Holding
<1>10. ASSUME NEW n \in Name, StopOne(n) PROVE DiskOK' /\ MemoryOK'
  BY <1>1, <1>8, <1>10 DEF StopOne, MemoryOK
<1>11. ASSUME NEW c \in Collection, Tick(c) PROVE DiskOK' /\ MemoryOK'
  <2>1. cols[c].buffer \in SUBSET Doc /\ cols[c] \in Record
    BY <1>1 DEF MemoryOK, Record
  <2>2. content' \in [File -> SUBSET Doc]
    BY <1>1, <1>11, <2>1 DEF Tick, FlushTo, DiskOK
  <2>3. cols' \in [Collection -> Record]
    BY <1>1, <1>11 DEF Tick, MemoryOK, Record
  <2> QED
    BY <1>1, <1>11, <2>2, <2>3 DEF Tick, DiskOK, MemoryOK
<1>12. CASE \/ Start \/ LoadDone \/ StopDone \/ Signal \/ UNCHANGED vars
            \/ \E w \in Worker : \/ Get(w) \/ Check(w) \/ Find(w)
                                 \/ \E kind \in Kind, n \in Name : Request(w, kind, n)
  <2>1. UNCHANGED <<disk, reg, cols>>
    BY <1>12 DEF Start, LoadDone, StopDone, Signal, vars, Get, Check, Find, Request, disk
  <2> QED
    BY <1>1, <2>1 DEF DiskOK, MemoryOK, disk
<1> QED
  BY <1>2, <1>3, <1>4, <1>5, <1>6, <1>7, <1>9, <1>10, <1>11, <1>12 DEF Next, LoadStep, StopStep, Handle

-----------------------------------------------------------------------------
\* A collection is in the map under one name, and one that is still to be
\* registered is open, not in the map, and of one handler.
OneName == \A m, n \in Name : reg[m] = reg[n] /\ reg[m] # None => m = n
NewIsOwn ==
  \A w \in Worker : pc[w] = "register" =>
    /\ cols[held[w]].open
    /\ \A n \in Name : reg[n] # held[w]
    /\ \A v \in Worker \ {w} : held[v] # held[w]

\* One that is dropped is in the map under the name of the drop only, and not
\* in the map any more when it is closed.
DropIsOwn ==
  \A w \in Worker :
    /\ pc[w] \in {"remove", "delete"} => \A n \in Name : reg[n] = held[w] => n = req[w].name
    /\ pc[w] = "close" => \A n \in Name : reg[n] # held[w]

\* A process begins with an empty map.
DownIsEmpty == ~Running => \A n \in Name : reg[n] = None

ServedInv == OneName /\ NewIsOwn /\ DropIsOwn /\ DownIsEmpty /\ RegisteredIsOpen
Inv == TypeInv /\ ServedInv

\* What a step does to its handler.
Goes(w, from, to) ==
  /\ Running /\ pc[w] \in from /\ pc'[w] \in to
  /\ \A v \in Worker \ {w} : pc'[v] = pc[v] /\ req'[v] = req[v] /\ held'[v] = held[v]

\* A step that leaves the map alone and closes nothing, of a handler that has
\* opened nothing: what it holds comes from the map, for a drop from its name.
LEMMA ServedAside ==
  ASSUME Inv, NEW w \in Worker, UNCHANGED <<process, stop, reg>>,
         \A c \in Collection : cols[c].open => cols'[c].open,
         Goes(w, Step, Step \ {"register", "close"}),
         held'[w] \in {None, held[w]} \cup {reg[n] : n \in Name},
         pc'[w] \in {"remove", "delete"} =>
           \A n \in Name : reg[n] = held'[w] => n = req'[w].name
  PROVE  ServedInv'
<1>1. OneName' /\ DownIsEmpty'
  BY DEF Inv, ServedInv, OneName, DownIsEmpty, Running
<1>2. DropIsOwn'
  BY DEF Inv, ServedInv, DropIsOwn, Goes
<1>3. RegisteredIsOpen'
  <2>1. \A n \in Listed(reg) : reg[n] \in Collection
    BY DEF Inv, TypeInv, MemoryOK, Listed
  <2> QED
    BY <2>1 DEF Inv, ServedInv, RegisteredIsOpen, Running, Listed
<1>4. NewIsOwn'
  <2> SUFFICES ASSUME NEW v \in Worker, pc'[v] = "register"
               PROVE  /\ cols'[held'[v]].open
                      /\ \A n \in Name : reg'[n] # held'[v]
                      /\ \A u \in Worker \ {v} : held'[u] # held'[v]
    BY DEF NewIsOwn
  <2>1. v # w /\ pc[v] = "register" /\ held'[v] = held[v]
    BY DEF Goes
  <2>2. held[v] \in Collection /\ None \notin Collection
    BY <2>1, DatabaseAssumption DEF Inv, TypeInv, HandlersOK, Holding
  <2>3. /\ cols[held[v]].open /\ \A n \in Name : reg[n] # held[v]
        /\ \A u \in Worker \ {v} : held[u] # held[v]
    BY <2>1 DEF Inv, ServedInv, NewIsOwn
  <2> QED
    BY <2>1, <2>2, <2>3 DEF Goes
<1> QED
  BY <1>1, <1>2, <1>3, <1>4 DEF ServedInv

LEMMA RequestNext ==
  ASSUME Inv, NEW w \in Worker, NEW kind \in Kind, NEW n \in Name, Request(w, kind, n)
  PROVE  HandlersOK' /\ ServedInv'
<1>1. HandlersOK /\ held[w] \in Collection \cup {None}
  BY DEF Inv, TypeInv, HandlersOK
<1> DEFINE label == IF kind = "insert" THEN "get" ELSE IF kind = "create" THEN "check" ELSE "find"
           r == [kind |-> kind, name |-> n]
<1>2. label \in Step \ Holding /\ r \in [kind: Kind, name: Name] /\ label \in {"get", "check", "find"}
  BY DEF Step, Holding
<1>3. Goto(w, label) /\ req' = [req EXCEPT ![w] = r] /\ held' = [held EXCEPT ![w] = held[w]]
  BY <1>1 DEF Request, HandlersOK
<1> HIDE DEF label, r
<1>4. HandlersOK' /\ Goes(w, Step, {"get", "check", "find"}) /\ held'[w] = held[w]
  <2>1. /\ HandlersOK' /\ pc'[w] = label /\ held'[w] = held[w]
        /\ \A v \in Worker \ {w} : pc'[v] = pc[v] /\ req'[v] = req[v] /\ held'[v] = held[v]
    BY <1>1, <1>2, <1>3, OneHandler
  <2> QED
    BY <1>1, <1>2, <2>1 DEF Goes, Request, At, HandlersOK
<1>5. UNCHANGED <<process, stop, reg, cols>>
  BY DEF Request, stopping
<1> QED
  BY <1>4, <1>5, ServedAside DEF Goes, Step

LEMMA GetNext ==
  ASSUME Inv, NEW w \in Worker, Get(w)
  PROVE  HandlersOK' /\ ServedInv'
<1> DEFINE c == reg[req[w].name]
<1>1. /\ HandlersOK /\ pc[w] = "get" /\ Running /\ req[w] \in [kind: Kind, name: Name]
      /\ c \in Collection \cup {None} /\ held[w] \in Collection \cup {None}
  <2>1. HandlersOK /\ MemoryOK /\ pc[w] = "get" /\ Running
    BY DEF Inv, TypeInv, Get, At
  <2> QED
    BY <2>1 DEF HandlersOK, MemoryOK
<1>2. UNCHANGED <<process, stop, req, reg, cols>>
  BY DEF Get, stopping
<1>3. CASE c = None
  <2>1. Goto(w, "check") /\ UNCHANGED held
    BY <1>3 DEF Get
  <2>2. HandlersOK' /\ Goes(w, Step, {"check"}) /\ held'[w] = held[w]
    BY <1>1, <1>2, <2>1, SameRequest DEF Goes, Step, Holding
  <2> QED
    BY <1>2, <2>2, ServedAside DEF Goes, Step
<1>4. CASE c # None
  <2>1. Goto(w, "write") /\ held' = [held EXCEPT ![w] = c]
    BY <1>4 DEF Get
  <2>2. HandlersOK' /\ Goes(w, Step, {"write"}) /\ held'[w] = c
    <3> HIDE DEF c
    <3> QED
      BY <1>1, <1>2, <1>4, <2>1, SameRequest DEF Goes, Step, Holding
  <2> QED
    BY <1>1, <1>2, <2>2, ServedAside DEF Goes, Step
<1> QED
  BY <1>3, <1>4

LEMMA CheckNext ==
  ASSUME Inv, NEW w \in Worker, Check(w)
  PROVE  HandlersOK' /\ ServedInv'
<1>1. /\ HandlersOK /\ pc[w] = "check" /\ Running /\ req[w] \in [kind: Kind, name: Name]
      /\ held[w] \in Collection \cup {None} /\ UNCHANGED <<process, stop, reg, cols>>
  <2>1. HandlersOK /\ pc[w] = "check" /\ Running
    BY DEF Inv, TypeInv, Check, At
  <2> QED
    BY <2>1 DEF HandlersOK, Check, stopping
<1>2. CASE Answer(w)
  <2>1. HandlersOK' /\ Goes(w, Step, {"idle"}) /\ held'[w] = None
    BY <1>1, <1>2, AnswerEnds DEF Goes, Step
  <2> QED
    BY <1>1, <2>1, ServedAside DEF Goes, Step
<1>3. CASE ~Answer(w)
  <2>1. Goto(w, "open") /\ UNCHANGED <<req, held>>
    BY <1>3 DEF Check
  <2>2. HandlersOK' /\ Goes(w, Step, {"open"}) /\ held'[w] = held[w]
    BY <1>1, <2>1, SameRequest DEF Goes, Step, Holding
  <2> QED
    BY <1>1, <2>2, ServedAside DEF Goes, Step
<1> QED
  BY <1>2, <1>3

LEMMA WriteNext ==
  ASSUME Inv, NEW w \in Worker, NEW x \in Doc, Write(w, x)
  PROVE  HandlersOK' /\ ServedInv'
<1>1. /\ HandlersOK /\ MemoryOK /\ pc[w] = "write" /\ Running /\ Answer(w)
      /\ UNCHANGED <<process, stop, reg>>
  BY DEF Inv, TypeInv, Write, At, stopping
<1>2. HandlersOK' /\ Goes(w, Step, {"idle"}) /\ held'[w] = None
  BY <1>1, AnswerEnds DEF Goes, Step
<1>3. \A c \in Collection : cols[c].open => cols'[c].open
  <2>1. \/ UNCHANGED cols
        \/ cols' = [cols EXCEPT ![held[w]].docs = @ \cup {x}, ![held[w]].buffer = @ \cup {x}]
    BY DEF Write
  <2> QED
    BY <1>1, <2>1 DEF MemoryOK, Record
<1> QED
  BY <1>1, <1>2, <1>3, ServedAside DEF Goes, Step

\* An object that is opened is nobody's.
LEMMA OpenFileNext ==
  ASSUME Inv, NEW w \in Worker, NEW c \in Collection, OpenFile(w, c)
  PROVE  HandlersOK' /\ ServedInv'
<1>1. /\ HandlersOK /\ DiskOK /\ MemoryOK /\ ServedInv /\ pc[w] = "open" /\ Running
      /\ OpenAs(c, req[w].name) /\ UNCHANGED <<process, stop, req, reg>> /\ req[w].name \in Name
      /\ Goto(w, "register") /\ held' = [held EXCEPT ![w] = c]
  <2>1. HandlersOK /\ pc[w] = "open"
    BY DEF Inv, TypeInv, OpenFile, At
  <2> QED
    BY <2>1 DEF Inv, TypeInv, OpenFile, At, stopping, HandlersOK
<1>2. /\ HandlersOK' /\ pc'[w] = "register" /\ held'[w] = c
      /\ \A v \in Worker \ {w} : pc'[v] = pc[v] /\ req'[v] = req[v] /\ held'[v] = held[v]
  BY <1>1, SameRequest DEF Step
<1>3. /\ cols'[c].open /\ \A d \in Collection \ {c} : cols'[d] = cols[d]
      /\ (\A n \in Name : reg[n] # c) /\ \A v \in Worker : held[v] # c
  BY <1>1, OpenAsProperties DEF Spare, InUse
<1>4. OneName' /\ DownIsEmpty'
  BY <1>1 DEF ServedInv, OneName, DownIsEmpty, Running
<1>5. NewIsOwn'
  <2> SUFFICES ASSUME NEW v \in Worker, pc'[v] = "register"
               PROVE  /\ cols'[held'[v]].open
                      /\ \A n \in Name : reg'[n] # held'[v]
                      /\ \A u \in Worker \ {v} : held'[u] # held'[v]
    BY DEF NewIsOwn
  <2>1. CASE v = w
    BY <1>1, <1>2, <1>3, <2>1
  <2>2. CASE v # w
    <3>1. /\ held'[v] = held[v] /\ held[v] \in Collection \ {c} /\ cols[held[v]].open
          /\ \A n \in Name : reg[n] # held[v]
          /\ \A u \in Worker \ {v} : held[u] # held[v]
      BY <1>1, <1>2, <1>3, <2>2 DEF ServedInv, NewIsOwn, HandlersOK, Holding
    <3> QED
      BY <1>1, <1>2, <1>3, <2>2, <3>1
  <2> QED
    BY <2>1, <2>2
<1>6. DropIsOwn'
  BY <1>1, <1>2 DEF ServedInv, DropIsOwn
<1>7. RegisteredIsOpen'
  <2>1. \A n \in Listed(reg) : reg[n] \in Collection \ {c}
    BY <1>1, <1>3 DEF MemoryOK, Listed
  <2> QED
    BY <1>1, <1>3, <2>1 DEF ServedInv, RegisteredIsOpen, Running, Listed
<1> QED
  BY <1>2, <1>4, <1>5, <1>6, <1>7 DEF ServedInv

\* A collection that is registered is open and in the map for the first time.
LEMMA RegisterNext ==
  ASSUME Inv, NEW w \in Worker, Register(w)
  PROVE  HandlersOK' /\ ServedInv'
<1> DEFINE c == held[w]
           n == req[w].name
<1>1. /\ HandlersOK /\ MemoryOK /\ ServedInv /\ pc[w] = "register" /\ Running
      /\ UNCHANGED <<process, stop, cols>> /\ n \in Name /\ c \in Collection
      /\ reg' = [reg EXCEPT ![n] = c]
  <2>1. HandlersOK /\ pc[w] = "register"
    BY DEF Inv, TypeInv, Register, At
  <2> QED
    BY <2>1 DEF Inv, TypeInv, Register, At, stopping, HandlersOK, Holding
<1>2. /\ HandlersOK' /\ pc'[w] \in {"idle", "write"}
      /\ \A v \in Worker \ {w} : pc'[v] = pc[v] /\ req'[v] = req[v] /\ held'[v] = held[v]
      /\ held'[w] \in {None, c}
  <2>1. Answer(w) \/ (Goto(w, "write") /\ UNCHANGED <<req, held>>)
    BY DEF Register
  <2>2. CASE Answer(w)
    BY <1>1, <2>2, AnswerEnds
  <2>3. CASE Goto(w, "write") /\ UNCHANGED <<req, held>>
    BY <1>1, <2>3, SameRequest DEF Step
  <2> QED
    BY <2>1, <2>2, <2>3
<1>3. /\ cols[c].open
      /\ \A m \in Name : reg[m] # c
      /\ \A v \in Worker \ {w} : held[v] # c
  BY <1>1 DEF ServedInv, NewIsOwn
<1>4. reg'[n] = c /\ (\A m \in Name \ {n} : reg'[m] = reg[m]) /\ c # None
  BY <1>1, DatabaseAssumption DEF MemoryOK
<1> HIDE DEF c, n
<1>5. OneName'
  BY <1>1, <1>3, <1>4 DEF ServedInv, OneName
<1>6. DownIsEmpty'
  BY <1>1 DEF DownIsEmpty, Running
<1>7. NewIsOwn'
  <2> SUFFICES ASSUME NEW v \in Worker, pc'[v] = "register"
               PROVE  /\ cols'[held'[v]].open
                      /\ \A m \in Name : reg'[m] # held'[v]
                      /\ \A u \in Worker \ {v} : held'[u] # held'[v]
    BY DEF NewIsOwn
  <2>1. v # w /\ held'[v] = held[v] /\ pc[v] = "register"
    BY <1>2
  <2>2. /\ cols[held[v]].open /\ held[v] \in Collection
        /\ \A m \in Name : reg[m] # held[v]
        /\ \A u \in Worker \ {v} : held[u] # held[v]
    BY <1>1, <2>1 DEF ServedInv, NewIsOwn, HandlersOK, Holding
  <2>3. None \notin Collection /\ held[v] # c
    BY <1>3, <2>1, DatabaseAssumption
  <2> QED
    BY <1>1, <1>2, <1>4, <2>1, <2>2, <2>3
<1>8. DropIsOwn'
  <2> SUFFICES ASSUME NEW v \in Worker
               PROVE  /\ pc'[v] \in {"remove", "delete"} =>
                           \A m \in Name : reg'[m] = held'[v] => m = req'[v].name
                      /\ pc'[v] = "close" => \A m \in Name : reg'[m] # held'[v]
    BY DEF DropIsOwn
  <2>1. CASE v = w
    BY <1>2, <2>1
  <2>2. CASE v # w
    BY <1>1, <1>2, <1>3, <1>4, <2>2 DEF ServedInv, DropIsOwn
  <2> QED
    BY <2>1, <2>2
<1>9. RegisteredIsOpen'
  BY <1>1, <1>3, <1>4 DEF ServedInv, RegisteredIsOpen, Running, Listed
<1> QED
  BY <1>2, <1>5, <1>6, <1>7, <1>8, <1>9 DEF ServedInv

\* A drop finds a collection, which is in the map under its name only.
LEMMA FindNext ==
  ASSUME Inv, NEW w \in Worker, Find(w)
  PROVE  HandlersOK' /\ ServedInv'
<1> DEFINE c == reg[req[w].name]
<1>1. /\ HandlersOK /\ MemoryOK /\ OneName /\ pc[w] = "find" /\ Running /\ req[w].name \in Name
      /\ c \in Collection \cup {None} /\ UNCHANGED <<process, stop, reg, cols>>
  <2>1. HandlersOK /\ MemoryOK /\ pc[w] = "find"
    BY DEF Inv, TypeInv, Find, At
  <2> QED
    BY <2>1 DEF HandlersOK, MemoryOK, Find, At, stopping, Inv, ServedInv
<1>2. CASE c = None
  <2>1. Answer(w)
    BY <1>2 DEF Find
  <2>2. HandlersOK' /\ Goes(w, Step, {"idle"}) /\ held'[w] = None
    BY <1>1, <2>1, AnswerEnds DEF Goes, Step
  <2> QED
    BY <1>1, <2>2, ServedAside DEF Goes, Step
<1>3. CASE c # None
  <2>1. Goto(w, "remove") /\ UNCHANGED req /\ held' = [held EXCEPT ![w] = c]
    BY <1>3 DEF Find
  <2>2. HandlersOK' /\ Goes(w, Step, {"remove"}) /\ held'[w] = c /\ req'[w] = req[w]
    <3> HIDE DEF c
    <3> QED
      BY <1>1, <1>3, <2>1, SameRequest DEF Goes, Step, Holding
  <2>3. \A n \in Name : reg[n] = c => n = req'[w].name
    BY <1>1, <1>3, <2>2 DEF OneName
  <2>4. c \in {reg[n] : n \in Name}
    BY <1>1
  <2> HIDE DEF c
  <2> QED
    BY <1>1, <2>2, <2>3, <2>4, ServedAside DEF Goes, Step
<1> QED
  BY <1>2, <1>3

LEMMA RemoveFileNext ==
  ASSUME Inv, NEW w \in Worker, RemoveFile(w)
  PROVE  HandlersOK' /\ ServedInv'
<1>1. /\ HandlersOK /\ DropIsOwn /\ pc[w] = "remove" /\ Running /\ held[w] \in Collection
      /\ UNCHANGED <<process, stop, reg, cols>>
  <2>1. HandlersOK /\ pc[w] = "remove"
    BY DEF Inv, TypeInv, RemoveFile, At
  <2> QED
    BY <2>1 DEF HandlersOK, Holding, RemoveFile, At, stopping, Inv, ServedInv
<1>2. CASE Answer(w)
  <2>1. HandlersOK' /\ Goes(w, Step, {"idle"}) /\ held'[w] = None
    BY <1>1, <1>2, AnswerEnds DEF Goes, Step
  <2> QED
    BY <1>1, <2>1, ServedAside DEF Goes, Step
<1>3. CASE ~Answer(w)
  <2>1. Goto(w, "delete") /\ UNCHANGED <<req, held>>
    BY <1>3 DEF RemoveFile
  <2>2. HandlersOK' /\ Goes(w, Step, {"delete"}) /\ held'[w] = held[w] /\ req'[w] = req[w]
    BY <1>1, <2>1, SameRequest DEF Goes, Step, Holding
  <2>3. \A n \in Name : reg[n] = held[w] => n = req'[w].name
    BY <1>1, <2>2 DEF DropIsOwn
  <2> QED
    BY <1>1, <2>2, <2>3, ServedAside DEF Goes, Step
<1> QED
  BY <1>2, <1>3

\* The entry of a collection goes before the collection is closed.
LEMMA DeleteNext ==
  ASSUME Inv, NEW w \in Worker, Delete(w)
  PROVE  HandlersOK' /\ ServedInv'
<1> DEFINE n == req[w].name
<1>1. /\ HandlersOK /\ MemoryOK /\ ServedInv /\ pc[w] = "delete" /\ Running
      /\ UNCHANGED <<process, stop, req, held, cols>> /\ n \in Name /\ held[w] \in Collection
      /\ reg' = [reg EXCEPT ![n] = None] /\ Goto(w, "close")
  <2>1. HandlersOK /\ pc[w] = "delete"
    BY DEF Inv, TypeInv, Delete, At
  <2> QED
    BY <2>1 DEF Inv, TypeInv, Delete, At, stopping, HandlersOK, Holding
<1>2. HandlersOK' /\ pc'[w] = "close" /\ \A v \in Worker \ {w} : pc'[v] = pc[v]
  BY <1>1, SameRequest DEF Step
<1>3. /\ reg'[n] = None /\ (\A m \in Name \ {n} : reg'[m] = reg[m])
      /\ None \notin Collection
  BY <1>1, DatabaseAssumption DEF MemoryOK
<1>4. \A m \in Name : reg[m] = held[w] => m = n
  BY <1>1 DEF ServedInv, DropIsOwn
<1> HIDE DEF n
<1>5. OneName' /\ DownIsEmpty'
  BY <1>1, <1>3 DEF ServedInv, OneName, DownIsEmpty, Running
<1>6. NewIsOwn'
  BY <1>1, <1>2, <1>3 DEF ServedInv, NewIsOwn, HandlersOK, Holding
<1>7. DropIsOwn'
  <2> SUFFICES ASSUME NEW v \in Worker
               PROVE  /\ pc'[v] \in {"remove", "delete"} =>
                           \A m \in Name : reg'[m] = held[v] => m = req[v].name
                      /\ pc'[v] = "close" => \A m \in Name : reg'[m] # held[v]
    BY <1>1 DEF DropIsOwn
  <2>1. CASE v = w
    BY <1>1, <1>2, <1>3, <1>4, <2>1
  <2>2. CASE v # w
    BY <1>1, <1>2, <1>3, <2>2 DEF ServedInv, DropIsOwn, HandlersOK, Holding
  <2> QED
    BY <2>1, <2>2
<1>8. RegisteredIsOpen'
  BY <1>1, <1>3 DEF ServedInv, RegisteredIsOpen, Running, Listed
<1> QED
  BY <1>2, <1>5, <1>6, <1>7, <1>8 DEF ServedInv

LEMMA CloseDroppedNext ==
  ASSUME Inv, NEW w \in Worker, CloseDropped(w)
  PROVE  HandlersOK' /\ ServedInv'
<1>1. /\ HandlersOK /\ DiskOK /\ MemoryOK /\ ServedInv /\ pc[w] = "close" /\ Running
      /\ UNCHANGED <<process, stop, reg>> /\ held[w] \in Collection
      /\ CloseCol(held[w]) /\ Answer(w)
  <2>1. HandlersOK /\ pc[w] = "close"
    BY DEF Inv, TypeInv, CloseDropped, At
  <2> QED
    BY <2>1 DEF Inv, TypeInv, CloseDropped, At, stopping, HandlersOK, Holding
<1>2. /\ HandlersOK' /\ pc'[w] = "idle" /\ held'[w] = None
      /\ \A v \in Worker \ {w} : pc'[v] = pc[v] /\ req'[v] = req[v] /\ held'[v] = held[v]
  BY <1>1, AnswerEnds
<1>3. /\ \A d \in Collection \ {held[w]} : cols'[d] = cols[d]
      /\ \A n \in Name : reg[n] # held[w]
  BY <1>1, CloseColProperties DEF ServedInv, DropIsOwn
<1>4. OneName' /\ DownIsEmpty' /\ DropIsOwn'
  <2>1. OneName' /\ DownIsEmpty'
    BY <1>1 DEF ServedInv, OneName, DownIsEmpty, Running
  <2>2. DropIsOwn'
    BY <1>1, <1>2 DEF ServedInv, DropIsOwn
  <2> QED
    BY <2>1, <2>2
<1>5. NewIsOwn'
  <2> SUFFICES ASSUME NEW v \in Worker, pc'[v] = "register"
               PROVE  /\ cols'[held'[v]].open
                      /\ \A n \in Name : reg'[n] # held'[v]
                      /\ \A u \in Worker \ {v} : held'[u] # held'[v]
    BY DEF NewIsOwn
  <2>1. v # w /\ held'[v] = held[v] /\ pc[v] = "register"
    BY <1>2
  <2>2. /\ cols[held[v]].open /\ held[v] \in Collection
        /\ \A n \in Name : reg[n] # held[v]
        /\ \A u \in Worker \ {v} : held[u] # held[v]
    BY <1>1, <2>1 DEF ServedInv, NewIsOwn, HandlersOK, Holding
  <2>3. None \notin Collection /\ held[v] # held[w]
    BY <2>1, <2>2, DatabaseAssumption
  <2> QED
    BY <1>1, <1>2, <1>3, <2>1, <2>2, <2>3
<1>6. RegisteredIsOpen'
  <2>1. \A n \in Listed(reg) : reg[n] \in Collection \ {held[w]}
    BY <1>1, <1>3 DEF MemoryOK, Listed
  <2> QED
    BY <1>1, <1>3, <2>1 DEF ServedInv, RegisteredIsOpen, Running, Listed
<1> QED
  BY <1>2, <1>4, <1>5, <1>6 DEF ServedInv

-----------------------------------------------------------------------------
\* Load registers an object that is nobody's.
LEMMA LoadOneNext ==
  ASSUME Inv, NEW n \in Name, NEW c \in Collection, LoadOne(n, c)
  PROVE  HandlersOK' /\ ServedInv'
<1>1. /\ HandlersOK /\ DiskOK /\ MemoryOK /\ ServedInv /\ Running
      /\ UNCHANGED <<process, stop, pc, req, held>>
  BY DEF Inv, TypeInv, LoadOne, stopping, handlers
<1>2. HandlersOK'
  BY <1>1 DEF HandlersOK
<1>3. CASE n \in torn
  <2>1. UNCHANGED <<reg, cols>>
    BY <1>3 DEF LoadOne
  <2> QED
    BY <1>1, <1>2, <2>1
       DEF ServedInv, OneName, NewIsOwn, DropIsOwn, DownIsEmpty, RegisteredIsOpen, Running, Listed
<1>4. CASE n \notin torn
  <2>1. /\ reg' = [reg EXCEPT ![n] = c]
        /\ cols'[c].open /\ \A d \in Collection \ {c} : cols'[d] = cols[d]
        /\ (\A m \in Name : reg[m] # c) /\ \A v \in Worker : held[v] # c
    <3>1. OpenAs(c, n) /\ reg' = [reg EXCEPT ![n] = c]
      BY <1>4 DEF LoadOne
    <3> QED
      BY <1>1, <3>1, OpenAsProperties DEF Spare, InUse
  <2>2. reg'[n] = c /\ \A m \in Name \ {n} : reg'[m] = reg[m]
    BY <1>1, <2>1 DEF MemoryOK
  <2>3. OneName'
    BY <1>1, <2>1, <2>2 DEF ServedInv, OneName
  <2>4. NewIsOwn'
    BY <1>1, <2>1, <2>2 DEF ServedInv, NewIsOwn, HandlersOK, Holding
  <2>5. DropIsOwn'
    BY <1>1, <2>1, <2>2 DEF ServedInv, DropIsOwn
  <2>6. DownIsEmpty'
    BY <1>1 DEF DownIsEmpty, Running
  <2>7. RegisteredIsOpen'
    <3>1. \A m \in Listed(reg) : reg[m] \in Collection \ {c}
      BY <1>1, <2>1 DEF MemoryOK, Listed
    <3> QED
      BY <1>1, <2>1, <2>2, <3>1 DEF ServedInv, RegisteredIsOpen, Running, Listed
  <2> QED
    BY <1>2, <2>3, <2>4, <2>5, <2>6, <2>7 DEF ServedInv
<1> QED
  BY <1>3, <1>4

\* Stop closes what is in the map, and nothing that is still to be registered.
LEMMA StopOneNext ==
  ASSUME Inv, NEW n \in Name, StopOne(n)
  PROVE  HandlersOK' /\ ServedInv'
<1>1. /\ HandlersOK /\ DiskOK /\ MemoryOK /\ ServedInv /\ Running /\ stop = "closing"
      /\ reg[n] \in Collection /\ CloseCol(reg[n])
      /\ UNCHANGED <<process, stop, reg, pc, req, held>>
  <2>1. MemoryOK
    BY DEF Inv, TypeInv
  <2> QED
    BY <2>1 DEF Inv, TypeInv, StopOne, handlers, MemoryOK
<1>2. HandlersOK'
  BY <1>1 DEF HandlersOK
<1>3. \A d \in Collection \ {reg[n]} : cols'[d] = cols[d]
  BY <1>1, CloseColProperties
<1>4. OneName' /\ DropIsOwn' /\ DownIsEmpty' /\ RegisteredIsOpen'
  BY <1>1 DEF ServedInv, OneName, DropIsOwn, DownIsEmpty, RegisteredIsOpen, Running
<1>5. NewIsOwn'
  BY <1>1, <1>3 DEF ServedInv, NewIsOwn, HandlersOK, Holding
<1> QED
  BY <1>2, <1>4, <1>5 DEF ServedInv

LEMMA TickNext ==
  ASSUME Inv, NEW c \in Collection, Tick(c)
  PROVE  HandlersOK' /\ ServedInv'
<1>1. /\ HandlersOK /\ MemoryOK /\ ServedInv /\ UNCHANGED <<process, stop, reg, pc, req, held>>
      /\ cols' = [cols EXCEPT ![c].buffer = {}]
  BY DEF Inv, TypeInv, Tick, stopping, handlers
<1>2. HandlersOK'
  BY <1>1 DEF HandlersOK
<1>3. \A d \in Collection : cols'[d].open = cols[d].open
  BY <1>1 DEF MemoryOK, Record
<1>4. OneName' /\ DropIsOwn' /\ DownIsEmpty'
  BY <1>1 DEF ServedInv, OneName, DropIsOwn, DownIsEmpty, Running
<1>5. NewIsOwn'
  BY <1>1, <1>3 DEF ServedInv, NewIsOwn, HandlersOK, Holding
<1>6. RegisteredIsOpen'
  <2>1. \A n \in Listed(reg) : reg[n] \in Collection
    BY <1>1 DEF MemoryOK, Listed
  <2> QED
    BY <1>1, <1>3, <2>1 DEF ServedInv, RegisteredIsOpen, Running, Listed
<1> QED
  BY <1>2, <1>4, <1>5, <1>6 DEF ServedInv

\* The steps that touch neither the map nor a collection nor a handler.
LEMMA LifeStepNext ==
  ASSUME Inv, Start \/ LoadDone \/ Signal \/ StopDone \/ UNCHANGED vars
  PROVE  HandlersOK' /\ ServedInv'
<1>1. HandlersOK /\ ServedInv /\ UNCHANGED <<reg, cols, pc, req, held>>
  BY DEF Inv, TypeInv, Start, LoadDone, Signal, StopDone, vars, handlers
<1>2. HandlersOK'
  BY <1>1 DEF HandlersOK
<1>3. OneName' /\ NewIsOwn' /\ DropIsOwn'
  BY <1>1 DEF ServedInv, OneName, NewIsOwn, DropIsOwn
<1>4. DownIsEmpty' /\ RegisteredIsOpen'
  <2>1. CASE Start
    <3>1. \A n \in Name : reg[n] = None
      BY <1>1, <2>1 DEF Start, ServedInv, DownIsEmpty, Running
    <3> QED
      BY <1>1, <3>1 DEF DownIsEmpty, RegisteredIsOpen, Listed
  <2>2. CASE UNCHANGED process /\ (UNCHANGED stop \/ stop' # "idle")
    BY <1>1, <2>2 DEF ServedInv, DownIsEmpty, RegisteredIsOpen, Running, Listed
  <2> QED
    BY <2>1, <2>2 DEF LoadDone, Signal, StopDone, vars, stopping
<1> QED
  BY <1>2, <1>3, <1>4 DEF ServedInv

LEMMA DownNext ==
  ASSUME Inv, Exit \/ Crash
  PROVE  HandlersOK' /\ ServedInv'
<1>1. Down /\ TypeInv
  BY DEF Exit, Crash, Inv
<1>2. HandlersOK'
  BY <1>1, DownEnds
<1>3. /\ ~Running' /\ \A n \in Name : reg'[n] = None
      /\ \A w \in Worker : pc'[w] = "idle"
  BY <1>1 DEF Down, Running
<1> QED
  BY <1>2, <1>3 DEF ServedInv, OneName, NewIsOwn, DropIsOwn, DownIsEmpty, RegisteredIsOpen

LEMMA InvInit == Init => Inv
<1> SUFFICES ASSUME Init PROVE Inv
  OBVIOUS
<1>1. ServedInv
  BY DEF Init, ServedInv, OneName, NewIsOwn, DropIsOwn, DownIsEmpty, RegisteredIsOpen, Running
<1> QED
  BY <1>1, TypeInit DEF Inv

LEMMA InvNext == Inv /\ [Next]_vars => Inv'
<1> SUFFICES ASSUME Inv, [Next]_vars PROVE Inv'
  OBVIOUS
<1>1. LifeOK' /\ HistoryOK' /\ DiskOK' /\ MemoryOK'
  BY LifeNext, HistoryNext, FilesNext DEF Inv
<1>2. HandlersOK' /\ ServedInv'
  <2>1. ASSUME NEW w \in Worker, Handle(w) \/ \E kind \in Kind, n \in Name : Request(w, kind, n)
        PROVE  HandlersOK' /\ ServedInv'
    BY <2>1, RequestNext, GetNext, CheckNext, OpenFileNext, RegisterNext, WriteNext,
       FindNext, RemoveFileNext, DeleteNext, CloseDroppedNext DEF Handle
  <2>2. CASE LoadStep \/ StopStep
    BY <2>2, LoadOneNext, StopOneNext, LifeStepNext, DownNext DEF LoadStep, StopStep
  <2>3. CASE Start \/ Signal \/ UNCHANGED vars
    BY <2>3, LifeStepNext
  <2> QED
    BY <2>1, <2>2, <2>3, TickNext, DownNext DEF Next
<1> QED
  BY <1>1, <1>2 DEF Inv, TypeInv

-----------------------------------------------------------------------------
LEMMA InvariantHolds == Spec => []Inv
  BY InvInit, InvNext, PTL DEF Spec

\* Every variable keeps its type: a handler that writes, registers or drops
\* has a collection and a name, wherever others drop or create it meanwhile.
THEOREM SpecTypeOK == Spec => []TypeOK
<1>1. TypeInv => TypeOK
  BY DEF TypeInv, LifeOK, HistoryOK, DiskOK, MemoryOK, HandlersOK, TypeOK, Step
<1> QED
  BY <1>1, InvariantHolds, PTL DEF Inv

\* Until Stop, every collection in the map is open, however many requests
\* create and drop collections of one name at the same time: a drop closes
\* the one it found, when that is in the map under no name any more.
THEOREM SpecRegisteredIsOpen == Spec => []RegisteredIsOpen
<1>1. Inv => RegisteredIsOpen
  BY DEF Inv, ServedInv
<1> QED
  BY <1>1, InvariantHolds, PTL

-----------------------------------------------------------------------------
\* The collection of a name in the map is the one of its file, and has what
\* was stored.
Mirror(n) ==
  IF dir[n] = None THEN reg[n] = None ELSE reg[n] # None /\ cols[reg[n]].file = dir[n]
Served(n) ==
  \A a \in acked : a[1] = n => reg[n] # None /\ dir[n] # None /\ a[2] \in cols[reg[n]].docs

\* Two names have two files, and an open collection has one.
FilesDiffer == \A m, n \in Name : dir[m] = dir[n] /\ dir[m] # None => m = n
OpenHasFile == \A c \in Collection : cols[c].open => cols[c].file \in File

\* Between two processes what was stored is in the files.
DownIsRestored ==
  ~Running =>
    /\ \A c \in Collection : ~cols[c].open
    /\ \A w \in Worker : pc[w] = "idle"
    /\ \A a \in acked : dir[a[1]] # None /\ a[2] \in content[dir[a[1]]]

\* Until Load has ended no request is let in, and the names are served that
\* the walk has behind it.
Up == Running /\ stop = "idle"
StatusFollows == Up => (status = "operating" <=> load = "done")
Loaded ==
  /\ \A w \in Worker : pc[w] = "idle"
  /\ \A c \in Collection : cols[c].open => \E m \in Name : reg[m] = c
  /\ \A n \in toLoad :
       /\ dir[n] # None /\ reg[n] = None
       /\ \A a \in acked : a[1] = n => a[2] \in content[dir[n]]
  /\ \A n \in Name \ toLoad : Mirror(n) /\ Served(n)
LoadInv == Up /\ load # "done" => Loaded

\* A request between its look at the map and its change of it: what it will
\* find there still, while no other is at the same name.
Busy(w) == pc[w] \in {"open", "register", "remove", "delete"}
Place(w) ==
  /\ pc[w] = "open" => reg[req[w].name] = None /\ dir[req[w].name] = None
  /\ pc[w] = "register" => reg[req[w].name] = None /\ dir[req[w].name] = cols[held[w]].file
  /\ pc[w] = "remove" => reg[req[w].name] = held[w] /\ dir[req[w].name] = cols[held[w]].file
  /\ pc[w] = "delete" => reg[req[w].name] = held[w] /\ dir[req[w].name] = None
BusyApart == \A v, w \in Worker : Busy(v) /\ Busy(w) /\ req[v].name = req[w].name => v = w
Undisturbed(n) == \A w \in Worker : ~Changing(w, n)
Mirrored ==
  /\ BusyApart
  /\ \A w \in Worker : Place(w)
  /\ \A n \in Name : Undisturbed(n) => Mirror(n)
  /\ \A n \in Name : Served(n)

\* No file is opened twice.
OneOpens ==
  \A c, d \in Collection : cols[c].open /\ cols[d].open /\ cols[c].file = cols[d].file => c = d
MirrorInv == Up /\ ~crossed => OneOpens /\ (load = "done" => Mirrored)

FilesInv == FilesDiffer /\ OpenHasFile
PhaseInv == DownIsRestored /\ StatusFollows /\ LoadInv
AllInv == FilesInv /\ PhaseInv /\ MirrorInv

LEMMA AllInit == Init => AllInv
<1> SUFFICES ASSUME Init PROVE AllInv
  OBVIOUS
<1>1. \A c \in Collection : ~cols[c].open
  BY DEF Init, Closed
<1>2. FilesInv
  BY <1>1 DEF FilesInv, FilesDiffer, OpenHasFile, Init
<1>3. ~Up /\ DownIsRestored
  BY <1>1 DEF Init, Up, Running, DownIsRestored
<1> QED
  BY <1>2, <1>3 DEF AllInv, PhaseInv, StatusFollows, LoadInv, MirrorInv

-----------------------------------------------------------------------------
\* Opening a name gives it a file of its own, or the one it has.
LEMMA OpenAsFiles ==
  ASSUME Inv, FilesInv, NEW n \in Name, NEW c \in Collection, OpenAs(c, n)
  PROVE  /\ FilesInv'
         /\ dir'[n] \in File /\ \A m \in Name \ {n} : dir'[m] = dir[m]
         /\ dir[n] # None => dir' = dir
         /\ dir[n] = None => \A d \in Collection : cols[d].file # dir'[n]
         /\ cols'[c].file = dir'[n] /\ cols'[c].docs = content[dir'[n]]
<1>1. DiskOK /\ MemoryOK /\ None \notin File
  BY DatabaseAssumption DEF Inv, TypeInv
<1>2. ASSUME NEW f \in File, cols' = [cols EXCEPT ![c] = Opened(f)]
      PROVE  /\ cols'[c].file = f /\ cols'[c].docs = content[f]
             /\ OpenHasFile'
  <2>1. cols'[c] = Opened(f) /\ \A d \in Collection \ {c} : cols'[d] = cols[d]
    BY <1>1, <1>2 DEF MemoryOK
  <2>2. Opened(f).file = f /\ Opened(f).docs = content[f]
    BY DEF Opened
  <2> QED
    BY <2>1, <2>2 DEF FilesInv, OpenHasFile
<1>3. CASE dir[n] # None
  <2>1. dir[n] \in File /\ dir' = dir /\ cols' = [cols EXCEPT ![c] = Opened(dir[n])]
    BY <1>1, <1>3 DEF OpenAs, DiskOK
  <2>2. cols'[c].file = dir[n] /\ cols'[c].docs = content[dir[n]] /\ OpenHasFile'
    BY <1>2, <2>1
  <2> QED
    BY <1>3, <2>1, <2>2 DEF FilesInv, FilesDiffer
<1>4. CASE dir[n] = None
  <2> DEFINE f == CHOOSE g \in Unlinked : TRUE
  <2>1. /\ f \in Unlinked
        /\ dir' = [dir EXCEPT ![n] = f] /\ cols' = [cols EXCEPT ![c] = Opened(f)]
    BY <1>4 DEF OpenAs
  <2> HIDE DEF f
  <2>2. /\ f \in File /\ \A m \in Name : dir[m] # f
        /\ \A d \in Collection : cols[d].file # f
    BY <2>1 DEF Unlinked, Linked
  <2>3. dir'[n] = f /\ \A m \in Name \ {n} : dir'[m] = dir[m]
    BY <1>1, <2>1 DEF DiskOK
  <2>4. cols'[c].file = f /\ cols'[c].docs = content[f] /\ OpenHasFile'
    BY <1>2, <2>1, <2>2
  <2>5. FilesDiffer'
    BY <2>2, <2>3 DEF FilesInv, FilesDiffer
  <2> QED
    BY <1>4, <2>2, <2>3, <2>4, <2>5 DEF FilesInv
<1> QED
  BY <1>3, <1>4

\* What the other steps do to the collections: none opens one.
NoneOpens ==
  \A c \in Collection : cols'[c].open => cols[c].open /\ cols'[c].file = cols[c].file

LEMMA ClosesOne ==
  ASSUME Inv, NEW c \in Collection, CloseCol(c)
  PROVE  NoneOpens
<1>1. CASE cols[c].open
  <2>1. cols'[c] = Closed /\ \A d \in Collection \ {c} : cols'[d] = cols[d]
    BY <1>1 DEF CloseCol, Inv, TypeInv, MemoryOK
  <2>2. ~Closed.open
    BY DEF Closed
  <2> QED
    BY <2>1, <2>2 DEF NoneOpens
<1>2. CASE ~cols[c].open
  BY <1>2 DEF CloseCol, NoneOpens
<1> QED
  BY <1>1, <1>2

LEMMA NoneOpensFiles ==
  ASSUME FilesInv, NoneOpens, \A n \in Name : dir'[n] \in {dir[n], None}
  PROVE  FilesInv' /\ (OneOpens => OneOpens')
<1>1. FilesDiffer'
  BY DEF FilesInv, FilesDiffer
<1>2. OpenHasFile'
  BY DEF FilesInv, OpenHasFile, NoneOpens
<1>3. OneOpens => OneOpens'
  BY DEF OneOpens, NoneOpens
<1> QED
  BY <1>1, <1>2, <1>3 DEF FilesInv

\* The collections that are in the map, or about to be.
Reached(c) ==
  (\E n \in Name : reg[n] = c) \/ \E w \in Worker : pc[w] = "register" /\ held[w] = c
Kept(c) == cols'[c].file = cols[c].file /\ cols[c].docs \subseteq cols'[c].docs

\* A step of a request at the name n, which no other request is at.
LEMMA MirroredStep ==
  ASSUME Inv, Mirrored, NEW w \in Worker, NEW n \in Name,
         \A v \in Worker \ {w} : /\ pc'[v] = pc[v] /\ req'[v] = req[v] /\ held'[v] = held[v]
                                 /\ ~Changing(v, n),
         Busy(w) => req[w].name = n, Busy(w)' => req'[w].name = n,
         \A m \in Name \ {n} : reg'[m] = reg[m] /\ dir'[m] = dir[m],
         \A a \in acked' : a \in acked \/ a[1] = n,
         \A c \in Collection : Reached(c) => Kept(c),
         Place(w)', ~Busy(w)' => Mirror(n)', Served(n)'
  PROVE  Mirrored'
<1>1. ASSUME NEW v \in Worker \ {w}
      PROVE  /\ pc'[v] = pc[v] /\ req'[v] = req[v] /\ held'[v] = held[v]
             /\ Busy(v) => req[v].name \in Name /\ req[v].name # n
  BY DEF Busy, Changing, Inv, TypeInv, HandlersOK
<1>2. /\ \A m \in Name : reg[m] \in Collection \cup {None}
      /\ \A v \in Worker : pc[v] \in Holding => held[v] \in Collection
      /\ None \notin Collection
  BY DatabaseAssumption DEF Inv, TypeInv, MemoryOK, HandlersOK
<1>3. BusyApart'
  <2> SUFFICES ASSUME NEW u \in Worker, NEW v \in Worker, Busy(u)', Busy(v)',
                      req'[u].name = req'[v].name
               PROVE  u = v
    BY DEF BusyApart
  <2>1. ASSUME NEW x \in Worker \ {w}, Busy(x)'
        PROVE  Busy(x) /\ req'[x].name = req[x].name /\ req[x].name # n
    BY <1>1, <2>1 DEF Busy
  <2>2. CASE u # w /\ v # w
    BY <2>1, <2>2 DEF Mirrored, BusyApart
  <2>3. CASE u = w /\ v # w
    BY <2>1, <2>3
  <2>4. CASE u # w /\ v = w
    BY <2>1, <2>4
  <2> QED
    BY <2>2, <2>3, <2>4
<1>4. ASSUME NEW v \in Worker \ {w} PROVE Place(v)'
  <2>1. Place(v) /\ pc'[v] = pc[v] /\ req'[v] = req[v] /\ held'[v] = held[v]
    BY <1>1 DEF Mirrored
  <2>2. CASE ~Busy(v)
    BY <2>1, <2>2 DEF Place, Busy
  <2>3. CASE Busy(v)
    <3>1. reg'[req[v].name] = reg[req[v].name] /\ dir'[req[v].name] = dir[req[v].name]
      BY <1>1, <2>3
    <3>2. pc[v] \in {"register", "remove"} => cols'[held[v]].file = cols[held[v]].file
      <4> SUFFICES ASSUME pc[v] \in {"register", "remove"}
                   PROVE  cols'[held[v]].file = cols[held[v]].file
        OBVIOUS
      <4>1. Reached(held[v])
        BY <1>1, <2>1, <2>3, v \in Worker DEF Reached, Place
      <4>2. held[v] \in Collection
        BY <1>2 DEF Holding
      <4> QED
        BY <4>1, <4>2 DEF Kept
    <3> QED
      BY <2>1, <3>1, <3>2 DEF Place
  <2> QED
    BY <2>2, <2>3
<1>5. ASSUME NEW m \in Name \ {n}, Undisturbed(m)' PROVE Mirror(m)'
  <2>1. \A v \in Worker : ~Changing(v, m)
    <3> SUFFICES ASSUME NEW v \in Worker, Changing(v, m) PROVE FALSE
      OBVIOUS
    <3>1. Busy(v) /\ v # w
      BY DEF Changing, Busy
    <3>2. Changing(v, m)'
      BY <3>1 DEF Changing
    <3> QED
      BY <1>5, <3>2 DEF Undisturbed
  <2>2. Mirror(m)
    BY <2>1 DEF Mirrored, Undisturbed
  <2>3. reg[m] # None => cols'[reg[m]].file = cols[reg[m]].file
    BY <1>2 DEF Reached, Kept
  <2> QED
    BY <2>2, <2>3 DEF Mirror
<1>6. ASSUME NEW m \in Name \ {n} PROVE Served(m)'
  <2> SUFFICES ASSUME NEW a \in acked', a[1] = m
               PROVE  reg'[m] # None /\ dir'[m] # None /\ a[2] \in cols'[reg'[m]].docs
    BY DEF Served
  <2>1. reg[m] # None /\ dir[m] # None /\ a[2] \in cols[reg[m]].docs
    BY DEF Mirrored, Served
  <2>2. cols[reg[m]].docs \subseteq cols'[reg[m]].docs
    BY <1>2, <2>1 DEF Reached, Kept
  <2> QED
    BY <2>1, <2>2
<1>7. Undisturbed(n)' => Mirror(n)'
  BY DEF Undisturbed, Changing, Busy
<1> QED
  BY <1>3, <1>4, <1>5, <1>6, <1>7 DEF Mirrored

\* A step that changes neither map nor directory, and no request at a name.
LEMMA MirroredAside ==
  ASSUME Inv, Mirrored, UNCHANGED <<reg, dir>>,
         \A v \in Worker : \/ ~Busy(v) /\ ~Busy(v)'
                           \/ pc'[v] = pc[v] /\ req'[v] = req[v] /\ held'[v] = held[v],
         \A c \in Collection : Reached(c) => Kept(c),
         \A a \in acked' : \/ a \in acked
                           \/ /\ reg[a[1]] # None /\ dir[a[1]] # None
                              /\ a[2] \in cols'[reg[a[1]]].docs
  PROVE  Mirrored'
<1>1. /\ \A m \in Name : reg[m] \in Collection \cup {None}
      /\ \A v \in Worker : pc[v] \in Holding => held[v] \in Collection
      /\ \A v \in Worker : pc[v] # "idle" => req[v].name \in Name
      /\ None \notin Collection
  BY DatabaseAssumption DEF Inv, TypeInv, MemoryOK, HandlersOK
<1>2. BusyApart'
  BY DEF Mirrored, BusyApart, Busy
<1>3. ASSUME NEW v \in Worker PROVE Place(v)'
  <2>1. CASE ~Busy(v)'
    BY <2>1 DEF Place, Busy
  <2>2. CASE Busy(v)'
    <3>1. Place(v) /\ pc'[v] = pc[v] /\ req'[v] = req[v] /\ held'[v] = held[v]
      BY <2>2 DEF Mirrored
    <3>2. pc[v] \in {"register", "remove"} => cols'[held[v]].file = cols[held[v]].file
      <4> SUFFICES ASSUME pc[v] \in {"register", "remove"}
                   PROVE  cols'[held[v]].file = cols[held[v]].file
        OBVIOUS
      <4>1. Reached(held[v]) /\ held[v] \in Collection
        BY <1>1, <3>1 DEF Reached, Place, Holding
      <4> QED
        BY <4>1 DEF Kept
    <3> QED
      BY <3>1, <3>2 DEF Place
  <2> QED
    BY <2>1, <2>2
<1>4. ASSUME NEW n \in Name, Undisturbed(n)' PROVE Mirror(n)'
  <2>1. Undisturbed(n)
    BY <1>4 DEF Undisturbed, Changing, Busy
  <2>2. Mirror(n)
    BY <2>1 DEF Mirrored
  <2>3. reg[n] # None => cols'[reg[n]].file = cols[reg[n]].file
    BY <1>1 DEF Reached, Kept
  <2> QED
    BY <2>2, <2>3 DEF Mirror
<1>5. ASSUME NEW n \in Name PROVE Served(n)'
  <2> SUFFICES ASSUME NEW a \in acked', a[1] = n
               PROVE  reg[n] # None /\ dir[n] # None /\ a[2] \in cols'[reg[n]].docs
    BY DEF Served
  <2>1. CASE a \in acked
    <3>1. reg[n] # None /\ dir[n] # None /\ a[2] \in cols[reg[n]].docs
      BY <2>1 DEF Mirrored, Served
    <3>2. cols[reg[n]].docs \subseteq cols'[reg[n]].docs
      BY <1>1, <3>1 DEF Reached, Kept
    <3> QED
      BY <3>1, <3>2
  <2>2. CASE a \notin acked
    BY <2>2
  <2> QED
    BY <2>1, <2>2
<1> QED
  BY <1>2, <1>3, <1>4, <1>5 DEF Mirrored

-----------------------------------------------------------------------------
\* A look at the map, or an answer that changed nothing.
LEMMA LooksMirror ==
  ASSUME Inv, Mirrored, NEW w \in Worker, UNCHANGED <<reg, dir, cols, acked>>,
         ~Busy(w), ~Busy(w)',
         \A v \in Worker \ {w} : pc'[v] = pc[v] /\ req'[v] = req[v] /\ held'[v] = held[v]
  PROVE  Mirrored'
<1>1. \A c \in Collection : Kept(c)
  BY DEF Kept
<1> QED
  BY <1>1, MirroredAside

LEMMA RequestMirror ==
  ASSUME Inv, Mirrored, NEW w \in Worker, NEW kind \in Kind, NEW n \in Name, Request(w, kind, n)
  PROVE  Mirrored'
<1>1. /\ pc[w] = "idle" /\ pc'[w] \in {"get", "check", "find"}
      /\ \A v \in Worker \ {w} : pc'[v] = pc[v] /\ req'[v] = req[v] /\ held'[v] = held[v]
  BY DEF Request, At, Goto, Inv, TypeInv, HandlersOK
<1>2. UNCHANGED <<reg, dir, cols, acked>>
  BY DEF Request, disk, history
<1> QED
  BY <1>1, <1>2, LooksMirror DEF Busy

LEMMA GetMirror ==
  ASSUME Inv, Mirrored, NEW w \in Worker, Get(w)
  PROVE  Mirrored'
<1>1. /\ pc[w] = "get" /\ pc'[w] \in {"check", "write"}
      /\ \A v \in Worker \ {w} : pc'[v] = pc[v] /\ req'[v] = req[v] /\ held'[v] = held[v]
  BY DEF Get, At, Goto, Inv, TypeInv, HandlersOK
<1>2. UNCHANGED <<reg, dir, cols, acked>>
  BY DEF Get, disk, history
<1> QED
  BY <1>1, <1>2, LooksMirror DEF Busy

\* A creation and a drop that no other crosses find the name as it is.
LEMMA CheckMirror ==
  ASSUME Inv, Mirrored, NEW w \in Worker, Check(w), ~crossed'
  PROVE  Mirrored'
<1>1. /\ pc[w] = "check" /\ req[w].name \in Name /\ HandlersOK /\ HistoryOK
      /\ UNCHANGED <<reg, dir, cols, acked>>
  BY DEF Check, At, Inv, TypeInv, HandlersOK, disk
<1> PICK n \in Name : req[w].name = n
  BY <1>1
<1>2. CASE Answer(w)
  <2>1. pc'[w] = "idle" /\ \A v \in Worker \ {w} : pc'[v] = pc[v] /\ req'[v] = req[v] /\ held'[v] = held[v]
    BY <1>1, <1>2, AnswerEnds
  <2> QED
    BY <1>1, <2>1, LooksMirror DEF Busy
<1>3. CASE ~Answer(w)
  <2>1. Goto(w, "open") /\ UNCHANGED <<req, held>> /\ ~Crosses(w) /\ reg[n] = None
    BY <1>3 DEF Check
  <2>2. pc'[w] = "open" /\ \A v \in Worker \ {w} : pc'[v] = pc[v]
    BY <1>1, <2>1, GotoStep DEF Step
  <2>3. \A v \in Worker \ {w} : ~Changing(v, n)
    BY <2>1 DEF Crosses
  <2>4. Mirror(n) /\ Served(n)
    BY <1>1, <2>3 DEF Mirrored, Undisturbed, Changing
  <2>5. Place(w)'
    BY <1>1, <2>1, <2>2, <2>4 DEF Place, Mirror
  <2>6. Served(n)' /\ \A c \in Collection : Kept(c)
    BY <1>1, <2>4 DEF Served, Kept
  <2>7. Busy(w)' /\ req'[w].name = n
    BY <2>1, <2>2 DEF Busy
  <2>8. ~Busy(w)
    BY <1>1 DEF Busy
  <2> QED
    BY <1>1, <2>1, <2>2, <2>3, <2>5, <2>6, <2>7, <2>8, MirroredStep
<1> QED
  BY <1>2, <1>3

LEMMA FindMirror ==
  ASSUME Inv, Mirrored, NEW w \in Worker, Find(w), ~crossed'
  PROVE  Mirrored'
<1>1. /\ pc[w] = "find" /\ req[w].name \in Name /\ HandlersOK /\ HistoryOK
      /\ UNCHANGED <<reg, dir, cols, acked>>
  BY DEF Find, At, Inv, TypeInv, HandlersOK, disk
<1> PICK n \in Name : req[w].name = n
  BY <1>1
<1>2. CASE Answer(w)
  <2>1. pc'[w] = "idle" /\ \A v \in Worker \ {w} : pc'[v] = pc[v] /\ req'[v] = req[v] /\ held'[v] = held[v]
    BY <1>1, <1>2, AnswerEnds
  <2> QED
    BY <1>1, <2>1, LooksMirror DEF Busy
<1>3. CASE ~Answer(w)
  <2>1. /\ Goto(w, "remove") /\ UNCHANGED req /\ held' = [held EXCEPT ![w] = reg[n]]
        /\ ~Crosses(w) /\ reg[n] # None
    BY <1>3 DEF Find
  <2>2. pc'[w] = "remove" /\ \A v \in Worker \ {w} : pc'[v] = pc[v]
    BY <1>1, <2>1, GotoStep DEF Step
  <2>3. held'[w] = reg[n] /\ \A v \in Worker \ {w} : held'[v] = held[v]
    BY <1>1, <2>1 DEF HandlersOK
  <2>4. \A v \in Worker \ {w} : ~Changing(v, n)
    BY <2>1 DEF Crosses
  <2>5. Mirror(n) /\ Served(n)
    BY <1>1, <2>4 DEF Mirrored, Undisturbed, Changing
  <2>6. Place(w)'
    BY <1>1, <2>1, <2>2, <2>3, <2>5 DEF Place, Mirror
  <2>7. Served(n)' /\ \A c \in Collection : Kept(c)
    BY <1>1, <2>5 DEF Served, Kept
  <2>8. Busy(w)' /\ req'[w].name = n
    BY <2>1, <2>2 DEF Busy
  <2>9. ~Busy(w)
    BY <1>1 DEF Busy
  <2> QED
    BY <1>1, <2>1, <2>2, <2>3, <2>4, <2>6, <2>7, <2>8, <2>9, MirroredStep
<1> QED
  BY <1>2, <1>3

\* A request that has its name for itself.
LEMMA NameToOne ==
  ASSUME Mirrored, NEW w \in Worker, Busy(w), NEW n \in Name, req[w].name = n
  PROVE  \A v \in Worker \ {w} : ~Changing(v, n)
  BY DEF Mirrored, BusyApart, Busy, Changing

\* A name that is not in the map has nothing to serve.
LEMMA NothingServed ==
  ASSUME Mirrored, NEW n \in Name, reg[n] = None \/ dir[n] = None, NEW a \in acked
  PROVE  a[1] # n
  BY DEF Mirrored, Served

\* What is in the map is open, and has a file.
LEMMA RegisteredHasFile ==
  ASSUME Inv, FilesInv, Up, NEW n \in Name, reg[n] # None
  PROVE  reg[n] \in Collection /\ cols[reg[n]].open /\ cols[reg[n]].file \in File
<1>1. reg[n] \in Collection
  BY DEF Inv, TypeInv, MemoryOK
<1>2. cols[reg[n]].open
  BY DEF Inv, ServedInv, RegisteredIsOpen, Up, Listed
<1> QED
  BY <1>1, <1>2 DEF FilesInv, OpenHasFile

\* A creation makes a file that no collection has.
LEMMA OpenFileMirror ==
  ASSUME Inv, FilesInv, OneOpens, Mirrored, NEW w \in Worker, NEW c \in Collection, OpenFile(w, c)
  PROVE  OneOpens' /\ Mirrored'
<1>1. /\ pc[w] = "open" /\ req[w].name \in Name /\ HandlersOK /\ DiskOK /\ MemoryOK
      /\ UNCHANGED <<reg, req, acked>> /\ Goto(w, "register")
      /\ held' = [held EXCEPT ![w] = c]
  BY DEF OpenFile, At, Inv, TypeInv, HandlersOK, history
<1> PICK n \in Name : req[w].name = n
  BY <1>1
<1>2. OpenAs(c, n) /\ reg[n] = None /\ dir[n] = None
  BY <1>1 DEF OpenFile, Mirrored, Place
<1>3. /\ (\A m \in Name \ {n} : dir'[m] = dir[m])
      /\ (\A d \in Collection : cols[d].file # dir'[n])
      /\ cols'[c].file = dir'[n]
  BY <1>2, OpenAsFiles
<1>4. c \in Spare /\ \A d \in Collection \ {c} : cols'[d] = cols[d]
  BY <1>1, <1>2, OpenAsProperties
<1>5. OneOpens'
  <2>1. \A d \in Collection \ {c} : cols'[d].file # cols'[c].file
    BY <1>3, <1>4
  <2> QED
    BY <1>4, <2>1 DEF OneOpens
<1>6. /\ pc'[w] = "register" /\ held'[w] = c
      /\ \A v \in Worker \ {w} : pc'[v] = pc[v] /\ held'[v] = held[v]
  BY <1>1, GotoStep DEF Step, HandlersOK
<1>7. Busy(w) /\ Busy(w)'
  BY <1>1, <1>6 DEF Busy
<1>8. \A v \in Worker \ {w} : ~Changing(v, n)
  BY <1>7, NameToOne
<1>9. Place(w)'
  BY <1>1, <1>2, <1>3, <1>6 DEF Place
<1>10. Served(n)'
  BY <1>1, <1>2, NothingServed DEF Served
<1>11. ASSUME NEW d \in Collection, Reached(d) PROVE Kept(d)
  <2>1. d # c
    BY <1>4, <1>11 DEF Reached, Spare, InUse
  <2> QED
    BY <1>4, <2>1 DEF Kept
<1>12. Mirrored'
  BY <1>1, <1>3, <1>6, <1>7, <1>8, <1>9, <1>10, <1>11, MirroredStep
<1> QED
  BY <1>5, <1>12

LEMMA RegisterMirror ==
  ASSUME Inv, FilesInv, Mirrored, NEW w \in Worker, Register(w)
  PROVE  Mirrored'
<1>1. /\ pc[w] = "register" /\ req[w].name \in Name /\ held[w] \in Collection
      /\ HandlersOK /\ MemoryOK /\ UNCHANGED <<dir, cols, acked>>
      /\ Answer(w) \/ (Goto(w, "write") /\ UNCHANGED <<req, held>>)
  BY DEF Register, At, Inv, TypeInv, HandlersOK, Holding, disk, history
<1> PICK n \in Name : req[w].name = n
  BY <1>1
<1>2. reg[n] = None /\ dir[n] = cols[held[w]].file
  BY <1>1 DEF Mirrored, Place
<1>3. dir[n] \in File /\ None \notin Collection \cup File
  BY <1>1, <1>2, DatabaseAssumption DEF Inv, ServedInv, NewIsOwn, FilesInv, OpenHasFile
<1>4. reg'[n] = held[w] /\ \A m \in Name \ {n} : reg'[m] = reg[m]
  BY <1>1 DEF Register, MemoryOK
<1>5. /\ pc'[w] \in {"idle", "write"}
      /\ \A v \in Worker \ {w} : pc'[v] = pc[v] /\ req'[v] = req[v] /\ held'[v] = held[v]
  BY <1>1, GotoStep, AnswerEnds DEF Step
<1>6. Busy(w) /\ ~Busy(w)'
  BY <1>1, <1>5 DEF Busy
<1>7. \A v \in Worker \ {w} : ~Changing(v, n)
  BY <1>6, NameToOne
<1>8. Place(w)'
  BY <1>5 DEF Place
<1>9. Mirror(n)'
  BY <1>1, <1>2, <1>3, <1>4 DEF Mirror
<1>10. Served(n)' /\ \A c \in Collection : Kept(c)
  BY <1>1, <1>2, NothingServed DEF Served, Kept
<1> QED
  BY <1>1, <1>4, <1>5, <1>6, <1>7, <1>8, <1>9, <1>10, MirroredStep

\* The file of a collection that is still in the map is there to be removed.
LEMMA RemoveFileMirror ==
  ASSUME Inv, FilesInv, Up, Mirrored, NEW w \in Worker, RemoveFile(w)
  PROVE  Mirrored'
<1>1. /\ pc[w] = "remove" /\ req[w].name \in Name /\ held[w] \in Collection
      /\ HandlersOK /\ DiskOK /\ UNCHANGED <<reg, cols>>
  BY DEF RemoveFile, At, Inv, TypeInv, HandlersOK, Holding
<1> PICK n \in Name : req[w].name = n
  BY <1>1
<1>2. reg[n] = held[w] /\ dir[n] = cols[held[w]].file
  BY <1>1 DEF Mirrored, Place
<1>3. dir[n] # None
  BY <1>1, <1>2, RegisteredHasFile, DatabaseAssumption
<1>4. /\ dir' = [dir EXCEPT ![n] = None] /\ acked' = {a \in acked : a[1] # n}
      /\ Goto(w, "delete") /\ UNCHANGED <<req, held>>
  BY <1>3 DEF RemoveFile
<1>5. dir'[n] = None /\ \A m \in Name \ {n} : dir'[m] = dir[m]
  BY <1>1, <1>4 DEF DiskOK
<1>6. pc'[w] = "delete" /\ \A v \in Worker \ {w} : pc'[v] = pc[v]
  BY <1>1, <1>4, GotoStep DEF Step
<1>7. Busy(w) /\ Busy(w)'
  BY <1>1, <1>6 DEF Busy
<1>8. \A v \in Worker \ {w} : ~Changing(v, n)
  BY <1>7, NameToOne
<1>9. Place(w)'
  BY <1>1, <1>2, <1>4, <1>5, <1>6 DEF Place
<1>10. Served(n)' /\ \A c \in Collection : Kept(c)
  BY <1>1, <1>4 DEF Served, Kept
<1> QED
  BY <1>1, <1>4, <1>5, <1>6, <1>7, <1>8, <1>9, <1>10, MirroredStep

LEMMA DeleteMirror ==
  ASSUME Inv, Mirrored, NEW w \in Worker, Delete(w)
  PROVE  Mirrored'
<1>1. /\ pc[w] = "delete" /\ req[w].name \in Name
      /\ HandlersOK /\ MemoryOK /\ UNCHANGED <<dir, cols, acked, req, held>> /\ Goto(w, "close")
  BY DEF Delete, At, Inv, TypeInv, HandlersOK, disk, history
<1> PICK n \in Name : req[w].name = n
  BY <1>1
<1>2. dir[n] = None
  BY <1>1 DEF Mirrored, Place
<1>3. reg'[n] = None /\ \A m \in Name \ {n} : reg'[m] = reg[m]
  BY <1>1 DEF Delete, MemoryOK
<1>4. pc'[w] = "close" /\ \A v \in Worker \ {w} : pc'[v] = pc[v]
  BY <1>1, GotoStep DEF Step
<1>5. Busy(w) /\ ~Busy(w)'
  BY <1>1, <1>4 DEF Busy
<1>6. \A v \in Worker \ {w} : ~Changing(v, n)
  BY <1>5, NameToOne
<1>7. Place(w)' /\ Mirror(n)'
  BY <1>1, <1>2, <1>3, <1>4 DEF Place, Mirror
<1>8. Served(n)' /\ \A c \in Collection : Kept(c)
  BY <1>1, <1>2, NothingServed DEF Served, Kept
<1> QED
  BY <1>1, <1>3, <1>4, <1>5, <1>6, <1>7, <1>8, MirroredStep

\* A drop closes what is in the map under no name, and to be put there by none.
LEMMA CloseDroppedMirror ==
  ASSUME Inv, Mirrored, NEW w \in Worker, CloseDropped(w)
  PROVE  Mirrored'
<1>1. /\ pc[w] = "close" /\ held[w] \in Collection /\ HandlersOK /\ DiskOK /\ MemoryOK
      /\ UNCHANGED <<reg, dir, acked>> /\ CloseCol(held[w]) /\ Answer(w)
  BY DEF CloseDropped, At, Inv, TypeInv, HandlersOK, Holding, history
<1>2. /\ pc'[w] = "idle"
      /\ \A v \in Worker \ {w} : pc'[v] = pc[v] /\ req'[v] = req[v] /\ held'[v] = held[v]
  BY <1>1, AnswerEnds
<1>3. \A c \in Collection \ {held[w]} : Kept(c)
  BY <1>1, CloseColProperties DEF Kept
<1>4. ~Reached(held[w])
  <2>1. \A n \in Name : reg[n] # held[w]
    BY <1>1 DEF Inv, ServedInv, DropIsOwn
  <2>2. \A v \in Worker : pc[v] = "register" => held[v] # held[w]
    BY <1>1 DEF Inv, ServedInv, NewIsOwn
  <2> QED
    BY <2>1, <2>2 DEF Reached
<1>5. ~Busy(w) /\ ~Busy(w)'
  BY <1>1, <1>2 DEF Busy
<1> QED
  BY <1>1, <1>2, <1>3, <1>4, <1>5, MirroredAside

LEMMA TickMirror ==
  ASSUME Inv, Mirrored, NEW c \in Collection, Tick(c)
  PROVE  Mirrored'
<1>1. MemoryOK /\ UNCHANGED <<reg, dir, acked, pc, req, held>>
  BY DEF Tick, Inv, TypeInv, handlers, history
<1>2. \A d \in Collection : Kept(d)
  BY <1>1 DEF Tick, MemoryOK, Record, Kept
<1> QED
  BY <1>1, <1>2, MirroredAside

\* What a request stores in the file of its name is stored in the collection
\* of the map: there is no other open one of that file.
LEMMA WriteMirror ==
  ASSUME Inv, FilesInv, Up, OneOpens, Mirrored, NEW w \in Worker, NEW x \in Doc, Write(w, x)
  PROVE  Mirrored'
<1>1. /\ pc[w] = "write" /\ req[w].name \in Name /\ held[w] \in Collection
      /\ HandlersOK /\ MemoryOK /\ UNCHANGED <<reg, dir>> /\ Answer(w)
  BY DEF Write, At, Inv, TypeInv, HandlersOK, Holding, disk
<1> PICK n \in Name : req[w].name = n
  BY <1>1
<1> PICK c \in Collection : held[w] = c
  BY <1>1
<1>2. /\ pc'[w] = "idle"
      /\ \A v \in Worker \ {w} : pc'[v] = pc[v] /\ req'[v] = req[v] /\ held'[v] = held[v]
  BY <1>1, AnswerEnds
<1>3. ~Busy(w) /\ ~Busy(w)'
  BY <1>1, <1>2 DEF Busy
<1>4. CASE ~(cols[c].open /\ dir[n] = cols[c].file)
  <2>1. acked' = acked
    BY <1>4 DEF Write
  <2>2. \A d \in Collection : Kept(d)
    BY <1>1 DEF Write, MemoryOK, Record, Kept
  <2> QED
    BY <1>1, <1>2, <1>3, <2>1, <2>2, MirroredAside
<1>5. CASE cols[c].open /\ dir[n] = cols[c].file
  <2>1. /\ cols' = [cols EXCEPT ![c].docs = @ \cup {x}, ![c].buffer = @ \cup {x}]
        /\ acked' = acked \cup {<<n, x>>}
    BY <1>5 DEF Write
  <2>2. (\A d \in Collection : Kept(d)) /\ x \in cols'[c].docs
    BY <1>1, <2>1 DEF MemoryOK, Record, Kept
  <2>3. dir[n] # None
    BY <1>5, DatabaseAssumption DEF FilesInv, OpenHasFile
  <2>4. ASSUME NEW d \in Collection, cols[d].open, cols[d].file = dir[n] PROVE d = c
    BY <1>5, <2>4 DEF OneOpens
  <2>5. reg[n] # None /\ cols[reg[n]].file = dir[n]
    <3>1. CASE Undisturbed(n)
      BY <2>3, <3>1 DEF Mirrored, Mirror
    <3>2. ASSUME NEW v \in Worker, Changing(v, n)
          PROVE  reg[n] # None /\ cols[reg[n]].file = dir[n]
      <4>1. Place(v) /\ req[v].name = n /\ pc[v] \in {"open", "register", "remove", "delete"}
        BY <3>2 DEF Mirrored, Changing
      <4>2. pc[v] \in {"register", "remove"} /\ held[v] \in Collection
        BY <1>1, <2>3, <4>1 DEF Place, HandlersOK, Holding
      <4>3. pc[v] # "register"
        <5> SUFFICES ASSUME pc[v] = "register" PROVE FALSE
          OBVIOUS
        <5>1. cols[held[v]].open /\ held[w] # held[v]
          BY <1>1 DEF Inv, ServedInv, NewIsOwn
        <5>2. cols[held[v]].file = dir[n]
          BY <4>1 DEF Place
        <5> QED
          BY <2>4, <4>2, <5>1, <5>2
      <4> QED
        BY <4>1, <4>2, <4>3, DatabaseAssumption DEF Place
    <3> QED
      BY <3>1, <3>2 DEF Undisturbed
  <2>6. reg[n] = c
    BY <2>4, <2>5, RegisteredHasFile
  <2>7. reg[n] # None /\ dir[n] # None /\ x \in cols'[reg[n]].docs
    BY <2>2, <2>3, <2>5, <2>6
  <2>8. \A a \in acked' : a \in acked \/ (a[1] = n /\ a[2] = x)
    BY <2>1
  <2> QED
    BY <1>1, <1>2, <1>3, <2>2, <2>7, <2>8, MirroredAside
<1> QED
  BY <1>4, <1>5

-----------------------------------------------------------------------------
\* A step opens one name, or it opens none and makes no file.
Shrinks == NoneOpens /\ \A n \in Name : dir'[n] \in {dir[n], None}

LEMMA HandlerOpens ==
  ASSUME Inv, NEW w \in Worker,
         Handle(w) \/ \E kind \in Kind, n \in Name : Request(w, kind, n)
  PROVE  Shrinks \/ \E c \in Collection : OpenFile(w, c)
<1>1. HandlersOK /\ MemoryOK /\ DiskOK
  BY DEF Inv, TypeInv
<1>2. ASSUME NEW x \in Doc, Write(w, x) PROVE Shrinks
  BY <1>1, <1>2 DEF Write, At, HandlersOK, Holding, MemoryOK, Record, Shrinks, NoneOpens, disk
<1>3. CASE RemoveFile(w)
  BY <1>1, <1>3 DEF RemoveFile, DiskOK, Shrinks, NoneOpens
<1>4. CASE CloseDropped(w)
  <2>1. held[w] \in Collection /\ CloseCol(held[w]) /\ UNCHANGED dir
    BY <1>1, <1>4 DEF CloseDropped, At, HandlersOK, Holding
  <2> QED
    BY <2>1, ClosesOne DEF Shrinks
<1>5. CASE \/ Get(w) \/ Check(w) \/ Register(w) \/ Find(w) \/ Delete(w)
           \/ \E kind \in Kind, n \in Name : Request(w, kind, n)
  <2>1. UNCHANGED <<dir, cols>>
    BY <1>5 DEF Get, Check, Register, Find, Delete, Request, disk
  <2> QED
    BY <2>1 DEF Shrinks, NoneOpens
<1> QED
  BY <1>2, <1>3, <1>4, <1>5 DEF Handle

LEMMA OpensOrNot ==
  ASSUME Inv, [Next]_vars
  PROVE  Shrinks \/ \E c \in Collection, n \in Name : OpenAs(c, n)
<1>1. HandlersOK /\ MemoryOK
  BY DEF Inv, TypeInv
<1>2. ASSUME UNCHANGED <<dir, cols>> PROVE Shrinks
  BY <1>2 DEF Shrinks, NoneOpens
<1>3. ASSUME NEW w \in Worker, NEW c \in Collection, OpenFile(w, c)
      PROVE  \E n \in Name : OpenAs(c, n)
  BY <1>1, <1>3 DEF OpenFile, At, HandlersOK
<1>4. ASSUME NEW n \in Name, NEW c \in Collection, LoadOne(n, c)
      PROVE  OpenAs(c, n) \/ UNCHANGED <<dir, cols>>
  BY <1>4 DEF LoadOne
<1>5. ASSUME NEW n \in Name, StopOne(n) PROVE Shrinks
  <2>1. reg[n] \in Collection /\ CloseCol(reg[n]) /\ UNCHANGED dir
    BY <1>1, <1>5 DEF StopOne, MemoryOK
  <2> QED
    BY <2>1, ClosesOne DEF Shrinks
<1>6. ASSUME NEW c \in Collection, Tick(c) PROVE Shrinks
  BY <1>1, <1>6 DEF Tick, MemoryOK, Record, Shrinks, NoneOpens
<1>7. ASSUME Exit \/ Crash PROVE Shrinks
  <2>1. UNCHANGED dir /\ cols' = [c \in Collection |-> Closed]
    BY <1>7 DEF Exit, Crash, Down
  <2> QED
    BY <2>1 DEF Shrinks, NoneOpens, Closed
<1>8. ASSUME Start \/ LoadDone \/ Signal \/ StopDone \/ UNCHANGED vars
      PROVE  UNCHANGED <<dir, cols>>
  BY <1>8 DEF Start, LoadDone, Signal, StopDone, vars, disk
<1> QED
  BY HandlerOpens, <1>2, <1>3, <1>4, <1>5, <1>6, <1>7, <1>8 DEF Next, LoadStep, StopStep

LEMMA FilesInvNext ==
  ASSUME Inv, FilesInv, [Next]_vars
  PROVE  FilesInv'
<1>1. CASE \E c \in Collection, n \in Name : OpenAs(c, n)
  BY <1>1, OpenAsFiles
<1>2. CASE Shrinks
  BY <1>2, NoneOpensFiles DEF Shrinks
<1> QED
  BY <1>1, <1>2, OpensOrNot

\* The steps of a request, while requests are let in.
LEMMA HandlerMirror ==
  ASSUME Inv, FilesInv, Up, OneOpens, Mirrored, ~crossed', NEW w \in Worker,
         Handle(w) \/ \E kind \in Kind, n \in Name : Request(w, kind, n)
  PROVE  OneOpens' /\ Mirrored'
<1>1. CASE \E c \in Collection : OpenFile(w, c)
  BY <1>1, OpenFileMirror
<1>2. CASE ~\E c \in Collection : OpenFile(w, c)
  <2>1. Mirrored'
    BY <1>2, RequestMirror, GetMirror, CheckMirror, RegisterMirror, WriteMirror, FindMirror,
       RemoveFileMirror, DeleteMirror, CloseDroppedMirror DEF Handle
  <2>2. OneOpens'
    BY <1>2, HandlerOpens, NoneOpensFiles DEF Shrinks
  <2> QED
    BY <2>1, <2>2
<1> QED
  BY <1>1, <1>2

-----------------------------------------------------------------------------
\* What a crash or an exit leaves is what the files have.
LEMMA DownRestored ==
  ASSUME Down
  PROVE  DownIsRestored' /\ ~Up'
<1>1. /\ ~Running' /\ UNCHANGED <<dir, content>>
      /\ cols' = [c \in Collection |-> Closed]
      /\ pc' = [w \in Worker |-> "idle"] /\ acked' = OnDisk(dir, content)
  BY DEF Down, Running
<1> QED
  BY <1>1 DEF DownIsRestored, OnDisk, Up, Closed

\* The walk begins with every file, an empty map and no request.
LEMMA StartLoads ==
  ASSUME Inv, DownIsRestored, Start
  PROVE  Loaded' /\ load' = "walking" /\ status' = "opening"
<1>1. /\ ~Running /\ load' = "walking" /\ status' = "opening" /\ toLoad' = Listed(dir)
      /\ UNCHANGED <<dir, content, reg, cols, pc, acked>>
  BY DEF Start, Running, disk, handlers, history
<1>2. \A n \in Name : reg[n] = None
  BY <1>1 DEF Inv, ServedInv, DownIsEmpty
<1>3. /\ \A c \in Collection : ~cols[c].open
      /\ \A w \in Worker : pc[w] = "idle"
      /\ \A a \in acked : dir[a[1]] # None /\ a[2] \in content[dir[a[1]]]
  BY <1>1 DEF DownIsRestored
<1> QED
  BY <1>1, <1>2, <1>3 DEF Loaded, Listed, Mirror, Served

\* The walk opens the file of a name that is not in the map: no other name
\* has that file.
LEMMA LoadOneLoads ==
  ASSUME Inv, FilesInv, Loaded, NEW n \in Name, NEW c \in Collection, LoadOne(n, c)
  PROVE  Loaded' /\ (OneOpens => OneOpens')
<1>1. /\ MemoryOK /\ DiskOK /\ n \in toLoad /\ toLoad \subseteq Name
      /\ UNCHANGED <<content, pc, acked>>
  BY DEF LoadOne, Inv, TypeInv, LifeOK, handlers, history
<1>2. CASE n \in torn
  <2>1. UNCHANGED <<toLoad, dir, reg, cols>>
    BY <1>2 DEF LoadOne
  <2> QED
    BY <1>1, <2>1 DEF Loaded, Mirror, Served, OneOpens
<1>3. CASE n \notin torn
  <2>1. OpenAs(c, n) /\ reg' = [reg EXCEPT ![n] = c] /\ toLoad' = toLoad \ {n}
    BY <1>3 DEF LoadOne
  <2>2. dir[n] # None /\ reg[n] = None
    BY <1>1 DEF Loaded
  <2>3. /\ dir' = dir /\ cols'[c].file = dir[n] /\ cols'[c].docs = content[dir[n]]
    BY <2>1, <2>2, OpenAsFiles
  <2>4. c \in Spare /\ \A d \in Collection \ {c} : cols'[d] = cols[d]
    BY <1>1, <2>1, OpenAsProperties
  <2>5. \A m \in Name : reg[m] # c
    BY <2>4 DEF Spare, InUse
  <2>6. reg'[n] = c /\ \A m \in Name \ {n} : reg'[m] = reg[m]
    BY <1>1, <2>1 DEF MemoryOK
  <2>7. None \notin Collection /\ \A m \in Name : reg[m] \in Collection \cup {None}
    BY <1>1, DatabaseAssumption DEF MemoryOK
  <2>8. \A d \in Collection : cols'[d].open => \E m \in Name : reg'[m] = d
    BY <1>1, <2>2, <2>4, <2>6, <2>7 DEF Loaded
  <2>9. \A m \in toLoad' :
          /\ dir'[m] # None /\ reg'[m] = None
          /\ \A a \in acked' : a[1] = m => a[2] \in content'[dir'[m]]
    BY <1>1, <2>1, <2>3, <2>6 DEF Loaded
  <2>10. ASSUME NEW m \in Name \ toLoad' PROVE Mirror(m)' /\ Served(m)'
    <3>1. CASE m = n
      BY <1>1, <2>2, <2>3, <2>6, <2>7, <3>1 DEF Mirror, Served, Loaded
    <3>2. CASE m # n
      <4>1. m \in Name \ toLoad /\ Mirror(m) /\ Served(m)
        BY <2>1, <3>2 DEF Loaded
      <4>2. reg'[m] = reg[m] /\ (reg[m] # None => cols'[reg[m]] = cols[reg[m]])
        BY <2>4, <2>5, <2>6, <2>7, <3>2
      <4> QED
        BY <1>1, <2>3, <4>1, <4>2 DEF Mirror, Served
    <3> QED
      BY <3>1, <3>2
  <2>11. Loaded'
    BY <1>1, <2>8, <2>9, <2>10 DEF Loaded
  <2>12. ASSUME NEW d \in Collection \ {c}, cols[d].open PROVE cols[d].file # cols'[c].file
    <3>1. PICK m \in Name : reg[m] = d
      BY <2>12 DEF Loaded
    <3>2. m # n /\ m \notin toLoad
      BY <2>2, <2>7, <3>1 DEF Loaded
    <3>3. dir[m] # None /\ cols[d].file = dir[m]
      BY <2>7, <3>1, <3>2 DEF Loaded, Mirror
    <3> QED
      BY <2>3, <3>2, <3>3 DEF FilesInv, FilesDiffer
  <2>13. OneOpens => OneOpens'
    BY <2>4, <2>12 DEF OneOpens
  <2> QED
    BY <2>11, <2>13
<1> QED
  BY <1>2, <1>3

LEMMA TickLoads ==
  ASSUME Inv, Loaded, NEW c \in Collection, Tick(c)
  PROVE  Loaded'
<1>1. /\ MemoryOK /\ DiskOK /\ UNCHANGED <<dir, reg, pc, acked, toLoad>> /\ toLoad \subseteq Name
      /\ None \notin Collection
  BY DatabaseAssumption DEF Tick, Inv, TypeInv, LifeOK, handlers, history, loading
<1>2. \A d \in Collection : /\ cols'[d].open = cols[d].open /\ cols'[d].file = cols[d].file
                            /\ cols'[d].docs = cols[d].docs
  BY <1>1 DEF Tick, MemoryOK, Record
<1>3. \A f \in File : content[f] \subseteq content'[f]
  <2>1. content' = content \/ content' = [content EXCEPT ![cols[c].file] = @ \cup cols[c].buffer]
    BY DEF Tick, FlushTo
  <2> QED
    BY <1>1, <2>1 DEF DiskOK
<1>4. \A n \in toLoad : dir[n] \in File
  BY <1>1 DEF Loaded, DiskOK
<1>5. \A n \in Name : reg[n] # None => reg[n] \in Collection
  BY <1>1 DEF MemoryOK
<1>6. \A n \in Name \ toLoad : Mirror(n)' /\ Served(n)'
  BY <1>1, <1>2, <1>5 DEF Loaded, Mirror, Served
<1> QED
  BY <1>1, <1>2, <1>3, <1>4, <1>6 DEF Loaded

\* At the end of the walk every name is served and no request has begun.
LEMMA LoadDoneMirror ==
  ASSUME Inv, Loaded, LoadDone
  PROVE  Mirrored'
<1>1. toLoad = {} /\ UNCHANGED <<dir, reg, cols, pc, req, held, acked>>
  BY DEF LoadDone, disk, handlers, history
<1>2. \A w \in Worker : ~Busy(w) /\ Place(w)
  BY DEF Loaded, Busy, Place
<1>3. Mirrored
  BY <1>1, <1>2 DEF Mirrored, BusyApart, Loaded
<1> QED
  BY <1>1, <1>2, <1>3, MirroredAside DEF Kept

LEMMA AllNext ==
  ASSUME Inv, AllInv, [Next]_vars
  PROVE  AllInv'
<1>1. FilesInv /\ PhaseInv /\ MirrorInv /\ FilesInv'
  BY FilesInvNext DEF AllInv
<1>2. ASSUME DownIsRestored', ~Up' PROVE AllInv'
  BY <1>1, <1>2 DEF AllInv, PhaseInv, StatusFollows, LoadInv, MirrorInv
<1>3. CASE Exit \/ Crash
  BY <1>2, <1>3, DownRestored DEF Exit, Crash
<1>4. CASE Start
  <2>1. Loaded' /\ load' = "walking" /\ status' = "opening" /\ Running'
    BY <1>1, <1>4, StartLoads DEF PhaseInv, Start, Running
  <2>2. OneOpens'
    <3>1. \A c \in Collection : ~cols'[c].open
      BY <1>1, <1>4 DEF PhaseInv, DownIsRestored, Start, Running
    <3> QED
      BY <3>1 DEF OneOpens
  <2> QED
    BY <1>1, <2>1, <2>2 DEF AllInv, PhaseInv, DownIsRestored, StatusFollows, LoadInv, MirrorInv
<1>5. CASE Signal \/ StopDone \/ \E n \in Name : StopOne(n)
  <2>1. Running' /\ stop' # "idle"
    BY <1>5 DEF Signal, StopDone, StopOne, Running
  <2> QED
    BY <1>2, <2>1 DEF DownIsRestored, Up
<1>6. CASE UNCHANGED vars
  BY <1>1, <1>6
     DEF vars, AllInv, PhaseInv, DownIsRestored, StatusFollows, LoadInv, Loaded, MirrorInv, Up, Running,
         OneOpens, Mirrored, BusyApart, Busy, Place, Mirror, Served, Undisturbed, Changing
<1>7. ASSUME Running, UNCHANGED <<process, stop>>,
             Up => StatusFollows' /\ LoadInv' /\ MirrorInv'
      PROVE  AllInv'
  BY <1>1, <1>7
     DEF AllInv, PhaseInv, DownIsRestored, StatusFollows, LoadInv, MirrorInv, Up, Running
<1>8. ASSUME NEW n \in Name, NEW c \in Collection, LoadOne(n, c) PROVE AllInv'
  <2>1. /\ Running /\ UNCHANGED <<process, stop, crossed>> /\ load = "walking"
        /\ \/ load' = load /\ status' = status
           \/ load' = "failed" /\ status' = "closing"
    BY <1>8 DEF LoadOne, stopping, history
  <2>2. Up => Loaded' /\ (OneOpens => OneOpens')
    BY <1>1, <1>8, <2>1, LoadOneLoads DEF PhaseInv, LoadInv
  <2>3. Up => StatusFollows' /\ LoadInv' /\ MirrorInv'
    BY <1>1, <2>1, <2>2 DEF PhaseInv, StatusFollows, LoadInv, MirrorInv, Up
  <2> QED
    BY <1>7, <2>1, <2>3
<1>9. CASE LoadDone
  <2>1. /\ Running /\ UNCHANGED <<process, stop, crossed, cols>>
        /\ load = "walking" /\ load' = "done" /\ status' = "operating"
    BY <1>9 DEF LoadDone, stopping, history
  <2>2. Up => Mirrored' /\ (OneOpens => OneOpens')
    BY <1>1, <1>9, <2>1, LoadDoneMirror DEF PhaseInv, LoadInv, OneOpens
  <2>3. Up => StatusFollows' /\ LoadInv' /\ MirrorInv'
    BY <1>1, <2>1, <2>2 DEF PhaseInv, StatusFollows, LoadInv, MirrorInv, Up
  <2> QED
    BY <1>7, <2>1, <2>3
<1>10. ASSUME NEW c \in Collection, Tick(c) PROVE AllInv'
  <2>1. Running /\ UNCHANGED <<process, status, stop, crossed, load, dir>>
    BY <1>10 DEF Tick, stopping, history, loading
  <2>2. OneOpens => OneOpens'
    <3>1. NoneOpens
      BY <1>10 DEF Tick, Inv, TypeInv, MemoryOK, Record, NoneOpens
    <3> QED
      BY <1>1, <2>1, <3>1, NoneOpensFiles
  <2>3. (Loaded => Loaded') /\ (Mirrored => Mirrored')
    BY <1>10, TickLoads, TickMirror
  <2>4. Up => StatusFollows' /\ LoadInv' /\ MirrorInv'
    BY <1>1, <2>1, <2>2, <2>3 DEF PhaseInv, StatusFollows, LoadInv, MirrorInv, Up, Running
  <2> QED
    BY <1>7, <2>1, <2>4
<1>11. ASSUME NEW w \in Worker,
              Handle(w) \/ \E kind \in Kind, n \in Name : Request(w, kind, n)
       PROVE  AllInv'
  <2>1. /\ Running /\ UNCHANGED <<process, status, stop, load>>
        /\ pc[w] # "idle" \/ status = "operating"
    BY <1>11 DEF Handle, Request, Get, Check, Register, Find, RemoveFile, Delete, CloseDropped,
                 OpenFile, Write, At, stopping, loading
  <2>2. crossed => crossed'
    BY <1>11 DEF Handle, Request, Get, Check, Register, Find, RemoveFile, Delete, CloseDropped,
                 OpenFile, Write, history, Inv, TypeInv, HistoryOK
  <2>3. Up => load = "done"
    BY <1>1, <2>1 DEF PhaseInv, StatusFollows, LoadInv, Loaded
  <2>4. Up /\ ~crossed' => OneOpens' /\ Mirrored'
    BY <1>1, <1>11, <2>2, <2>3, HandlerMirror DEF MirrorInv
  <2>5. Up => StatusFollows' /\ LoadInv' /\ MirrorInv'
    BY <1>1, <2>1, <2>3, <2>4 DEF PhaseInv, StatusFollows, LoadInv, MirrorInv, Up, Running
  <2> QED
    BY <1>7, <2>1, <2>5
<1> QED
  BY <1>3, <1>4, <1>5, <1>6, <1>8, <1>9, <1>10, <1>11 DEF Next, LoadStep, StopStep

-----------------------------------------------------------------------------
LEMMA AllInvariant == Spec => [](Inv /\ AllInv)
<1>1. Init => Inv /\ AllInv
  BY InvInit, AllInit
<1>2. (Inv /\ AllInv) /\ [Next]_vars => (Inv /\ AllInv)'
  BY InvNext, AllNext
<1> QED
  BY <1>1, <1>2, PTL DEF Spec

\* While no two requests create or drop one name at once (DropCollection,
\* database.go:65-82, and CreateCollection, service.go:28-44, take no lock), the map has a collection exactly where
\* the directory has a file, and it is the collection of that file, however
\* many names and handlers there are and after any stop, crash or load.
THEOREM SpecRegistryMirrorsDirectory == Spec => []RegistryMirrorsDirectory
<1>1. Inv /\ AllInv => RegistryMirrorsDirectory
  <2> SUFFICES ASSUME Inv, AllInv, Running, status = "operating", stop = "idle", Quiet, ~crossed,
                      NEW n \in Name
               PROVE  Mirror(n)
    BY DEF RegistryMirrorsDirectory, Mirror
  <2>1. Up /\ Mirrored /\ FilesInv
    BY DEF AllInv, PhaseInv, StatusFollows, MirrorInv, Up
  <2>2. CASE Undisturbed(n)
    BY <2>1, <2>2 DEF Mirrored
  <2>3. ASSUME NEW w \in Worker, Changing(w, n) PROVE Mirror(n)
    <3>1. Place(w) /\ req[w].name = n /\ pc[w] \in {"open", "remove"}
      BY <2>1, <2>3 DEF Mirrored, Changing, Quiet
    <3>2. CASE pc[w] = "open"
      BY <3>1, <3>2 DEF Place, Mirror
    <3>3. CASE pc[w] = "remove"
      <4>1. reg[n] = held[w] /\ dir[n] = cols[held[w]].file /\ held[w] \in Collection
        BY <3>1, <3>3 DEF Place, Inv, TypeInv, HandlersOK, Holding
      <4>2. reg[n] # None
        BY <4>1, DatabaseAssumption
      <4>3. dir[n] # None
        BY <2>1, <4>1, <4>2, RegisteredHasFile, DatabaseAssumption
      <4> QED
        BY <4>1, <4>2, <4>3 DEF Mirror
    <3> QED
      BY <3>1, <3>2, <3>3
  <2> QED
    BY <2>2, <2>3 DEF Undisturbed
<1> QED
  BY <1>1, AllInvariant, PTL

\* Under the same condition what was answered as stored
\* (apicollectionv1/insert.go), by this process or by one that stopped or crashed after a
\* flush, is in the collection that the requests after it are given, until
\* the name is dropped.
THEOREM SpecAckedIsServed == Spec => []AckedIsServed
<1>1. Inv /\ AllInv => AckedIsServed
  <2> SUFFICES ASSUME Inv, AllInv, Running, status = "operating", stop = "idle", ~crossed,
                      NEW a \in acked
               PROVE  reg[a[1]] # None /\ a[2] \in cols[reg[a[1]]].docs
    BY DEF AckedIsServed
  <2>1. Mirrored
    BY DEF AllInv, PhaseInv, StatusFollows, MirrorInv, Up
  <2>2. a[1] \in Name
    BY DEF Inv, TypeInv, HistoryOK
  <2> QED
    BY <2>1, <2>2 DEF Mirrored, Served
<1> QED
  BY <1>1, AllInvariant, PTL

-----------------------------------------------------------------------------
(***************************************************************************)
(* Stop: what was stored when it began is in the files when it ends.       *)
(***************************************************************************)

\* What an open collection has is in its file or in its buffer.
DocsKept ==
  \A c \in Collection, n \in Name : cols[c].open /\ dir[n] = cols[c].file =>
    cols[c].docs \subseteq content[dir[n]] \cup cols[c].buffer

\* While Load walks no request is under way, also after a signal, and its
\* names are not in the map.
WalkInv ==
  /\ status = "operating" => load = "done"
  /\ load # "done" => \A w \in Worker : pc[w] = "idle"
  /\ load = "walking" => \A n \in toLoad : reg[n] = None
  /\ stop = "idle" => visited = {}

\* A creation finds no entry to overwrite, and a drop that has removed the file
\* finds none when it deletes the entry.
Found(w) ==
  /\ pc[w] \in {"open", "register"} => reg[req[w].name] = None
  /\ pc[w] = "delete" => dir[req[w].name] = None
Finds == BusyApart /\ \A w \in Worker : Found(w)
FindsInv == ~crossed => Finds

\* What is due is in its file, or in the buffer of a collection that the range
\* of Stop has still to visit.
Waits(a) ==
  /\ stop = "closing" /\ a[1] \in must \ visited /\ reg[a[1]] # None
  /\ cols[reg[a[1]]].open /\ cols[reg[a[1]]].file = dir[a[1]]
  /\ a[2] \in cols[reg[a[1]]].buffer
Safe(a) == dir[a[1]] # None /\ (a[2] \in content[dir[a[1]]] \/ Waits(a))
AllSafe == \A a \in due : Safe(a)
DueInv == stop # "idle" /\ ~crossed => AllSafe

StopInv == DocsKept /\ WalkInv /\ FindsInv /\ DueInv

LEMMA StopInit == Init => StopInv
<1> SUFFICES ASSUME Init PROVE StopInv
  OBVIOUS
<1>1. DocsKept
  BY DEF Init, DocsKept, Closed
<1> QED
  BY <1>1 DEF Init, StopInv, WalkInv, FindsInv, Finds, Found, BusyApart, Busy, DueInv

\* A flush loses nothing, and leaves the buffer in the file if it is linked.
LEMMA FlushKeeps ==
  ASSUME DiskOK, MemoryOK, NEW c \in Collection
  PROVE  /\ \A f \in File : content[f] \subseteq FlushTo(c)[f]
         /\ \A n \in Name : dir[n] = cols[c].file /\ dir[n] # None =>
              FlushTo(c)[dir[n]] = content[dir[n]] \cup cols[c].buffer
<1>1. CASE \E n \in Name : dir[n] = cols[c].file
  <2>1. FlushTo(c) = [content EXCEPT ![cols[c].file] = @ \cup cols[c].buffer]
    BY <1>1 DEF FlushTo
  <2> QED
    BY <2>1 DEF DiskOK, MemoryOK, Record
<1>2. CASE ~\E n \in Name : dir[n] = cols[c].file
  BY <1>2 DEF FlushTo
<1> QED
  BY <1>1, <1>2

LEMMA CloseColKeeps ==
  ASSUME DiskOK, MemoryOK, NEW c \in Collection, CloseCol(c)
  PROVE  /\ \A f \in File : content[f] \subseteq content'[f]
         /\ cols[c].open => \A n \in Name : dir[n] = cols[c].file /\ dir[n] # None =>
              cols[c].buffer \subseteq content'[dir[n]]
         /\ \A d \in Collection \ {c} : cols'[d] = cols[d]
         /\ cols'[c].open = FALSE
<1>1. CASE cols[c].open
  <2>1. content' = FlushTo(c) /\ cols' = [cols EXCEPT ![c] = Closed]
    BY <1>1 DEF CloseCol
  <2>2. cols'[c] = Closed /\ \A d \in Collection \ {c} : cols'[d] = cols[d]
    BY <2>1 DEF MemoryOK
  <2> QED
    BY <2>1, <2>2, FlushKeeps DEF Closed
<1>2. CASE ~cols[c].open
  BY <1>2 DEF CloseCol, MemoryOK, Record
<1> QED
  BY <1>1, <1>2

\* Each collection is closed, or keeps its file while what it loses from its
\* buffer goes to that file, and no file is made or loses anything.
Saves ==
  /\ \A n \in Name : dir'[n] = dir[n]
  /\ \A f \in File : content[f] \subseteq content'[f]
  /\ \A c \in Collection : cols'[c].open =>
       /\ cols[c].open /\ cols'[c].file = cols[c].file
       /\ cols'[c].docs \subseteq cols[c].docs \cup cols'[c].buffer
       /\ \A n \in Name : dir[n] = cols[c].file /\ dir[n] # None =>
            cols[c].buffer \subseteq content'[dir[n]] \cup cols'[c].buffer

LEMMA SavesDocs ==
  ASSUME Inv, FilesInv, DocsKept, Saves
  PROVE  DocsKept'
<1> SUFFICES ASSUME NEW c \in Collection, NEW n \in Name, cols'[c].open, dir'[n] = cols'[c].file
             PROVE  cols'[c].docs \subseteq content'[dir'[n]] \cup cols'[c].buffer
  BY DEF DocsKept
<1>1. /\ cols[c].open /\ dir[n] = cols[c].file /\ dir'[n] = dir[n]
      /\ cols'[c].docs \subseteq cols[c].docs \cup cols'[c].buffer
  BY DEF Saves
<1>2. dir[n] \in File /\ dir[n] # None
  BY <1>1, DatabaseAssumption DEF FilesInv, OpenHasFile
<1>3. cols[c].docs \subseteq content[dir[n]] \cup cols[c].buffer
  BY <1>1 DEF DocsKept
<1>4. /\ content[dir[n]] \subseteq content'[dir[n]]
      /\ cols[c].buffer \subseteq content'[dir[n]] \cup cols'[c].buffer
  BY <1>1, <1>2 DEF Saves
<1> QED
  BY <1>1, <1>3, <1>4

\* A request stores a document in memory and in the buffer.
LEMMA WriteSaves ==
  ASSUME Inv, NEW w \in Worker, NEW x \in Doc, Write(w, x)
  PROVE  Saves /\ \A c \in Collection : cols[c].open => cols'[c].open
<1>1. /\ held[w] \in Collection /\ MemoryOK /\ DiskOK /\ UNCHANGED <<dir, content>>
  BY DEF Write, At, Inv, TypeInv, HandlersOK, Holding, disk
<1>2. CASE UNCHANGED cols
  BY <1>1, <1>2 DEF Saves
<1>3. CASE cols' = [cols EXCEPT ![held[w]].docs = @ \cup {x}, ![held[w]].buffer = @ \cup {x}]
  <2>1. \A c \in Collection :
          /\ cols'[c].open = cols[c].open /\ cols'[c].file = cols[c].file
          /\ cols'[c].docs \subseteq cols[c].docs \cup cols'[c].buffer
          /\ cols[c].buffer \subseteq cols'[c].buffer
    <3> SUFFICES ASSUME NEW c \in Collection
                 PROVE  /\ cols'[c].open = cols[c].open /\ cols'[c].file = cols[c].file
                        /\ cols'[c].docs \subseteq cols[c].docs \cup cols'[c].buffer
                        /\ cols[c].buffer \subseteq cols'[c].buffer
      OBVIOUS
    <3>1. CASE c = held[w]
      BY <1>1, <1>3, <3>1 DEF MemoryOK, Record
    <3>2. CASE c # held[w]
      BY <1>1, <1>3, <3>2 DEF MemoryOK
    <3> QED
      BY <3>1, <3>2
  <2> QED
    BY <1>1, <2>1 DEF Saves
<1> QED
  BY <1>2, <1>3 DEF Write

LEMMA TickSaves ==
  ASSUME Inv, NEW c \in Collection, Tick(c)
  PROVE  Saves /\ \A d \in Collection : cols[d].open => cols'[d].open
<1>1. /\ MemoryOK /\ DiskOK /\ UNCHANGED dir /\ content' = FlushTo(c)
      /\ cols' = [cols EXCEPT ![c].buffer = {}]
  BY DEF Tick, Inv, TypeInv
<1>2. \A d \in Collection :
        /\ cols'[d].open = cols[d].open /\ cols'[d].file = cols[d].file
        /\ cols'[d].docs = cols[d].docs /\ (d # c => cols'[d].buffer = cols[d].buffer)
  BY <1>1 DEF MemoryOK, Record
<1>3. \A f \in File : content[f] \subseteq content'[f]
  BY <1>1, FlushKeeps
<1>4. \A n \in Name : dir[n] = cols[c].file /\ dir[n] # None => cols[c].buffer \subseteq content'[dir[n]]
  BY <1>1, FlushKeeps
<1> QED
  BY <1>1, <1>2, <1>3, <1>4 DEF Saves

LEMMA ClosingSaves ==
  ASSUME Inv, NEW c \in Collection, CloseCol(c), UNCHANGED dir
  PROVE  Saves /\ \A d \in Collection \ {c} : cols[d].open => cols'[d].open
<1>1. MemoryOK /\ DiskOK
  BY DEF Inv, TypeInv
<1> QED
  BY <1>1, CloseColKeeps DEF Saves

LEMMA DownSaves ==
  ASSUME Down
  PROVE  Saves
<1>1. UNCHANGED <<dir, content>> /\ cols' = [c \in Collection |-> Closed]
  BY DEF Down
<1> QED
  BY <1>1 DEF Saves, Closed

LEMMA AsideSaves ==
  ASSUME UNCHANGED <<dir, content, cols>>
  PROVE  Saves /\ \A c \in Collection : cols[c].open => cols'[c].open
  BY DEF Saves

\* A name that is opened has all of its file in memory.
LEMMA OpenedDocs ==
  ASSUME Inv, FilesInv, DocsKept, NEW n \in Name, NEW c \in Collection, OpenAs(c, n),
         UNCHANGED content
  PROVE  DocsKept'
<1> SUFFICES ASSUME NEW d \in Collection, NEW m \in Name, cols'[d].open, dir'[m] = cols'[d].file
             PROVE  cols'[d].docs \subseteq content[dir'[m]] \cup cols'[d].buffer
  BY DEF DocsKept
<1>1. /\ \A x \in Collection \ {c} : cols'[x] = cols[x]
  BY OpenAsProperties DEF Inv, TypeInv
<1>2. /\ \A x \in Name \ {n} : dir'[x] = dir[x]
      /\ dir[n] # None => dir' = dir
      /\ dir[n] = None => \A x \in Collection : cols[x].file # dir'[n]
      /\ cols'[c].file = dir'[n] /\ cols'[c].docs = content[dir'[n]]
  BY OpenAsFiles
<1>3. CASE d = c
  BY <1>2, <1>3
<1>4. CASE d # c
  <2>1. dir'[m] = dir[m]
    BY <1>1, <1>2, <1>4
  <2> QED
    BY <1>1, <1>4, <2>1 DEF DocsKept
<1> QED
  BY <1>3, <1>4

\* A file that is removed is the file of one name.
LEMMA RemovedDocs ==
  ASSUME Inv, FilesInv, DocsKept, NEW w \in Worker, RemoveFile(w)
  PROVE  DocsKept'
<1>1. DiskOK /\ req[w].name \in Name /\ UNCHANGED cols /\ None \notin File
  BY DatabaseAssumption DEF RemoveFile, At, Inv, TypeInv, HandlersOK
<1> PICK n \in Name : req[w].name = n
  BY <1>1
<1>2. CASE dir[n] = None
  BY <1>1, <1>2 DEF RemoveFile, DocsKept
<1>3. CASE dir[n] # None
  <2>1. /\ dir' = [dir EXCEPT ![n] = None] /\ content' = [content EXCEPT ![dir[n]] = {}]
    BY <1>3 DEF RemoveFile
  <2>2. /\ dir'[n] = None /\ \A m \in Name \ {n} : dir'[m] = dir[m]
        /\ \A f \in File \ {dir[n]} : content'[f] = content[f]
    BY <1>1, <2>1 DEF DiskOK
  <2> SUFFICES ASSUME NEW c \in Collection, NEW m \in Name, cols[c].open, dir'[m] = cols[c].file
               PROVE  cols[c].docs \subseteq content'[dir'[m]] \cup cols[c].buffer
    BY <1>1 DEF DocsKept
  <2>3. cols[c].file \in File
    BY DEF FilesInv, OpenHasFile
  <2>4. m # n /\ dir'[m] = dir[m] /\ dir[m] # dir[n]
    BY <1>1, <2>2, <2>3 DEF FilesInv, FilesDiffer
  <2> QED
    BY <2>2, <2>3, <2>4 DEF DocsKept
<1> QED
  BY <1>2, <1>3

\* Each step opens a name, removes a file, or saves what it changes.
LEMMA StepSaves ==
  ASSUME Inv, [Next]_vars
  PROVE  \/ Saves
         \/ UNCHANGED content /\ \E n \in Name, c \in Collection : OpenAs(c, n)
         \/ \E w \in Worker : RemoveFile(w)
<1>1. HandlersOK /\ MemoryOK
  BY DEF Inv, TypeInv
<1>2. ASSUME NEW n \in Name, StopOne(n) PROVE Saves
  BY <1>1, <1>2, ClosingSaves DEF StopOne, MemoryOK
<1>3. ASSUME NEW w \in Worker, CloseDropped(w) PROVE Saves
  BY <1>1, <1>3, ClosingSaves DEF CloseDropped, At, HandlersOK, Holding
<1>4. ASSUME NEW n \in Name, NEW c \in Collection, LoadOne(n, c)
      PROVE  Saves \/ (UNCHANGED content /\ OpenAs(c, n))
  BY <1>4, AsideSaves DEF LoadOne
<1>5. ASSUME NEW w \in Worker, NEW c \in Collection, OpenFile(w, c)
      PROVE  UNCHANGED content /\ \E n \in Name : OpenAs(c, n)
  BY <1>1, <1>5 DEF OpenFile, At, HandlersOK
<1>6. CASE Exit \/ Crash
  BY <1>6, DownSaves DEF Exit, Crash
<1>7. ASSUME \/ Start \/ LoadDone \/ Signal \/ StopDone \/ UNCHANGED vars
             \/ \E w \in Worker :
                  \/ Get(w) \/ Check(w) \/ Register(w) \/ Find(w) \/ Delete(w)
                  \/ \E kind \in Kind, n \in Name : Request(w, kind, n)
      PROVE  Saves
  <2>1. UNCHANGED <<dir, content, cols>>
    BY <1>7 DEF Start, LoadDone, Signal, StopDone, vars, Get, Check, Register, Find, Delete,
                Request, disk
  <2> QED
    BY <2>1, AsideSaves
<1> QED
  BY <1>2, <1>3, <1>4, <1>5, <1>6, <1>7, WriteSaves, TickSaves
     DEF Next, LoadStep, StopStep, Handle

LEMMA DocsNext ==
  ASSUME Inv, FilesInv, DocsKept, [Next]_vars
  PROVE  DocsKept'
<1>1. CASE Saves
  BY <1>1, SavesDocs
<1>2. CASE UNCHANGED content /\ \E n \in Name, c \in Collection : OpenAs(c, n)
  BY <1>2, OpenedDocs
<1>3. CASE \E w \in Worker : RemoveFile(w)
  BY <1>3, RemovedDocs
<1> QED
  BY <1>1, <1>2, <1>3, StepSaves

-----------------------------------------------------------------------------
\* A request that Load has not ended for is not let in.
LEMMA WalkNext ==
  ASSUME Inv, AllInv, WalkInv, [Next]_vars
  PROVE  WalkInv'
<1>1. LifeOK /\ MemoryOK /\ DownIsRestored /\ DownIsEmpty
  BY DEF Inv, TypeInv, ServedInv, AllInv, PhaseInv
<1>2. CASE Exit \/ Crash
  BY <1>2 DEF Exit, Crash, Down, WalkInv
<1>3. CASE Start
  BY <1>1, <1>3 DEF Start, Running, Listed, DownIsRestored, DownIsEmpty, WalkInv, LifeOK, handlers, stopping
<1>4. ASSUME NEW n \in Name, NEW c \in Collection, LoadOne(n, c) PROVE WalkInv'
  <2>1. /\ load = "walking" /\ UNCHANGED <<pc, stop, visited>>
        /\ status' \in {status, "closing"}
        /\ \/ load' # "walking"
           \/ load' = load /\ toLoad' = toLoad \ {n} /\ reg' = [reg EXCEPT ![n] = c]
    BY <1>4 DEF LoadOne, handlers, stopping
  <2>2. \A m \in Name \ {n} : reg' = [reg EXCEPT ![n] = c] => reg'[m] = reg[m]
    BY <1>1 DEF MemoryOK
  <2>3. toLoad \subseteq Name
    BY <1>1 DEF LifeOK
  <2>4. status' # "operating"
    BY <2>1 DEF WalkInv
  <2>5. load' = "walking" => \A m \in toLoad' : reg'[m] = None
    BY <2>1, <2>2, <2>3 DEF WalkInv
  <2> QED
    BY <2>1, <2>4, <2>5 DEF WalkInv
<1>5. ASSUME NEW w \in Worker,
             Handle(w) \/ \E kind \in Kind, n \in Name : Request(w, kind, n)
      PROVE  WalkInv'
  <2>1. /\ UNCHANGED <<status, stop, load>> /\ visited' \subseteq visited
        /\ pc[w] # "idle" \/ status = "operating"
    BY <1>5 DEF Handle, Request, Get, Check, Register, Find, RemoveFile, Delete, CloseDropped,
                OpenFile, Write, At, stopping, loading
  <2>2. load = "done"
    BY <2>1 DEF WalkInv
  <2> QED
    BY <2>1, <2>2 DEF WalkInv
<1>6. CASE LoadDone
  BY <1>6 DEF LoadDone, WalkInv, handlers, stopping
<1>7. CASE Signal \/ StopDone \/ \E n \in Name : StopOne(n)
  BY <1>7 DEF Signal, StopDone, StopOne, WalkInv, handlers, loading
<1>8. CASE UNCHANGED vars \/ \E c \in Collection : Tick(c)
  <2>1. UNCHANGED <<status, load, toLoad, reg, pc, stop, visited>>
    BY <1>8 DEF vars, Tick, handlers, stopping, loading
  <2> QED
    BY <2>1 DEF WalkInv
<1> QED
  BY <1>2, <1>3, <1>4, <1>5, <1>6, <1>7, <1>8 DEF Next, LoadStep, StopStep

-----------------------------------------------------------------------------
\* A step of a request at the name n, which no other request is at.
LEMMA FindsStep ==
  ASSUME HandlersOK, Finds, NEW w \in Worker, NEW n \in Name,
         \A v \in Worker \ {w} : pc'[v] = pc[v] /\ req'[v] = req[v] /\ ~Changing(v, n),
         Busy(w)' => req'[w].name = n,
         \A m \in Name \ {n} : reg'[m] = reg[m] /\ dir'[m] = dir[m],
         Found(w)'
  PROVE  Finds'
<1>1. ASSUME NEW v \in Worker \ {w}
      PROVE  /\ pc'[v] = pc[v] /\ req'[v] = req[v]
             /\ Busy(v) => req[v].name \in Name /\ req[v].name # n
  BY DEF Busy, Changing, HandlersOK
<1>2. ASSUME NEW x \in Worker \ {w}, Busy(x)'
      PROVE  Busy(x) /\ req'[x].name = req[x].name /\ req[x].name # n
  BY <1>1, <1>2 DEF Busy
<1>3. BusyApart'
  <2> SUFFICES ASSUME NEW u \in Worker, NEW v \in Worker, Busy(u)', Busy(v)',
                      req'[u].name = req'[v].name
               PROVE  u = v
    BY DEF BusyApart
  <2>1. CASE u # w /\ v # w
    BY <1>2, <2>1 DEF Finds, BusyApart
  <2>2. CASE u = w /\ v # w
    BY <1>2, <2>2
  <2>3. CASE u # w /\ v = w
    BY <1>2, <2>3
  <2> QED
    BY <2>1, <2>2, <2>3
<1>4. ASSUME NEW v \in Worker \ {w} PROVE Found(v)'
  <2>1. Found(v) /\ pc'[v] = pc[v] /\ req'[v] = req[v]
    BY <1>1 DEF Finds
  <2>2. CASE ~Busy(v)
    BY <2>1, <2>2 DEF Found, Busy
  <2>3. CASE Busy(v)
    <3>1. reg'[req[v].name] = reg[req[v].name] /\ dir'[req[v].name] = dir[req[v].name]
      BY <1>1, <2>3
    <3> QED
      BY <2>1, <3>1 DEF Found
  <2> QED
    BY <2>2, <2>3
<1> QED
  BY <1>3, <1>4 DEF Finds

\* A step that leaves map and directory alone, and the requests at a name.
LEMMA FindsAside ==
  ASSUME Finds, UNCHANGED <<reg, dir>>,
         \A v \in Worker : ~Busy(v)' \/ (pc'[v] = pc[v] /\ req'[v] = req[v])
  PROVE  Finds'
<1>1. BusyApart'
  BY DEF Finds, BusyApart, Busy
<1>2. \A v \in Worker : Found(v)'
  BY DEF Finds, Found, Busy
<1> QED
  BY <1>1, <1>2 DEF Finds

\* The steps of a request that come after its look at the map.
LEMMA ChangesFind ==
  ASSUME Inv, Finds, NEW w \in Worker,
         Register(w) \/ RemoveFile(w) \/ Delete(w) \/ \E c \in Collection : OpenFile(w, c)
  PROVE  Finds'
<1>1. /\ HandlersOK /\ DiskOK /\ MemoryOK /\ Busy(w) /\ req[w].name \in Name
  BY DEF Inv, TypeInv, HandlersOK, Busy, Register, RemoveFile, Delete, OpenFile, At
<1> PICK n \in Name : req[w].name = n
  BY <1>1
<1>2. \A v \in Worker \ {w} : ~Changing(v, n)
  BY <1>1 DEF Finds, BusyApart, Busy, Changing
<1>3. \A v \in Worker \ {w} : pc'[v] = pc[v] /\ req'[v] = req[v]
  BY <1>1 DEF Register, RemoveFile, Delete, OpenFile, Goto, Answer, HandlersOK
<1>4. CASE Answer(w)
  <2>1. pc'[w] = "idle"
    BY <1>1, <1>4, AnswerEnds
  <2>2. \A m \in Name \ {n} : reg'[m] = reg[m] /\ dir'[m] = dir[m]
    BY <1>1, <1>4, <2>1 DEF Register, RemoveFile, Delete, OpenFile, Goto, HandlersOK, disk, MemoryOK, DiskOK
  <2> QED
    BY <1>1, <1>2, <1>3, <2>1, <2>2, FindsStep DEF Found, Busy
<1>5. CASE Register(w) /\ Goto(w, "write")
  BY <1>1, <1>2, <1>3, <1>5, FindsStep DEF Register, Goto, HandlersOK, Found, Busy, disk, MemoryOK
<1>6. CASE RemoveFile(w) /\ Goto(w, "delete") /\ ~Answer(w)
  <2>1. /\ pc'[w] = "delete" /\ UNCHANGED <<req, reg>> /\ dir' = [dir EXCEPT ![n] = None]
    BY <1>1, <1>6 DEF RemoveFile, Goto, HandlersOK
  <2>2. dir'[n] = None /\ \A m \in Name \ {n} : dir'[m] = dir[m]
    BY <1>1, <2>1 DEF DiskOK
  <2> QED
    BY <1>1, <1>2, <1>3, <2>1, <2>2, FindsStep DEF Found
<1>7. CASE Delete(w)
  BY <1>1, <1>2, <1>3, <1>7, FindsStep DEF Delete, Goto, HandlersOK, Found, Busy, disk, MemoryOK
<1>8. ASSUME NEW c \in Collection, OpenFile(w, c) PROVE Finds'
  <2>1. /\ pc[w] = "open" /\ pc'[w] = "register" /\ UNCHANGED <<req, reg>> /\ OpenAs(c, n)
    BY <1>1, <1>8 DEF OpenFile, At, Goto, HandlersOK
  <2>2. \A m \in Name \ {n} : dir'[m] = dir[m]
    BY <1>1, <2>1 DEF OpenAs, DiskOK
  <2>3. Found(w)'
    BY <2>1 DEF Finds, Found
  <2> QED
    BY <1>1, <1>2, <1>3, <2>1, <2>2, <2>3, FindsStep
<1> QED
  BY <1>4, <1>5, <1>6, <1>7, <1>8 DEF Register, RemoveFile

\* The look itself, that no other request crosses.
LEMMA LooksFind ==
  ASSUME Inv, Finds, ~crossed', NEW w \in Worker, Check(w) \/ Find(w)
  PROVE  Finds'
<1>1. /\ HandlersOK /\ HistoryOK /\ req[w].name \in Name /\ UNCHANGED <<reg, dir>>
  BY DEF Inv, TypeInv, HandlersOK, Check, Find, At, disk
<1> PICK n \in Name : req[w].name = n
  BY <1>1
<1>2. \A v \in Worker \ {w} : pc'[v] = pc[v] /\ req'[v] = req[v]
  BY <1>1 DEF Check, Find, Goto, Answer, HandlersOK
<1>3. CASE Answer(w)
  <2>1. ~Busy(w)'
    BY <1>1, <1>3, AnswerEnds DEF Busy
  <2> QED
    BY <1>1, <1>2, <2>1, FindsAside
<1>4. CASE ~Answer(w)
  <2>1. /\ UNCHANGED req /\ ~Crosses(w)
        /\ \/ pc'[w] = "open" /\ reg[n] = None
           \/ pc'[w] = "remove"
    BY <1>1, <1>4 DEF Check, Find, Goto, HandlersOK
  <2>2. \A v \in Worker \ {w} : ~Changing(v, n)
    BY <2>1 DEF Crosses
  <2> QED
    BY <1>1, <1>2, <2>1, <2>2, FindsStep DEF Found
<1> QED
  BY <1>3, <1>4

LEMMA FindsNext ==
  ASSUME Inv, AllInv, WalkInv, FindsInv, [Next]_vars
  PROVE  FindsInv'
<1> SUFFICES ASSUME ~crossed' PROVE Finds'
  BY DEF FindsInv
<1>1. HandlersOK /\ MemoryOK /\ HistoryOK
  BY DEF Inv, TypeInv
<1>2. CASE Exit \/ Crash
  BY <1>2 DEF Exit, Crash, Down, Finds, BusyApart, Busy, Found
<1>3. ASSUME NEW n \in Name, NEW c \in Collection, LoadOne(n, c) PROVE Finds'
  <2>1. \A w \in Worker : pc'[w] = "idle"
    BY <1>3 DEF LoadOne, WalkInv, handlers
  <2> QED
    BY <2>1 DEF Finds, BusyApart, Busy, Found
<1>4. ASSUME NEW w \in Worker,
             Handle(w) \/ \E kind \in Kind, n \in Name : Request(w, kind, n)
      PROVE  Finds'
  <2>1. Finds
    BY <1>1, <1>4 DEF Handle, Request, Get, Check, Register, Find, RemoveFile, Delete, CloseDropped,
                      OpenFile, Write, history, HistoryOK, FindsInv
  <2>2. ASSUME \/ Get(w) \/ CloseDropped(w) \/ \E x \in Doc : Write(w, x)
               \/ \E kind \in Kind, n \in Name : Request(w, kind, n)
        PROVE  Finds'
    <3>1. /\ UNCHANGED <<reg, dir>> /\ ~Busy(w)'
          /\ \A v \in Worker \ {w} : pc'[v] = pc[v] /\ req'[v] = req[v]
      BY <1>1, <2>2 DEF Get, CloseDropped, Write, Request, Goto, Answer, HandlersOK, Busy, disk
    <3> QED
      BY <2>1, <3>1, FindsAside
  <2> QED
    BY <1>4, <2>1, <2>2, ChangesFind, LooksFind DEF Handle
<1>5. CASE \/ Start \/ LoadDone \/ Signal \/ StopDone \/ UNCHANGED vars
           \/ \E n \in Name : StopOne(n)
           \/ \E c \in Collection : Tick(c)
  <2>1. UNCHANGED <<reg, dir, pc, req, crossed>>
    BY <1>5 DEF Start, LoadDone, Signal, StopDone, vars, StopOne, Tick, disk, handlers, history
  <2> QED
    BY <2>1, FindsAside DEF FindsInv
<1> QED
  BY <1>2, <1>3, <1>4, <1>5 DEF Next, LoadStep, StopStep

-----------------------------------------------------------------------------
\* What is due stays where it is when its collection keeps the entry and is
\* not closed, ...
LEMMA SafeSaved ==
  ASSUME Inv, Saves, NEW a \in Name \X Doc, Safe(a),
         Waits(a) => /\ stop' = "closing" /\ a[1] \in must' \ visited'
                     /\ reg'[a[1]] = reg[a[1]] /\ cols'[reg[a[1]]].open
  PROVE  Safe(a)'
<1>1. a[1] \in Name /\ DiskOK /\ MemoryOK
  BY DEF Inv, TypeInv
<1> PICK n \in Name : a[1] = n
  BY <1>1
<1>2. dir[n] # None /\ dir[n] \in File /\ dir'[n] = dir[n]
  BY <1>1 DEF Safe, DiskOK, Saves
<1>3. CASE a[2] \in content[dir[n]]
  BY <1>2, <1>3 DEF Safe, Saves
<1>4. CASE Waits(a)
  <2>1. /\ reg[n] \in Collection /\ cols'[reg[n]].open /\ reg'[n] = reg[n] /\ reg[n] # None
        /\ cols[reg[n]].file = dir[n] /\ a[2] \in cols[reg[n]].buffer
        /\ stop' = "closing" /\ n \in must' \ visited'
    BY <1>1, <1>4 DEF Waits, MemoryOK
  <2>2. /\ cols'[reg[n]].file = dir[n]
        /\ cols[reg[n]].buffer \subseteq content'[dir[n]] \cup cols'[reg[n]].buffer
    BY <1>2, <2>1 DEF Saves
  <2> QED
    BY <1>2, <2>1, <2>2 DEF Safe, Waits
<1> QED
  BY <1>3, <1>4 DEF Safe

\* ... and when another collection is opened.
LEMMA SafeOpened ==
  ASSUME Inv, FilesInv, NEW a \in Name \X Doc, Safe(a),
         NEW n \in Name, NEW c \in Collection, OpenAs(c, n), UNCHANGED <<content, stopping>>,
         Waits(a) => reg'[a[1]] = reg[a[1]]
  PROVE  Safe(a)'
<1>1. a[1] \in Name /\ DiskOK /\ MemoryOK
  BY DEF Inv, TypeInv
<1> PICK m \in Name : a[1] = m
  BY <1>1
<1>2. dir[m] # None /\ dir'[m] = dir[m]
  <2>1. dir[m] # None
    BY DEF Safe
  <2> QED
    BY <2>1, OpenAsFiles
<1>3. CASE a[2] \in content[dir[m]]
  BY <1>2, <1>3 DEF Safe
<1>4. CASE Waits(a)
  <2>1. reg[m] # c /\ reg[m] \in Collection
    <3>1. c \in Spare
      BY <1>1, OpenAsProperties
    <3> QED
      BY <1>1, <1>4, <3>1 DEF Waits, Spare, InUse, MemoryOK
  <2>2. cols'[reg[m]] = cols[reg[m]]
    BY <1>1, <2>1, OpenAsProperties
  <2> QED
    BY <1>2, <1>4, <2>2 DEF Safe, Waits, stopping
<1> QED
  BY <1>3, <1>4 DEF Safe

\* What Stop finds: all that was answered is in the file or in the buffer of
\* the collection that the map has.
LEMMA SignalSafe ==
  ASSUME Inv, AllInv, DocsKept, WalkInv, Signal, ~crossed
  PROVE  AllSafe'
<1>1. /\ Up /\ visited = {} /\ visited' = {} /\ due' = acked /\ must' = Listed(reg)
      /\ stop' = "closing" /\ UNCHANGED <<dir, content, reg, cols>>
  BY DEF Signal, Up, WalkInv, disk
<1>2. HistoryOK /\ HandlersOK
  BY DEF Inv, TypeInv
<1> SUFFICES ASSUME NEW a \in acked PROVE Safe(a)'
  BY <1>1 DEF AllSafe
<1>3. a[1] \in Name
  BY <1>2 DEF HistoryOK
<1> PICK n \in Name : a[1] = n
  BY <1>3
<1>4. ASSUME reg[n] # None, dir[n] # None, a[2] \in cols[reg[n]].docs, cols[reg[n]].file = dir[n]
      PROVE  Safe(a)'
  <2>1. reg[n] \in Collection /\ cols[reg[n]].open
    BY <1>1, <1>4, RegisteredHasFile DEF AllInv
  <2>2. a[2] \in content[dir[n]] \/ a[2] \in cols[reg[n]].buffer
    BY <1>4, <2>1 DEF DocsKept
  <2> QED
    BY <1>1, <1>4, <2>1, <2>2 DEF Safe, Waits, Listed
<1>5. CASE load = "done"
  <2>1. Mirrored
    BY <1>1, <1>5 DEF AllInv, MirrorInv
  <2>2. reg[n] # None /\ dir[n] # None /\ a[2] \in cols[reg[n]].docs
    BY <2>1 DEF Mirrored, Served
  <2>3. cols[reg[n]].file = dir[n]
    <3>1. CASE Undisturbed(n)
      BY <2>1, <2>2, <3>1 DEF Mirrored, Mirror
    <3>2. ASSUME NEW w \in Worker, Changing(w, n) PROVE cols[reg[n]].file = dir[n]
      BY <2>1, <2>2, <3>2 DEF Mirrored, Place, Changing
    <3> QED
      BY <3>1, <3>2 DEF Undisturbed
  <2> QED
    BY <1>4, <2>2, <2>3
<1>6. CASE load # "done"
  <2>1. Loaded
    BY <1>1, <1>6 DEF AllInv, PhaseInv, LoadInv
  <2>2. CASE n \in toLoad
    BY <1>1, <2>1, <2>2 DEF Loaded, Safe
  <2>3. CASE n \notin toLoad
    <3>1. Mirror(n) /\ reg[n] # None /\ dir[n] # None /\ a[2] \in cols[reg[n]].docs
      BY <2>1, <2>3 DEF Loaded, Served
    <3> QED
      BY <1>4, <3>1 DEF Mirror
  <2> QED
    BY <2>2, <2>3
<1> QED
  BY <1>5, <1>6

\* Stop writes what waits in the buffer of the collection it visits.
LEMMA StopOneSafe ==
  ASSUME Inv, AllSafe, NEW n \in Name, StopOne(n)
  PROVE  AllSafe'
<1>1. /\ MemoryOK /\ DiskOK /\ HistoryOK /\ reg[n] \in Collection /\ reg[n] # None
      /\ CloseCol(reg[n]) /\ visited' = visited \cup {n}
      /\ UNCHANGED <<dir, reg, stop, must, due>>
  BY DEF StopOne, Inv, TypeInv, MemoryOK, history
<1>2. Saves /\ \A d \in Collection \ {reg[n]} : cols[d].open => cols'[d].open
  BY <1>1, ClosingSaves
<1> SUFFICES ASSUME NEW a \in due PROVE Safe(a)'
  BY <1>1 DEF AllSafe
<1>3. Safe(a) /\ a \in Name \X Doc
  BY <1>1 DEF AllSafe, HistoryOK
<1>4. CASE Waits(a) /\ a[1] = n
  BY <1>1, <1>3, <1>4, CloseColKeeps DEF Waits, Safe
<1>5. CASE Waits(a) /\ a[1] # n
  <2>1. a[1] \in Name /\ reg[a[1]] # reg[n] /\ reg[a[1]] \in Collection
    BY <1>1, <1>3, <1>5 DEF Inv, ServedInv, OneName, Waits, MemoryOK
  <2> QED
    BY <1>1, <1>2, <1>3, <1>5, <2>1, SafeSaved DEF Waits
<1>6. CASE ~Waits(a)
  BY <1>2, <1>3, <1>6, SafeSaved
<1> QED
  BY <1>4, <1>5, <1>6

\* The range may end when nothing waits any more.
LEMMA StopDoneSafe ==
  ASSUME AllSafe, StopDone
  PROVE  AllSafe'
<1>1. /\ must \subseteq visited
      /\ UNCHANGED <<dir, content, due>>
  BY DEF StopDone, disk, history
<1>2. \A a \in due : ~Waits(a)
  BY <1>1 DEF Waits
<1> QED
  BY <1>1, <1>2 DEF AllSafe, Safe

\* The requests that are still under way while Stop ranges over the map.
LEMMA HandlerSafe ==
  ASSUME Inv, AllInv, Finds, AllSafe, NEW w \in Worker,
         Handle(w) \/ \E kind \in Kind, n \in Name : Request(w, kind, n)
  PROVE  AllSafe'
<1>1. /\ HandlersOK /\ MemoryOK /\ DiskOK /\ HistoryOK /\ FilesInv
      /\ None \notin File \cup Collection \cup Name
  BY DatabaseAssumption DEF Inv, TypeInv, AllInv
<1>2. /\ stop' = stop
      /\ ~Delete(w) => UNCHANGED stopping
      /\ Delete(w) => must' = must \ {req[w].name} /\ visited' \subseteq visited
  <2>1. CASE Delete(w)
    BY <2>1 DEF Delete, At, Handle, Request, Get, Check, Register, Find, RemoveFile, CloseDropped,
                OpenFile, Write, stopping
  <2>2. CASE ~Delete(w)
    BY <2>2 DEF Handle, Request, Get, Check, Register, Find, RemoveFile, CloseDropped, OpenFile,
                Write, stopping
  <2> QED
    BY <2>1, <2>2
<1>3. ASSUME Saves, due' = due,
             \A a \in due : Waits(a) => reg'[a[1]] = reg[a[1]] /\ cols'[reg[a[1]]].open
      PROVE  AllSafe'
  <2> SUFFICES ASSUME NEW a \in due PROVE Safe(a)'
    BY <1>3 DEF AllSafe
  <2>1. a \in Name \X Doc /\ Safe(a)
    BY <1>1 DEF HistoryOK, AllSafe
  <2>2. ASSUME Waits(a) PROVE a[1] \in must' \ visited'
    <3>1. CASE Delete(w)
      <4>1. reg'[a[1]] # None /\ a[1] \in must \ visited
        BY <1>3, <2>2 DEF Waits
      <4>2. reg' = [reg EXCEPT ![req[w].name] = None] /\ req[w].name \in Name
        BY <1>1, <3>1 DEF Delete, At, HandlersOK
      <4> QED
        BY <1>1, <1>2, <3>1, <4>1, <4>2 DEF MemoryOK
    <3>2. CASE ~Delete(w)
      BY <1>2, <2>2, <3>2 DEF Waits, stopping
    <3> QED
      BY <3>1, <3>2
  <2> QED
    BY <1>2, <1>3, <2>1, <2>2, SafeSaved DEF Waits
<1>4. \A a \in due : a[1] \in Name /\ (Waits(a) => reg[a[1]] \in Collection)
  BY <1>1 DEF HistoryOK, Waits, MemoryOK
<1>5. ASSUME \/ Get(w) \/ Check(w) \/ Find(w)
             \/ \E kind \in Kind, n \in Name : Request(w, kind, n)
      PROVE  AllSafe'
  <2>1. UNCHANGED <<dir, content, cols, reg, due>>
    BY <1>5 DEF Get, Check, Find, Request, disk, history
  <2> QED
    BY <1>3, <2>1, AsideSaves DEF Waits
<1>6. ASSUME NEW c \in Collection, OpenFile(w, c) PROVE AllSafe'
  <2>1. /\ req[w].name \in Name /\ OpenAs(c, req[w].name) /\ UNCHANGED <<content, reg, due>>
    BY <1>1, <1>6 DEF OpenFile, At, HandlersOK, history
  <2> SUFFICES ASSUME NEW a \in due PROVE Safe(a)'
    BY <2>1 DEF AllSafe
  <2> QED
    BY <1>1, <1>2, <1>6, <2>1, SafeOpened DEF AllSafe, HistoryOK, OpenFile
<1>7. CASE Register(w)
  <2>1. /\ UNCHANGED <<dir, content, cols, due>> /\ req[w].name \in Name
        /\ reg' = [reg EXCEPT ![req[w].name] = held[w]] /\ reg[req[w].name] = None
    BY <1>1, <1>7 DEF Register, At, HandlersOK, Finds, Found, disk, history
  <2>2. \A a \in due : Waits(a) => reg'[a[1]] = reg[a[1]]
    BY <1>1, <1>4, <2>1 DEF Waits, MemoryOK
  <2> QED
    BY <1>3, <2>1, <2>2, AsideSaves DEF Waits
<1>8. ASSUME NEW x \in Doc, Write(w, x) PROVE AllSafe'
  <2>1. UNCHANGED <<reg, due>>
    BY <1>8 DEF Write
  <2> QED
    BY <1>3, <1>4, <1>8, <2>1, WriteSaves DEF Waits
<1>9. CASE RemoveFile(w)
  <2>1. req[w].name \in Name /\ UNCHANGED <<cols, reg>>
    BY <1>1, <1>9 DEF RemoveFile, At, HandlersOK
  <2> PICK n \in Name : req[w].name = n
    BY <2>1
  <2>2. CASE dir[n] = None
    BY <1>9, <2>2 DEF RemoveFile, AllSafe, Safe, Waits, stopping
  <2>3. CASE dir[n] # None
    <3>1. /\ dir' = [dir EXCEPT ![n] = None] /\ content' = [content EXCEPT ![dir[n]] = {}]
          /\ due' = {a \in due : a[1] # n}
      BY <1>9, <2>3 DEF RemoveFile
    <3> SUFFICES ASSUME NEW a \in due, a[1] # n PROVE Safe(a)'
      BY <3>1 DEF AllSafe
    <3>2. a[1] \in Name /\ Safe(a)
      BY <1>4 DEF AllSafe
    <3> PICK m \in Name : a[1] = m
      BY <3>2
    <3>3. dir'[m] = dir[m] /\ dir[m] # None /\ dir[m] # dir[n] /\ dir[m] \in File
      BY <1>1, <3>1, <3>2 DEF DiskOK, FilesInv, FilesDiffer, Safe
    <3>4. content'[dir[m]] = content[dir[m]]
      BY <1>1, <3>1, <3>3 DEF DiskOK
    <3> QED
      BY <1>9, <2>1, <3>2, <3>3, <3>4 DEF RemoveFile, Safe, Waits, stopping
  <2> QED
    BY <2>2, <2>3
<1>10. CASE Delete(w)
  <2>1. /\ UNCHANGED <<dir, content, cols, due>> /\ req[w].name \in Name
        /\ reg' = [reg EXCEPT ![req[w].name] = None] /\ dir[req[w].name] = None
    BY <1>1, <1>10 DEF Delete, At, HandlersOK, Finds, Found, disk, history
  <2>2. \A a \in due : reg'[a[1]] = reg[a[1]]
    BY <1>1, <1>4, <2>1 DEF AllSafe, Safe, MemoryOK
  <2> QED
    BY <1>3, <2>1, <2>2, AsideSaves DEF Waits
<1>11. CASE CloseDropped(w)
  <2>1. /\ held[w] \in Collection /\ CloseCol(held[w]) /\ UNCHANGED <<dir, reg, due>>
        /\ \A n \in Name : reg[n] # held[w]
    BY <1>1, <1>11 DEF CloseDropped, At, HandlersOK, Holding, history, Inv, ServedInv, DropIsOwn
  <2>2. Saves /\ \A d \in Collection \ {held[w]} : cols[d].open => cols'[d].open
    BY <2>1, ClosingSaves
  <2> QED
    BY <1>3, <1>4, <2>1, <2>2 DEF Waits
<1> QED
  BY <1>5, <1>6, <1>7, <1>8, <1>9, <1>10, <1>11 DEF Handle

LEMMA DueNext ==
  ASSUME Inv, AllInv, StopInv, [Next]_vars
  PROVE  DueInv'
<1> SUFFICES ASSUME stop' # "idle", ~crossed' PROVE AllSafe'
  BY DEF DueInv
<1>1. /\ MemoryOK /\ HandlersOK /\ HistoryOK /\ LifeOK /\ FilesInv
      /\ DocsKept /\ WalkInv /\ FindsInv /\ DueInv
  BY DEF Inv, TypeInv, AllInv, StopInv
<1>2. CASE Exit \/ Crash
  BY <1>2 DEF Exit, Crash, Down
<1>3. CASE Signal
  BY <1>1, <1>3, SignalSafe DEF Signal
<1>4. ASSUME NEW n \in Name, StopOne(n) PROVE AllSafe'
  BY <1>1, <1>4, StopOneSafe DEF DueInv, StopOne, history
<1>5. CASE StopDone
  BY <1>1, <1>5, StopDoneSafe DEF DueInv, StopDone, history
<1>6. ASSUME NEW w \in Worker,
             Handle(w) \/ \E kind \in Kind, n \in Name : Request(w, kind, n)
      PROVE  AllSafe'
  <2>1. stop # "idle" /\ ~crossed
    BY <1>1, <1>6 DEF Handle, Request, Get, Check, Register, Find, RemoveFile, Delete, CloseDropped,
                      OpenFile, Write, stopping, history, HistoryOK
  <2> QED
    BY <1>1, <1>6, <2>1, HandlerSafe DEF FindsInv, DueInv
<1>7. ASSUME UNCHANGED <<dir, content, cols, reg, stopping, due, crossed>> PROVE AllSafe'
  BY <1>1, <1>7 DEF DueInv, AllSafe, Safe, Waits, stopping
<1>8. CASE Start \/ LoadDone \/ UNCHANGED vars
  <2>1. UNCHANGED <<dir, content, cols, reg, stopping, due, crossed>>
    BY <1>8 DEF Start, LoadDone, vars, disk, history, stopping
  <2> QED
    BY <1>7, <2>1
<1>9. ASSUME NEW c \in Collection, Tick(c) PROVE AllSafe'
  <2>1. UNCHANGED <<reg, stopping, due, crossed>>
    BY <1>9 DEF Tick, history
  <2> SUFFICES ASSUME NEW a \in due PROVE Safe(a)'
    BY <2>1 DEF AllSafe
  <2>2. Safe(a) /\ a \in Name \X Doc /\ a[1] \in Name
    BY <1>1, <2>1 DEF DueInv, AllSafe, HistoryOK, stopping
  <2>3. Saves /\ \A d \in Collection : cols[d].open => cols'[d].open
    BY <1>9, TickSaves
  <2>4. Waits(a) => reg[a[1]] \in Collection
    BY <1>1, <2>2 DEF Waits, MemoryOK
  <2> QED
    BY <2>1, <2>2, <2>3, <2>4, SafeSaved DEF Waits, stopping
<1>10. ASSUME NEW n \in Name, NEW c \in Collection, LoadOne(n, c) PROVE AllSafe'
  <2>1. /\ UNCHANGED <<content, stopping, due, crossed>> /\ n \in toLoad /\ load = "walking"
        /\ \/ UNCHANGED <<dir, cols, reg>>
           \/ OpenAs(c, n) /\ reg' = [reg EXCEPT ![n] = c]
    BY <1>10 DEF LoadOne, history
  <2>2. CASE OpenAs(c, n) /\ reg' = [reg EXCEPT ![n] = c]
    <3> SUFFICES ASSUME NEW a \in due PROVE Safe(a)'
      BY <2>1 DEF AllSafe
    <3>1. Safe(a) /\ a \in Name \X Doc /\ a[1] \in Name
      BY <1>1, <2>1 DEF DueInv, AllSafe, HistoryOK, stopping
    <3>2. reg[n] = None
      BY <1>1, <2>1 DEF WalkInv
    <3>3. Waits(a) => reg'[a[1]] = reg[a[1]]
      BY <1>1, <2>2, <3>1, <3>2 DEF Waits, MemoryOK
    <3> QED
      BY <1>1, <2>1, <2>2, <3>1, <3>3, SafeOpened
  <2> QED
    BY <1>7, <2>1, <2>2
<1> QED
  BY <1>2, <1>3, <1>4, <1>5, <1>6, <1>8, <1>9, <1>10 DEF Next, LoadStep, StopStep

LEMMA StopInvariant == Spec => [](Inv /\ AllInv /\ StopInv)
<1>1. Init => Inv /\ AllInv /\ StopInv
  BY InvInit, AllInit, StopInit
<1>2. (Inv /\ AllInv /\ StopInv) /\ [Next]_vars => (Inv /\ AllInv /\ StopInv)'
  <2> SUFFICES ASSUME Inv, AllInv, StopInv, [Next]_vars PROVE (Inv /\ AllInv /\ StopInv)'
    OBVIOUS
  <2>1. DocsKept' /\ WalkInv' /\ FindsInv' /\ DueInv'
    BY DocsNext, WalkNext, FindsNext, DueNext DEF StopInv, AllInv
  <2> QED
    BY <2>1, InvNext, AllNext DEF StopInv
<1> QED
  BY <1>1, <1>2, PTL DEF Spec

\* Stop (database.go:139-156) ranges over the map and closes what it finds
\* while requests go on: each document that was answered as stored when it
\* began is in a file of its name when it has ended, unless that name was
\* dropped, whatever the other requests create, drop and insert meanwhile.
THEOREM SpecStopKeepsWhatIsDue == Spec => []StopKeepsWhatIsDue
<1>1. Inv /\ AllInv /\ StopInv => StopKeepsWhatIsDue
  <2> SUFFICES ASSUME Inv, AllInv, StopInv, stop = "stopped", ~crossed, NEW a \in due
               PROVE  a \in OnDisk(dir, content)
    BY DEF StopKeepsWhatIsDue
  <2>1. Safe(a) /\ ~Waits(a)
    BY DEF StopInv, DueInv, AllSafe, Waits
  <2>2. a \in Name \X Doc
    BY DEF Inv, TypeInv, HistoryOK
  <2> QED
    BY <2>1, <2>2 DEF Safe, OnDisk
<1> QED
  BY <1>1, StopInvariant, PTL
=============================================================================

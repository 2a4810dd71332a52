------------------------------ MODULE Database ------------------------------
(***************************************************************************)
(* The registry of collections and the life of the process: Load, Start    *)
(* and Stop of database.go, CreateCollection of service.go, the handlers   *)
(* that create a collection (createCollection, insert), dropCollection,    *)
(* the interceptor that refuses requests, and the signals and the exit of  *)
(* bootstrap.go.  The map db.Collections is read and written by handlers   *)
(* and by Load and Stop with no lock.                                      *)
(*                                                                         *)
(* A collection is the set of its documents, a file the set of the         *)
(* documents whose commands are in it.  A step is what a goroutine does    *)
(* between two accesses to the map, the directory or a file; a file whose  *)
(* last command is torn (see Journal) makes OpenCollection fail.  Go stops *)
(* the process when it meets two unlocked accesses to a map, and when a    *)
(* second signal closes the exit channel again: both are Crash here.       *)
(*                                                                         *)
(*   process, status, accepting   of the program, db.status, http.Server   *)
(*   dir, content, torn           directory entries, documents, torn names *)
(*   reg                          db.Collections                           *)
(*   cols                         the Collection objects                   *)
(*   load, toLoad                 Load, and the names it has still to open *)
(*   stop, must, visited          Stop, the entries its range began with   *)
(*                                that are still there, and those visited  *)
(*   pc, req, held                of a handler: step, request, collection  *)
(* History, read by the properties only:                                   *)
(*   issued   documents sent so far                                        *)
(*   acked    <<name, document>> answered without error and not dropped    *)
(*   due      those that were acked when Stop began                        *)
(*   crossed  two requests created or dropped one name at the same time    *)
(***************************************************************************)
EXTENDS Naturals, FiniteSets

CONSTANTS
  Worker, Name, File,
  Doc,          \* bounds the documents of a behaviour
  Collection,   \* bounds the Collection objects in use at a time
  None

ASSUME DatabaseAssumption == None \notin File \cup Collection \cup Name

VARIABLES process, status, accepting, dir, content, torn, reg, cols, load, toLoad,
          stop, must, visited, pc, req, held, issued, acked, due, crossed

disk == <<dir, content, torn>>
loading == <<load, toLoad>>
stopping == <<stop, must, visited>>
handlers == <<pc, req, held>>
history == <<issued, acked, due, crossed>>
vars == <<process, status, accepting, dir, content, torn, reg, cols, load, toLoad,
          stop, must, visited, pc, req, held, issued, acked, due, crossed>>

Kind == {"insert", "create", "drop"}
Idle == [kind |-> "insert", name |-> None]
Closed == [open |-> FALSE, file |-> None, docs |-> {}, buffer |-> {}]

Listed(d) == {n \in Name : d[n] # None}
OnDisk(d, c) == {a \in Name \X Doc : d[a[1]] # None /\ a[2] \in c[d[a[1]]]}
Running == process = "running"

\* Collections nothing holds any more, and inodes no entry and no open
\* collection refers to.
InUse(c) == (\E n \in Name : reg[n] = c) \/ \E w \in Worker : held[w] = c
Linked(f) == (\E n \in Name : dir[n] = f) \/ \E c \in Collection : cols[c].file = f
Spare == {c \in Collection : ~cols[c].open /\ ~InUse(c)}
Unlinked == {f \in File : ~Linked(f)}

-----------------------------------------------------------------------------
\* OpenCollection(n) as the object c: O_CREATE makes the file if there is none.
Opened(f) == [open |-> TRUE, file |-> f, docs |-> content[f], buffer |-> {}]
OpenAs(c, n) ==
  /\ Spare # {} /\ c = CHOOSE d \in Spare : TRUE
  /\ IF dir[n] # None
     THEN cols' = [cols EXCEPT ![c] = Opened(dir[n])] /\ UNCHANGED dir
     ELSE /\ Unlinked # {}
          /\ LET f == CHOOSE g \in Unlinked : TRUE IN
             dir' = [dir EXCEPT ![n] = f] /\ cols' = [cols EXCEPT ![c] = Opened(f)]

\* Flush, and Collection.Close: an error if it is closed already.  Nobody
\* reads what is written to a file that has no directory entry any more.
FlushTo(c) ==
  IF \E n \in Name : dir[n] = cols[c].file
  THEN [content EXCEPT ![cols[c].file] = @ \cup cols[c].buffer] ELSE content
CloseCol(c) ==
  IF cols[c].open THEN content' = FlushTo(c) /\ cols' = [cols EXCEPT ![c] = Closed]
  ELSE UNCHANGED <<content, cols>>

Goto(w, label) == pc' = [pc EXCEPT ![w] = label]
At(w, label) == Running /\ pc[w] = label
Answer(w) ==
  /\ pc' = [pc EXCEPT ![w] = "idle"]
  /\ req' = [req EXCEPT ![w] = Idle]
  /\ held' = [held EXCEPT ![w] = None]

\* Another handler is between its look at the registry and its change of it.
Changing(v, n) == req[v].name = n /\ pc[v] \in {"open", "register", "remove", "delete"}
Crosses(w) == \E v \in Worker \ {w} : Changing(v, req[w].name)

-----------------------------------------------------------------------------
Init ==
  /\ process = "down" /\ status = "opening" /\ accepting = FALSE
  /\ dir = [n \in Name |-> None]
  /\ content = [f \in File |-> {}]
  /\ torn = {}
  /\ reg = [n \in Name |-> None]
  /\ cols = [c \in Collection |-> Closed]
  /\ load = "done" /\ toLoad = {}
  /\ stop = "idle" /\ must = {} /\ visited = {}
  /\ pc = [w \in Worker |-> "idle"]
  /\ req = [w \in Worker |-> Idle]
  /\ held = [w \in Worker |-> None]
  /\ issued = {} /\ acked = {} /\ due = {}
  /\ crossed = FALSE

\* Bootstrap: a new Database, its Load in a goroutine, the server serving.
Start ==
  /\ process = "down"
  /\ process' = "running" /\ status' = "opening" /\ accepting' = TRUE
  /\ load' = "walking" /\ toLoad' = Listed(dir)
  /\ UNCHANGED <<disk, reg, cols, stopping, handlers, history>>

\* Mutant: the status of a failed Load is one that nobody looks for.
LoadOneFailed(n, c) ==
  /\ Running /\ load = "walking" /\ n \in toLoad
  /\ IF n \in torn
     THEN /\ load' = "failed" /\ status' = "failed"
          /\ UNCHANGED <<toLoad, dir, reg, cols>>
     ELSE /\ OpenAs(c, n)
          /\ reg' = [reg EXCEPT ![n] = c]
          /\ toLoad' = toLoad \ {n}
          /\ UNCHANGED <<load, status>>
  /\ UNCHANGED <<process, accepting, content, torn, stopping, handlers, history>>

\* Load: the next file of the walk; one that cannot be opened ends it.
LoadOne(n, c) ==
  /\ Running /\ load = "walking" /\ n \in toLoad
  /\ IF n \in torn
     THEN /\ load' = "failed" /\ status' = "closing"
          /\ UNCHANGED <<toLoad, dir, reg, cols>>
     ELSE /\ OpenAs(c, n)
          /\ reg' = [reg EXCEPT ![n] = c]
          /\ toLoad' = toLoad \ {n}
          /\ UNCHANGED <<load, status>>
  /\ UNCHANGED <<process, accepting, content, torn, stopping, handlers, history>>

\* Mutant: the service is opened before the walk.
LoadDoneEarly ==
  /\ Running /\ load = "walking" /\ status # "operating"
  /\ status' = "operating"
  /\ load' = IF toLoad = {} THEN "done" ELSE load
  /\ UNCHANGED <<process, accepting, toLoad, stopping, disk, reg, cols, handlers, history>>

\* ... at the end of the walk the status is operating, whatever it was.
LoadDone ==
  /\ Running /\ load = "walking" /\ toLoad = {}
  /\ status' = "operating" /\ load' = "done"
  /\ UNCHANGED <<process, accepting, toLoad, stopping, disk, reg, cols, handlers, history>>

-----------------------------------------------------------------------------
\* InterceptorUnavailable lets a request through while the status is operating.
Request(w, kind, n) ==
  /\ At(w, "idle") /\ accepting /\ status = "operating"
  /\ req' = [req EXCEPT ![w] = [kind |-> kind, name |-> n]]
  /\ Goto(w, IF kind = "insert" THEN "get" ELSE IF kind = "create" THEN "check" ELSE "find")
  /\ UNCHANGED <<process, status, accepting, loading, stopping, disk, reg, cols, held, history>>

\* insert: GetCollection, or CreateCollection if there is none.
Get(w) ==
  LET c == reg[req[w].name] IN
  /\ At(w, "get")
  /\ IF c = None THEN Goto(w, "check") /\ UNCHANGED held
     ELSE Goto(w, "write") /\ held' = [held EXCEPT ![w] = c]
  /\ UNCHANGED <<process, status, accepting, loading, stopping, disk, reg, cols, req, history>>

\* Mutant: the name is not looked up first.
CheckNothing(w) ==
  /\ At(w, "check")
  /\ Goto(w, "open") /\ UNCHANGED <<req, held>> /\ crossed' = (crossed \/ Crosses(w))
  /\ UNCHANGED <<process, status, accepting, loading, stopping, disk, reg, cols,
                 issued, acked, due>>

\* Service.CreateCollection: the name is looked up ...
Check(w) ==
  /\ At(w, "check")
  /\ IF reg[req[w].name] # None THEN Answer(w) /\ UNCHANGED crossed
     ELSE Goto(w, "open") /\ UNCHANGED <<req, held>> /\ crossed' = (crossed \/ Crosses(w))
  /\ UNCHANGED <<process, status, accepting, loading, stopping, disk, reg, cols,
                 issued, acked, due>>

\* ... the file is opened or created ...
OpenFile(w, c) ==
  /\ At(w, "open")
  /\ OpenAs(c, req[w].name)
  /\ held' = [held EXCEPT ![w] = c]
  /\ Goto(w, "register")
  /\ UNCHANGED <<process, status, accepting, loading, stopping, content, torn, reg, req, history>>

\* ... and the collection is put into the map; an insert goes on with it.
Register(w) ==
  /\ At(w, "register")
  /\ reg' = [reg EXCEPT ![req[w].name] = held[w]]
  /\ IF req[w].kind = "insert" THEN Goto(w, "write") /\ UNCHANGED <<req, held>> ELSE Answer(w)
  /\ UNCHANGED <<process, status, accepting, loading, stopping, disk, cols, history>>

\* Collection.Insert: the document is in memory and in the buffer.
Write(w, x) ==
  LET c == held[w]
      n == req[w].name IN
  /\ At(w, "write")
  /\ Doc \ issued # {} /\ x = CHOOSE y \in Doc \ issued : TRUE
  /\ issued' = issued \cup {x}
  /\ IF cols[c].open
     THEN /\ cols' = [cols EXCEPT ![c].docs = @ \cup {x}, ![c].buffer = @ \cup {x}]
          /\ acked' = IF dir[n] = cols[c].file THEN acked \cup {<<n, x>>} ELSE acked
     ELSE UNCHANGED <<cols, acked>>
  /\ Answer(w)
  /\ UNCHANGED <<process, status, accepting, loading, stopping, disk, reg, due, crossed>>

\* DropCollection: the name is looked up ...
Find(w) ==
  LET c == reg[req[w].name] IN
  /\ At(w, "find")
  /\ IF c = None THEN Answer(w) /\ UNCHANGED crossed
     ELSE /\ held' = [held EXCEPT ![w] = c]
          /\ Goto(w, "remove") /\ UNCHANGED req
          /\ crossed' = (crossed \/ Crosses(w))
  /\ UNCHANGED <<process, status, accepting, loading, stopping, disk, reg, cols,
                 issued, acked, due>>

\* ... the file is removed (an error if it is gone) ...
RemoveFile(w) ==
  LET n == req[w].name IN
  /\ At(w, "remove")
  /\ IF dir[n] = None THEN Answer(w) /\ UNCHANGED <<dir, content, acked, due>>
     ELSE /\ dir' = [dir EXCEPT ![n] = None]
          /\ content' = [content EXCEPT ![dir[n]] = {}]
          /\ acked' = {a \in acked : a[1] # n} /\ due' = {a \in due : a[1] # n}
          /\ Goto(w, "delete") /\ UNCHANGED <<req, held>>
  /\ UNCHANGED <<process, status, accepting, loading, stopping, torn, reg, cols,
                 issued, crossed>>

\* Mutant: the collection is closed before its entry is deleted.
DeleteLast(w) ==
  /\ At(w, "delete")
  /\ CloseCol(held[w])
  /\ Goto(w, "close")
  /\ UNCHANGED <<process, status, accepting, loading, stopping, dir, torn, reg, req, held, history>>

\* ... the entry is deleted; if it is added again while Stop ranges over the
\* map, the range may come to it or skip it ...
Delete(w) ==
  LET n == req[w].name IN
  /\ At(w, "delete")
  /\ reg' = [reg EXCEPT ![n] = None]
  /\ must' = must \ {n} /\ visited' = visited \ {n}
  /\ Goto(w, "close")
  /\ UNCHANGED <<process, status, accepting, loading, stop, disk, cols, req, held, history>>

\* ... and the collection found at the beginning is closed.
CloseDropped(w) ==
  /\ At(w, "close")
  /\ CloseCol(held[w])
  /\ Answer(w)
  /\ UNCHANGED <<process, status, accepting, loading, stopping, dir, torn, reg, history>>

\* The ten-second tick of a collection, registered or not.
Tick(c) ==
  /\ Running /\ cols[c].open /\ cols[c].buffer # {}
  /\ content' = FlushTo(c)
  /\ cols' = [cols EXCEPT ![c].buffer = {}]
  /\ UNCHANGED <<process, status, accepting, loading, stopping, dir, torn, reg, handlers, history>>

-----------------------------------------------------------------------------
\* A signal: Stop sets the status and ranges over the map.
Signal ==
  /\ Running /\ stop = "idle"
  /\ status' = "closing"
  /\ stop' = "closing" /\ must' = Listed(reg)
  /\ due' = acked
  /\ UNCHANGED <<process, accepting, loading, visited, disk, reg, cols, handlers,
                 issued, acked, crossed>>

\* The next entry, one added meanwhile or not; each entry comes once.
StopOne(n) ==
  /\ Running /\ stop = "closing"
  /\ n \notin visited /\ reg[n] # None
  /\ visited' = visited \cup {n}
  /\ CloseCol(reg[n])
  /\ UNCHANGED <<process, status, accepting, loading, stop, must, dir, torn, reg,
                 handlers, history>>

\* Mutant: Stop does not wait for the end of the range.
StopDoneEarly ==
  /\ Running /\ stop = "closing"
  /\ stop' = "stopped" /\ accepting' = FALSE
  /\ UNCHANGED <<process, status, loading, must, visited, disk, reg, cols, handlers, history>>

\* Mutant: the exit channel is closed only if no other entry was visited.
StopDoneIfAll ==
  /\ Running /\ stop = "closing" /\ must = visited
  /\ stop' = "stopped" /\ accepting' = FALSE
  /\ UNCHANGED <<process, status, loading, must, visited, disk, reg, cols, handlers, history>>

\* The range may end when the entries it began with are visited or were
\* deleted; then the exit channel is closed and the server shut down.
StopDone ==
  /\ Running /\ stop = "closing"
  /\ must \subseteq visited
  /\ stop' = "stopped" /\ accepting' = FALSE
  /\ UNCHANGED <<process, status, loading, must, visited, disk, reg, cols, handlers, history>>

\* The process is gone: memory, handlers and buffers with it.
Down ==
  /\ process' = "down" /\ status' = "opening" /\ accepting' = FALSE
  /\ reg' = [n \in Name |-> None]
  /\ cols' = [c \in Collection |-> Closed]
  /\ load' = "done" /\ toLoad' = {}
  /\ stop' = "idle" /\ must' = {} /\ visited' = {}
  /\ pc' = [w \in Worker |-> "idle"]
  /\ req' = [w \in Worker |-> Idle]
  /\ held' = [w \in Worker |-> None]
  /\ acked' = OnDisk(dir, content) /\ due' = {} /\ crossed' = FALSE
  /\ UNCHANGED <<dir, content, issued>>

\* main returns as soon as Start and Serve have: handlers are not waited for.
Exit == Running /\ stop = "stopped" /\ Down /\ UNCHANGED torn

\* The process is killed; a file whose buffer had spilled may end in half a
\* command, whose documents are those before it.
Spilling(n) ==
  \E c \in Collection : dir[n] # None /\ cols[c].file = dir[n] /\ cols[c].buffer # {}
Crash ==
  /\ Running /\ Down
  /\ \E T \in SUBSET {n \in Name : Spilling(n)} : torn' = torn \cup T

LoadStep == LoadDone \/ \E n \in Name, c \in Collection : LoadOne(n, c)
Handle(w) ==
  \/ Get(w) \/ Check(w) \/ Register(w) \/ Find(w) \/ RemoveFile(w) \/ Delete(w)
  \/ CloseDropped(w)
  \/ \E c \in Collection : OpenFile(w, c)
  \/ \E x \in Doc : Write(w, x)
StopStep == StopDone \/ Exit \/ \E n \in Name : StopOne(n)

Next ==
  \/ Start \/ LoadStep
  \/ \E w \in Worker : Handle(w) \/ \E kind \in Kind, n \in Name : Request(w, kind, n)
  \/ \E c \in Collection : Tick(c)
  \/ Signal \/ StopStep
  \/ Crash

Spec == Init /\ [][Next]_vars

\* Every goroutine that can run does; a range over a map comes to every entry
\* that stays in it, and ends.
Fairness ==
  /\ WF_vars(LoadStep)
  /\ WF_vars(StopDone) /\ WF_vars(Exit)
  /\ \A n \in Name : WF_vars(StopOne(n))
  /\ \A w \in Worker : WF_vars(Handle(w))
FairSpec == Spec /\ Fairness

-----------------------------------------------------------------------------
Record == [open: BOOLEAN, file: File \cup {None}, docs: SUBSET Doc, buffer: SUBSET Doc]

TypeOK ==
  /\ process \in {"down", "running"}
  /\ status \in {"opening", "operating", "closing"}
  /\ accepting \in BOOLEAN
  /\ dir \in [Name -> File \cup {None}]
  /\ content \in [File -> SUBSET Doc]
  /\ torn \in SUBSET Name
  /\ reg \in [Name -> Collection \cup {None}]
  /\ cols \in [Collection -> Record]
  /\ load \in {"walking", "done", "failed"}
  /\ toLoad \in SUBSET Name
  /\ stop \in {"idle", "closing", "stopped"}
  /\ must \in SUBSET Name /\ visited \in SUBSET Name
  /\ pc \in [Worker -> {"idle", "get", "check", "open", "register", "write",
                        "find", "remove", "delete", "close"}]
  /\ req \in [Worker -> [kind: Kind, name: Name \cup {None}]]
  /\ held \in [Worker -> Collection \cup {None}]
  /\ issued \in SUBSET Doc
  /\ acked \in SUBSET (Name \X Doc) /\ due \in SUBSET (Name \X Doc)
  /\ crossed \in BOOLEAN

\* Until Stop, a collection in the map is open, also while several requests
\* create and drop it at the same time: a drop deletes the entry before it
\* closes the collection, and closes the one it found.
RegisteredIsOpen ==
  Running /\ stop = "idle" => \A n \in Listed(reg) : cols[reg[n]].open

\* Between requests that change the registry one at a time, and after any
\* restart, the map has a collection exactly where the directory has a file,
\* and it is the collection of that file.
Quiet == \A w \in Worker : pc[w] \notin {"register", "delete"}
RegistryMirrorsDirectory ==
  Running /\ status = "operating" /\ stop = "idle" /\ Quiet /\ ~crossed =>
    \A n \in Name : IF dir[n] = None THEN reg[n] = None
                    ELSE reg[n] # None /\ cols[reg[n]].file = dir[n]

\* A document that was stored, before this start of the process or after, is
\* in the collection that requests are given, until the collection is dropped.
AckedIsServed ==
  Running /\ status = "operating" /\ stop = "idle" /\ ~crossed =>
    \A a \in acked : reg[a[1]] # None /\ a[2] \in cols[reg[a[1]]].docs

\* What was stored when Stop began is in the files when it ends, while other
\* handlers still create, drop and insert.
StopKeepsWhatIsDue ==
  stop = "stopped" /\ ~crossed => due \subseteq OnDisk(dir, content)

\* A signal ends the process, whatever Load and the handlers do meanwhile.
StopEndsTheProcess == stop = "closing" ~> process = "down"
=============================================================================

------------------------------- MODULE Server -------------------------------
(***************************************************************************)
(* Concurrent calls of one Database: the handlers of                       *)
(* crates/vexra-server/src/routes.rs over the methods of                   *)
(* crates/vexra-core/src/db.rs, step by step between the locks they take.  *)
(* drop_collection has no route; the C and Python interfaces call it.      *)
(*                                                                         *)
(* Locks: the map of collections, each collection, and the catalog mutex.  *)
(* A parking_lot RwLock is task-fair, so each has a queue.  A call that    *)
(* comes to a lock takes its place there in a step of its own: between the *)
(* release of one lock and the next, others may overtake it.  Whoever is   *)
(* at the head enters when nobody is inside or, to read, when no writer is.*)
(* The lock around the Database itself is only ever read and left out.     *)
(* What a collection does under its lock is in module Collection, what a   *)
(* create or drop does under the mutex in Catalog: both may fail.          *)
(***************************************************************************)
EXTENDS Integers, FiniteSets, Sequences, Functions

CONSTANTS
  Threads,
  Names,       \* collection names
  Busy,        \* bound: the names that calls are about, save create and listings
  Docs,        \* document ids
  Itself,      \* stands beside the documents for the collection itself
  MaxCreated   \* bound: collections created

ASSUME ServerConstants ==
  /\ IsFiniteSet(Threads)
  /\ MaxCreated \in Nat
  /\ Itself \notin Docs
  /\ Busy \subseteq Names

Collections == 1..MaxCreated    \* the Arcs
Map == 0                        \* the lock of Database.collections
Things == Names \X (Docs \cup {Itself})

VARIABLES
  calls,      \* thread -> the call it is in
  contents,   \* the documents of each collection created
  map,        \* Database.collections: name -> collection, 0 for none
  queue,      \* lock -> the threads that wait for it
  acked       \* history: things whose insert or create was answered, and that
              \* no delete or drop was called for since

vars == <<calls, contents, map, queue, acked>>

\* pc is the next step.  todo and found belong to the loops of list and stats
\* and to what a call reads.  known and upset are history: the things acked
\* when the call began, and those that a delete or drop overlaps with it.
Idle == [pc |-> "idle", op |-> "none", name |-> "none", doc |-> Itself,
         col |-> 0, todo |-> {}, found |-> {}, known |-> {}, upset |-> {},
         answer |-> "none"]

Writes == {"insert", "delete"}
Listings == {"list", "stats"}
Ops == Writes \cup Listings \cup {"search", "get", "create", "drop"}

\* The lock a call waits for, -1 for none.
WaitsFor(c) ==
  CASE c.pc \in {"lookup", "names", "map"} -> Map
    [] c.pc = "col" -> c.col
    [] OTHER -> -1

CallRecords ==
  [pc : {"idle", "lookup", "names", "map", "catalog", "col", "in col", "answer"},
   op : Ops \cup {"none"}, name : Names \cup {"none"}, doc : Docs \cup {Itself},
   col : Collections \cup {0}, todo : SUBSET Names,
   found : SUBSET Things, known : SUBSET Things, upset : SUBSET Things,
   answer : {"none", "ok", "not found", "conflict", "error"}]

\* The types; and a thread has at most one place, in the queue of the lock it
\* waits for.
TypeOK ==
  /\ calls \in [Threads -> CallRecords]
  /\ contents \in Seq(SUBSET Docs) /\ Len(contents) <= MaxCreated
  /\ map \in [Names -> 0..Len(contents)]
  /\ queue \in [Collections \cup {Map} -> Seq(Threads)]
  /\ \A l \in DOMAIN queue :
       /\ IsInjective(queue[l])
       /\ Range(queue[l]) \subseteq {t \in Threads : WaitsFor(calls[t]) = l}
  /\ acked \subseteq Things

-----------------------------------------------------------------------------
(* Locks.                                                                  *)

\* Those inside a lock between two steps, and the writers among them.  Of the
\* map that is stats alone: whoever else takes it does all of its work with it
\* in one step, without another lock.
Inside(lock) ==
  {t \in Threads : IF lock = Map
                   THEN calls[t].op = "stats" /\ calls[t].pc \in {"col", "in col"}
                   ELSE calls[t].pc = "in col" /\ calls[t].col = lock}

Writers(lock) == {t \in Inside(lock) : calls[t].op \in Writes}

MayRead(t, lock) ==
  queue[lock] # <<>> /\ Head(queue[lock]) = t /\ Writers(lock) = {}

MayWrite(t, lock) ==
  queue[lock] # <<>> /\ Head(queue[lock]) = t /\ Inside(lock) = {}

Waits(t, lock) == [queue EXCEPT ![lock] = Append(@, t)]
KeepsPlace(lock) == queue
Entered(lock) == [queue EXCEPT ![lock] = Tail(@)]

-----------------------------------------------------------------------------
(* Calls.                                                                  *)

Becomes(t, c) == calls' = [calls EXCEPT ![t] = c]

\* read() or write() of a lock is called: the thread takes its place.
Queue(t) ==
  LET lock == WaitsFor(calls[t])
  IN /\ lock # -1 /\ t \notin Range(queue[lock])
     /\ queue' = Waits(t, lock)
     /\ UNCHANGED <<calls, contents, map, acked>>

Answered(c, answer) ==
  [c EXCEPT !.pc = "answer", !.answer = answer, !.col = 0, !.todo = {}]

\* What a call takes away.
Targets(op, n, d) ==
  CASE op = "delete" -> {<<n, d>>}
    [] op = "drop" -> {n} \X (Docs \cup {Itself})
    [] OTHER -> {}

TargetsOf(c) ==
  IF c.pc = "idle" THEN {} ELSE Targets(c.op, c.name, c.doc)

FirstStep(op) ==
  CASE op \in {"create", "drop", "stats"} -> "map"
    [] op = "list" -> "names"
    [] OTHER -> "lookup"

\* What history a call keeps: of all collections, or of its own.
Concerns(op, n, d) ==
  IF op \in Listings THEN Names \X {Itself}
  ELSE {n} \X (CASE op = "search" -> Docs [] op = "insert" -> {d} [] OTHER -> {})
         \cup {<<n, Itself>>}

Creating == {t \in Threads : calls[t].op = "create"}

\* A call begins when it takes its place at the map, the first lock of each.
Call(t, op, n, d) ==
  /\ calls[t].pc = "idle"
  /\ (op \in Writes) = (d # Itself)
  /\ op \notin Listings \cup {"create"} => n \in Busy
  /\ op = "create" => Len(contents) + Cardinality(Creating) < MaxCreated
  /\ calls' = [u \in Threads |->
       IF u = t
       THEN [Idle EXCEPT !.pc = FirstStep(op), !.op = op, !.name = n, !.doc = d,
                         !.known = Concerns(op, n, d) \cap
                                     (acked \ Targets(op, n, d)),
                         !.upset = Concerns(op, n, d) \cap
                                     UNION {TargetsOf(calls[v]) : v \in Threads}]
       ELSE IF calls[u].pc = "idle" THEN Idle
       ELSE [calls[u] EXCEPT !.upset = @ \cup (Targets(op, n, d) \cap
                Concerns(calls[u].op, calls[u].name, calls[u].doc))]]
  /\ queue' = Waits(t, Map)
  /\ acked' = acked \ Targets(op, n, d)
  /\ UNCHANGED <<contents, map>>

\* The next collection of a listing, which takes the map's lock again for each.
SameAgain(todo, x) == todo
RestOf(todo, x) == todo \ {x}
NextName(t, c) ==
  IF c.todo = {}
  THEN Becomes(t, Answered(c, "ok"))
  ELSE \E n \in c.todo : Becomes(t, [c EXCEPT !.pc = "lookup", !.name = n,
                                              !.todo = RestOf(@, n)])

\* list_collections of the database: the keys of the map.
ListNames(t) ==
  /\ calls[t].pc = "names" /\ MayRead(t, Map)
  /\ NextName(t, [calls[t] EXCEPT !.todo = {n \in Names : map[n] # 0}])
  /\ queue' = Entered(Map)
  /\ UNCHANGED <<contents, map, acked>>

\* The Arc that get_collection clones, 0 for none.
TryClone(n) == IF Len(queue[Map]) = 1 THEN map[n] ELSE 0
Clone(n) == map[n]

\* get_collection: the map is locked while the Arc is cloned.
Lookup(t) ==
  LET c == calls[t]
  IN /\ c.pc = "lookup" /\ MayRead(t, Map)
     /\ IF Clone(c.name) # 0
        THEN Becomes(t, [c EXCEPT !.pc = "col", !.col = Clone(c.name)])
        ELSE IF c.op = "list" THEN NextName(t, c)
        ELSE Becomes(t, Answered(c, "not found"))
     /\ queue' = Entered(Map)
     /\ UNCHANGED <<contents, map, acked>>

\* stats reads the collections while it holds the map.
NextCollection(t, c) ==
  IF c.todo = {}
  THEN Becomes(t, Answered(c, "ok"))
  ELSE \E n \in c.todo : Becomes(t, [c EXCEPT !.pc = "col", !.name = n,
                                              !.col = map[n], !.todo = @ \ {n}])

Stats(t) ==
  LET present == {n \in Names : map[n] # 0}
      c == calls[t]
  IN /\ c.pc = "map" /\ c.op = "stats" /\ MayRead(t, Map)
     /\ NextCollection(t, [c EXCEPT !.todo = present])
     /\ queue' = Entered(Map)
     /\ UNCHANGED <<contents, map, acked>>

EnterCollection(t) ==
  LET c == calls[t]
  IN /\ c.pc = "col"
     /\ IF c.op \in Writes THEN MayWrite(t, c.col) ELSE MayRead(t, c.col)
     /\ Becomes(t, [c EXCEPT !.pc = "in col"])
     /\ queue' = Entered(c.col)
     /\ UNCHANGED <<contents, map, acked>>

Write(t) ==
  LET c == calls[t]
  IN /\ c.pc = "in col" /\ c.op \in Writes
     /\ contents' = [contents EXCEPT ![c.col] =
                       IF c.op = "insert" THEN @ \cup {c.doc} ELSE @ \ {c.doc}]
     /\ Becomes(t, Answered(c, "ok"))
     /\ UNCHANGED <<map, queue, acked>>

\* A vector of another dimension, or a page that cannot be written: when it is
\* that of the metadata, the vector is already stored.
WriteFails(t) ==
  LET c == calls[t]
  IN /\ c.pc = "in col" /\ c.op = "insert"
     /\ contents' \in {contents, [contents EXCEPT ![c.col] = @ \cup {c.doc}]}
     /\ Becomes(t, Answered(c, "error"))
     /\ UNCHANGED <<map, queue, acked>>

\* A collection read: its documents, or its name and dimension.
Read(t) ==
  LET c == calls[t]
      seen == IF c.op = "search" THEN {c.name} \X contents[c.col]
                                 ELSE {<<c.name, Itself>>}
      r == [c EXCEPT !.found = @ \cup seen]
  IN /\ c.pc = "in col" /\ c.op \notin Writes
     /\ IF c.op = "list" THEN NextName(t, r)
        ELSE IF c.op = "stats" THEN NextCollection(t, r)
        ELSE Becomes(t, Answered(r, "ok"))
     /\ UNCHANGED <<contents, map, queue, acked>>

NeverTaken(n) == FALSE
Taken(n) == map[n] # 0

\* create_collection under the map's lock; new_persistent may fail.
Create(t) ==
  LET c == calls[t]
  IN /\ c.pc = "map" /\ c.op = "create" /\ MayWrite(t, Map)
     /\ \/ /\ ~Taken(c.name)
           /\ contents' = Append(contents, {})
           /\ map' = [map EXCEPT ![c.name] = Len(contents')]
           /\ Becomes(t, [c EXCEPT !.pc = "catalog"])
        \/ /\ Becomes(t, Answered(c, "conflict"))
           /\ UNCHANGED <<contents, map>>
     /\ queue' = Entered(Map)
     /\ UNCHANGED acked

Drop(t) ==
  LET c == calls[t]
  IN /\ c.pc = "map" /\ c.op = "drop" /\ MayWrite(t, Map)
     /\ map' = [map EXCEPT ![c.name] = 0]
     /\ IF Taken(c.name) THEN Becomes(t, [c EXCEPT !.pc = "catalog"])
                         ELSE Becomes(t, Answered(c, "not found"))
     /\ queue' = Entered(Map)
     /\ UNCHANGED <<contents, acked>>

\* persist_collection or remove_collection_from_catalog under the mutex.  The
\* handler of a create then reads the collection again.
Persist(t) ==
  LET c == calls[t]
  IN /\ c.pc = "catalog"
     /\ Becomes(t, IF c.op = "create" THEN [c EXCEPT !.pc = "lookup"]
                                      ELSE Answered(c, "ok"))
     /\ UNCHANGED <<contents, map, queue, acked>>

\* The catalog page is full or cannot be written: the map keeps the change.
PersistFails(t) ==
  LET c == calls[t]
  IN /\ c.pc = "catalog"
     /\ Becomes(t, Answered(c, IF c.op = "create" THEN "conflict" ELSE "error"))
     /\ UNCHANGED <<contents, map, queue, acked>>

Answer(t) ==
  LET c == calls[t]
      done == CASE c.op = "insert" -> {<<c.name, c.doc>>}
                [] c.op = "create" -> {<<c.name, Itself>>}
                [] OTHER -> {}
  IN /\ c.pc = "answer"
     /\ acked' = IF c.answer = "ok" THEN acked \cup (done \ c.upset) ELSE acked
     /\ Becomes(t, Idle)
     /\ UNCHANGED <<contents, map, queue>>

Step(t) ==
  \/ Queue(t) \/ ListNames(t) \/ Lookup(t) \/ Stats(t)
  \/ EnterCollection(t) \/ Write(t) \/ WriteFails(t) \/ Read(t)
  \/ Create(t) \/ Drop(t) \/ Persist(t) \/ PersistFails(t)
  \/ Answer(t)

Init ==
  /\ calls = [t \in Threads |-> Idle]
  /\ contents = <<>>
  /\ map = [n \in Names |-> 0]
  /\ queue = [l \in Collections \cup {Map} |-> <<>>]
  /\ acked = {}

Next ==
  \E t \in Threads :
    \/ Step(t)
    \/ \E op \in Ops \ Listings, n \in Names, d \in Docs \cup {Itself} :
         Call(t, op, n, d)
    \/ \E op \in Listings : Call(t, op, "none", Itself)

Spec == Init /\ [][Next]_vars /\ \A t \in Threads : WF_vars(Step(t))

-----------------------------------------------------------------------------
(* Properties.                                                             *)

\* The things that a call must find: acknowledged before it began, and not
\* taken away by a delete or drop that overlaps with it.
Owed(c) == c.known \ c.upset

\* What a call would report of the things it reads.
Scope(c) ==
  CASE c.op = "search" -> {c.name} \X Docs
    [] c.op \in {"list", "stats"} -> Names \X {Itself}
    [] OTHER -> {}

\* A search finds every document whose insert was answered before it began,
\* list and stats find every such collection, and no call is told that one does
\* not exist, whatever runs beside them: neither a second create nor the time
\* between the lookup and the lock loses anything.
AcknowledgedIsFound ==
  \A t \in Threads :
    LET c == calls[t]
    IN /\ c.pc = "answer" /\ c.answer = "ok" =>
            Owed(c) \cap Scope(c) \subseteq c.found
       /\ c.pc = "answer" /\ c.answer = "not found" =>
            <<c.name, Itself>> \notin Owed(c)

\* Of creates with one name, at once or not, a second is not answered with a
\* success; and the one that wins finds its collection when it looks it up
\* again, after it let go of the lock.  Only a drop can change either.
CreatedOnce ==
  \A t \in Threads :
    LET c == calls[t]
    IN c.pc = "answer" /\ c.op = "create" /\ <<c.name, Itself>> \notin c.upset =>
         /\ c.answer # "not found"
         /\ c.answer = "ok" => <<c.name, Itself>> \notin acked

\* Every call is answered: no two wait for each other, list and stats end,
\* and nobody is passed for ever.
EveryCallAnswered ==
  \A t \in Threads : calls[t].pc # "idle" ~> calls[t].pc = "idle"
=============================================================================

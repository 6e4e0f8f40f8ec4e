---------------------------- MODULE ServerProofs ----------------------------
(***************************************************************************)
(* Theorems about concurrent calls of one database, for every set of       *)
(* threads, collection names and documents and every number of collections.*)
(***************************************************************************)
EXTENDS Server, FiniteSetTheorems, TLAPS

-----------------------------------------------------------------------------
(* The inductive invariant.                                                *)

InCollection(c) == c.pc \in {"col", "in col"}

\* Which steps a call of each kind goes through, and what it knows there.  While
\* stats is inside the map, the collections it has yet to read stay there.
ShapeOf(c) ==
  /\ c.pc = "idle" => c = Idle
  /\ c.pc # "idle" => c.op \in Ops /\ (c.op \in Writes) = (c.doc # Itself)
  /\ c.pc # "idle" /\ c.op \notin Listings => c.name \in Names
  /\ c.pc \in {"lookup", "catalog", "col", "in col"} => c.name \in Names
  /\ InCollection(c) => c.col \in 1..Len(contents) /\ c.op # "drop"
  /\ c.pc = "lookup" => c.op \notin {"drop", "stats"}
  /\ c.pc = "names" => c.op = "list"
  /\ c.pc = "map" => c.op \in {"create", "drop", "stats"}
  /\ c.pc = "catalog" => c.op \in {"create", "drop"}
  /\ c.op = "stats" /\ InCollection(c) => \A n \in c.todo : map[n] # 0

\* A document or a collection that a call would find now.
Present(x) ==
  /\ map[x[1]] # 0
  /\ x[2] # Itself => x[2] \in contents[map[x[1]]]

ConcernsOf(c) == Concerns(c.op, c.name, c.doc)
ThingsOf(n) == {n} \X (Docs \cup {Itself})

\* A create that made its collection, unless a drop of that name overlaps.
Won(c) ==
  /\ c.op = "create" /\ <<c.name, Itself>> \notin c.upset
  /\ c.pc \in {"catalog", "lookup", "col", "in col", "answer"}
  /\ c.pc = "answer" => c.answer \in {"ok", "not found"}

\* What a call has put there.
Effect(c) ==
  IF c.op = "insert" /\ c.pc = "answer" /\ c.answer = "ok"
    THEN {<<c.name, c.doc>>}
  ELSE IF Won(c) THEN {<<c.name, Itself>>} ELSE {}

Claims(c) == (c.known \cup Effect(c)) \ c.upset

\* The Arc that a call holds is the one in the map, or a drop overlaps.
HoldsCurrent(c) ==
  InCollection(c) =>
    /\ \A n \in Names : map[n] = c.col => n = c.name
    /\ map[c.name] = c.col \/ ConcernsOf(c) \cap ThingsOf(c.name) \subseteq c.upset

\* A listing has found, or has yet to read, all that it owes.
ListsOwed(c) ==
  c.op \in Listings /\ c.pc \in {"lookup", "col", "in col", "answer"} =>
    \A x \in Owed(c) :
      x[1] \in c.todo \/ x \in c.found \/ (c.pc # "answer" /\ x[1] = c.name)

AnswersRight(c) ==
  c.pc = "answer" =>
    /\ c.op \in Listings => c.todo = {}
    /\ c.op = "search" /\ c.answer = "ok" =>
         Owed(c) \cap ({c.name} \X Docs) \subseteq c.found
    /\ c.answer = "not found" => <<c.name, Itself>> \notin Owed(c)

\* One call by itself.
CallOK(c) ==
  /\ ShapeOf(c)
  /\ acked \cap TargetsOf(c) = {}
  /\ c.known \subseteq ConcernsOf(c) \ TargetsOf(c)
  /\ \A x \in Claims(c) : Present(x)
  /\ Won(c) => /\ <<c.name, Itself>> \notin acked
               /\ c.pc = "answer" => c.answer = "ok"
  /\ HoldsCurrent(c)
  /\ ListsOwed(c)
  /\ AnswersRight(c)

\* Two calls: the one knows what the other takes away, and one create wins.
PairOK(c, d) ==
  /\ d.pc # "idle" => ConcernsOf(d) \cap TargetsOf(c) \subseteq d.upset
  /\ Won(c) /\ Won(d) => c.name # d.name

CallsOK ==
  /\ \A t \in Threads : CallOK(calls[t])
  /\ \A t, u \in Threads : t # u => PairOK(calls[t], calls[u])

MapOK ==
  /\ \A m, n \in Names : map[m] = map[n] /\ map[n] # 0 => m = n
  /\ \A x \in acked : Present(x)

\* The creates that have yet to enter the map fit the bound.
Pending == {t \in Threads : calls[t].op = "create" /\ calls[t].pc = "map"}
RoomForCreates == Len(contents) + Cardinality(Pending) <= MaxCreated

IndInv == TypeOK /\ RoomForCreates /\ MapOK /\ CallsOK
-----------------------------------------------------------------------------
(* Queues.                                                                 *)

Locks == Collections \cup {Map}
Waiting == [t \in Threads |-> WaitsFor(calls[t])]

\* A thread has at most one place, in the queue of the lock that w says.
InPlace(q, w) ==
  /\ q \in [Locks -> Seq(Threads)]
  /\ \A l \in Locks :
       IsInjective(q[l]) /\ Range(q[l]) \subseteq {t \in Threads : w[t] = l}

\* The head of a queue leaves; nobody else moves.
LEMMA TailLeaves ==
  ASSUME NEW s \in Seq(Threads), s # <<>>, IsInjective(s)
  PROVE  /\ Tail(s) \in Seq(Threads) /\ IsInjective(Tail(s))
         /\ Range(Tail(s)) = Range(s) \ {Head(s)}
<1>1. /\ Len(s) \in Nat \ {0} /\ DOMAIN s = 1..Len(s) /\ Head(s) = s[1]
      /\ Tail(s) \in Seq(Threads) /\ DOMAIN Tail(s) = 1..(Len(s) - 1)
      /\ \A i \in 1..(Len(s) - 1) : Tail(s)[i] = s[i + 1]
  OBVIOUS
<1>2. \A i, j \in 1..Len(s) : s[i] = s[j] => i = j
  BY <1>1 DEF IsInjective
<1>3. IsInjective(Tail(s))
  BY <1>1, <1>2 DEF IsInjective
<1>4. ASSUME NEW x \in Range(Tail(s)) PROVE x \in Range(s) \ {Head(s)}
  <2>1. PICK i \in 1..(Len(s) - 1) : x = s[i + 1]
    BY <1>1, <1>4 DEF Range
  <2>2. i + 1 \in 1..Len(s) /\ i + 1 # 1 /\ 1 \in 1..Len(s)
    BY <1>1
  <2>. QED
    BY <1>1, <1>2, <2>1, <2>2 DEF Range
<1>5. ASSUME NEW x \in Range(s) \ {Head(s)} PROVE x \in Range(Tail(s))
  <2>1. PICK i \in 1..Len(s) : x = s[i]
    BY <1>1, <1>5 DEF Range
  <2>2. i - 1 \in 1..(Len(s) - 1) /\ (i - 1) + 1 = i
    BY <1>1, <1>5, <2>1
  <2>3. Tail(s)[i - 1] = x
    BY <1>1, <2>1, <2>2
  <2>. QED
    BY <1>1, <2>2, <2>3 DEF Range
<1>. QED
  BY <1>1, <1>3, <1>4, <1>5

\* A thread that was not in a queue joins at its end.
LEMMA AppendJoins ==
  ASSUME NEW s \in Seq(Threads), IsInjective(s), NEW t \in Threads \ Range(s)
  PROVE  /\ Append(s, t) \in Seq(Threads) /\ IsInjective(Append(s, t))
         /\ Range(Append(s, t)) = Range(s) \cup {t}
<1>. DEFINE r == Append(s, t)
<1>1. /\ Len(s) \in Nat /\ DOMAIN s = 1..Len(s)
      /\ r \in Seq(Threads) /\ DOMAIN r = 1..(Len(s) + 1)
      /\ r[Len(s) + 1] = t
      /\ \A i \in 1..Len(s) : r[i] = s[i]
  OBVIOUS
<1>2. \A i \in 1..Len(s) : s[i] # t
  BY <1>1 DEF Range
<1>. HIDE DEF r
<1>3. IsInjective(r)
  <2>. SUFFICES ASSUME NEW i \in 1..(Len(s) + 1), NEW j \in 1..(Len(s) + 1), r[i] = r[j]
                PROVE  i = j
    BY <1>1 DEF IsInjective
  <2>1. (i \in 1..Len(s) \/ i = Len(s) + 1) /\ (j \in 1..Len(s) \/ j = Len(s) + 1)
    BY <1>1
  <2>. QED
    BY <1>1, <1>2, <2>1 DEF IsInjective
<1>4. Range(r) = Range(s) \cup {t}
  <2>1. \A i \in 1..(Len(s) + 1) : i \in 1..Len(s) \/ i = Len(s) + 1
    BY <1>1
  <2>2. \A i \in 1..Len(s) : i \in 1..(Len(s) + 1)
    BY <1>1
  <2>3. Len(s) + 1 \in 1..(Len(s) + 1)
    BY <1>1
  <2>. QED
    BY <1>1, <2>1, <2>2, <2>3 DEF Range
<1>. QED
  BY <1>1, <1>3, <1>4 DEF r

\* The head of a queue is the thread at its place.
LEMMA Leaves ==
  ASSUME NEW q, NEW w \in [Threads -> Int], InPlace(q, w),
         NEW t \in Threads, NEW l \in Locks, q[l] # <<>>, Head(q[l]) = t
  PROVE  /\ w[t] = l
         /\ InPlace([q EXCEPT ![l] = Tail(@)], [w EXCEPT ![t] = -1])
<1>. DEFINE r == [q EXCEPT ![l] = Tail(@)]
            v == [w EXCEPT ![t] = -1]
<1>1. q[l] \in Seq(Threads) /\ IsInjective(q[l])
  BY DEF InPlace
<1>2. /\ Tail(q[l]) \in Seq(Threads) /\ IsInjective(Tail(q[l]))
      /\ Range(Tail(q[l])) = Range(q[l]) \ {t}
  BY <1>1, TailLeaves
<1>3. t \in Range(q[l])
  BY <1>1 DEF Range
<1>4. w[t] = l
  BY <1>3 DEF InPlace
<1>5. r \in [Locks -> Seq(Threads)]
  BY <1>2 DEF InPlace
<1>6. -1 \notin Locks
  BY ServerConstants DEF Locks, Collections, Map
<1>7. ASSUME NEW k \in Locks
      PROVE  IsInjective(r[k]) /\ Range(r[k]) \subseteq {u \in Threads : v[u] = k}
  <2>1. CASE k = l
    BY <1>2, <1>4, <1>6, <2>1 DEF InPlace
  <2>2. CASE k # l
    BY <1>4, <1>6, <2>2 DEF InPlace
  <2>. QED
    BY <2>1, <2>2
<1>. QED
  BY <1>4, <1>5, <1>7 DEF InPlace

\* A thread takes its place in the queue of the lock it waits for.
LEMMA Joins ==
  ASSUME NEW q, NEW w \in [Threads -> Int], InPlace(q, w),
         NEW l \in Locks, NEW t \in Threads \ Range(q[l]), w[t] = l
  PROVE  InPlace([q EXCEPT ![l] = Append(@, t)], w)
<1>. DEFINE r == [q EXCEPT ![l] = Append(@, t)]
<1>1. q[l] \in Seq(Threads) /\ IsInjective(q[l])
  BY DEF InPlace
<1>2. /\ Append(q[l], t) \in Seq(Threads) /\ IsInjective(Append(q[l], t))
      /\ Range(Append(q[l], t)) = Range(q[l]) \cup {t}
  BY <1>1, AppendJoins
<1>3. r \in [Locks -> Seq(Threads)]
  BY <1>2 DEF InPlace
<1>4. ASSUME NEW k \in Locks
      PROVE  IsInjective(r[k]) /\ Range(r[k]) \subseteq {u \in Threads : w[u] = k}
  <2>1. CASE k = l
    BY <1>2, <2>1 DEF InPlace
  <2>2. CASE k # l
    BY <2>2 DEF InPlace
  <2>. QED
    BY <2>1, <2>2
<1>. QED
  BY <1>3, <1>4 DEF InPlace

\* A thread in no queue may wait for any lock.
LEMMA MayWaitFor ==
  ASSUME NEW q, NEW w \in [Threads -> Int], NEW t \in Threads, NEW l \in Int,
         InPlace(q, [w EXCEPT ![t] = -1])
  PROVE  InPlace(q, [w EXCEPT ![t] = l])
<1>1. -1 \notin Locks
  BY ServerConstants DEF Locks, Collections, Map
<1>2. ASSUME NEW k \in Locks
      PROVE  Range(q[k]) \subseteq {u \in Threads : [w EXCEPT ![t] = l][u] = k}
  <2>1. \A u \in Range(q[k]) : u \in Threads /\ [w EXCEPT ![t] = -1][u] = k
    BY <1>2 DEF InPlace
  <2>2. t \notin Range(q[k])
    BY <1>1, <1>2, <2>1
  <2>. QED
    BY <2>1, <2>2
<1>. QED
  BY <1>2 DEF InPlace
-----------------------------------------------------------------------------
(* What one call does to its own record and place.                         *)

\* Thread t goes on with the record d, and waits where d says.
Moved(t, d) ==
  /\ d \in CallRecords
  /\ calls' = [calls EXCEPT ![t] = d]
  /\ InPlace(queue', [Waiting EXCEPT ![t] = WaitsFor(d)])

\* The same call, later.
Continues(c, d) ==
  /\ c.pc # "idle" /\ d.pc # "idle" /\ d.pc # "map"
  /\ d.op = c.op /\ d.doc = c.doc /\ d.known = c.known /\ d.upset = c.upset
  /\ c.op \notin Listings => d.name = c.name

LEMMA WaitsForIs ==
  ASSUME NEW c
  PROVE  /\ c.pc \in {"lookup", "names", "map"} => WaitsFor(c) = Map
         /\ c.pc = "col" => WaitsFor(c) = c.col
         /\ c.pc \notin {"lookup", "names", "map", "col"} => WaitsFor(c) = -1
<1>1. CASE c.pc \in {"lookup", "names", "map"}
  BY <1>1 DEF WaitsFor
<1>2. CASE c.pc = "col"
  BY <1>2 DEF WaitsFor
<1>3. CASE c.pc \notin {"lookup", "names", "map", "col"}
  BY <1>3 DEF WaitsFor
<1>. QED
  BY <1>1, <1>2, <1>3

LEMMA LocksAreNumbers ==
  Map \in Locks /\ Locks \subseteq Int /\ -1 \notin Locks
  BY ServerConstants DEF Locks, Collections, Map

LEMMA WaitsForALock ==
  ASSUME NEW c \in CallRecords
  PROVE  WaitsFor(c) \in Locks \cup {-1} /\ WaitsFor(c) \in Int
<1>1. c.col \in Locks
  BY DEF CallRecords, Locks, Collections, Map
<1>2. WaitsFor(c) = Map \/ WaitsFor(c) = c.col \/ WaitsFor(c) = -1
  BY WaitsForIs
<1>3. Locks \cup {-1} \subseteq Int
  BY LocksAreNumbers
<1>4. WaitsFor(c) \in Locks \cup {-1}
  BY <1>1, <1>2, LocksAreNumbers
<1>. QED
  BY <1>3, <1>4

LEMMA EveryoneInPlace ==
  ASSUME TypeOK
  PROVE  /\ Waiting \in [Threads -> Int] /\ InPlace(queue, Waiting)
         /\ \A t \in Threads : Waiting[t] = WaitsFor(calls[t])
<1>1. \A t \in Threads : calls[t] \in CallRecords
  BY DEF TypeOK
<1>. QED
  BY <1>1, WaitsForALock DEF TypeOK, Waiting, InPlace, Locks

\* A thread that enters a lock has no place any more.
LEMMA EnteredLeaves ==
  ASSUME TypeOK, NEW t \in Threads, NEW l \in Locks,
         MayRead(t, l) \/ MayWrite(t, l)
  PROVE  InPlace(Entered(l), [Waiting EXCEPT ![t] = -1])
  BY EveryoneInPlace, Leaves DEF MayRead, MayWrite, Entered

\* A thread that waits for nothing has none either.
LEMMA WithoutPlace ==
  ASSUME TypeOK, NEW t \in Threads, WaitsFor(calls[t]) = -1
  PROVE  InPlace(queue, [Waiting EXCEPT ![t] = -1])
<1>1. [Waiting EXCEPT ![t] = -1] = Waiting
  BY EveryoneInPlace
<1>. QED
  BY <1>1, EveryoneInPlace

\* It goes on, and may have another lock to wait for.
LEMMA Settles ==
  ASSUME TypeOK, NEW t \in Threads, NEW d \in CallRecords, Becomes(t, d),
         NEW q, InPlace(q, [Waiting EXCEPT ![t] = -1]), queue' = q
  PROVE  Moved(t, d)
<1>1. Waiting \in [Threads -> Int] /\ WaitsFor(d) \in Int
  BY EveryoneInPlace, WaitsForALock
<1>2. InPlace(queue', [Waiting EXCEPT ![t] = WaitsFor(d)])
  BY <1>1, MayWaitFor
<1>. QED
  BY <1>2 DEF Moved, Becomes

\* The next collection of a listing.
LEMMA NextNameMoves ==
  ASSUME TypeOK, NEW t \in Threads, NEW c \in CallRecords,
         NEW q, InPlace(q, [Waiting EXCEPT ![t] = -1]), queue' = q, NextName(t, c)
  PROVE  \/ c.todo = {} /\ Moved(t, Answered(c, "ok"))
         \/ \E n \in c.todo :
              Moved(t, [c EXCEPT !.pc = "lookup", !.name = n, !.todo = RestOf(@, n)])
<1>1. CASE c.todo = {}
  <2>1. Answered(c, "ok") \in CallRecords
    BY DEF Answered, CallRecords
  <2>. QED
    BY <1>1, <2>1, Settles DEF NextName
<1>2. CASE c.todo # {}
  <2>1. PICK n \in c.todo :
          Becomes(t, [c EXCEPT !.pc = "lookup", !.name = n, !.todo = RestOf(@, n)])
    BY <1>2 DEF NextName
  <2>2. [c EXCEPT !.pc = "lookup", !.name = n, !.todo = RestOf(@, n)] \in CallRecords
    BY DEF CallRecords, RestOf
  <2>. QED
    BY <2>1, <2>2, Settles
<1>. QED
  BY <1>1, <1>2

LEMMA NextCollectionMoves ==
  ASSUME TypeOK, NEW t \in Threads, NEW c \in CallRecords,
         NEW q, InPlace(q, [Waiting EXCEPT ![t] = -1]), queue' = q,
         NextCollection(t, c), \A n \in c.todo : map[n] # 0
  PROVE  \/ c.todo = {} /\ Moved(t, Answered(c, "ok"))
         \/ \E n \in c.todo :
              Moved(t, [c EXCEPT !.pc = "col", !.name = n, !.col = map[n],
                                 !.todo = @ \ {n}])
<1>1. CASE c.todo = {}
  <2>1. Answered(c, "ok") \in CallRecords
    BY DEF Answered, CallRecords
  <2>. QED
    BY <1>1, <2>1, Settles DEF NextCollection
<1>2. CASE c.todo # {}
  <2>1. PICK n \in c.todo :
          Becomes(t, [c EXCEPT !.pc = "col", !.name = n, !.col = map[n],
                               !.todo = @ \ {n}])
    BY <1>2 DEF NextCollection
  <2>2. n \in Names
    BY DEF CallRecords
  <2>3. map[n] \in Collections
    BY <2>2, ServerConstants DEF TypeOK, Collections
  <2>4. [c EXCEPT !.pc = "col", !.name = n, !.col = map[n], !.todo = @ \ {n}] \in CallRecords
    BY <2>2, <2>3 DEF CallRecords
  <2>. QED
    BY <2>1, <2>4, Settles
<1>. QED
  BY <1>1, <1>2

\* A call that only goes on keeps what it knows, and what it knew to be there.
LEMMA GoesOn ==
  ASSUME NEW c \in CallRecords, NEW d \in CallRecords, CallOK(c), Continues(c, d),
         ShapeOf(d), HoldsCurrent(d), ListsOwed(d), AnswersRight(d),
         Won(d) => Won(c) /\ (d.pc = "answer" => d.answer = "ok"),
         Effect(d) \subseteq Effect(c)
  PROVE  CallOK(d)
<1>1. TargetsOf(d) = TargetsOf(c)
  BY DEF TargetsOf, Targets, Continues, Listings
<1>2. ConcernsOf(d) = ConcernsOf(c)
  BY DEF ConcernsOf, Concerns, Continues
<1>3. Claims(d) \subseteq Claims(c)
  BY DEF Claims, Continues
<1>4. Won(d) => d.name = c.name
  BY DEF Won, Continues, Listings
<1>. QED
  BY <1>1, <1>2, <1>3, <1>4 DEF CallOK, Continues

\* Such a step of one call disturbs no other.
Quiet(t) ==
  \E d \in CallRecords :
    /\ Moved(t, d) /\ Continues(calls[t], d) /\ CallOK(d)
    /\ Won(d) => Won(calls[t])
    /\ UNCHANGED <<contents, map, acked>>

LEMMA ListGoesOn ==
  ASSUME TypeOK, NEW t \in Threads, CallOK(calls[t]),
         calls[t].pc # "idle", calls[t].op = "list",
         NEW c \in CallRecords, c.op = "list", c.doc = calls[t].doc,
         c.known = calls[t].known, c.upset = calls[t].upset,
         \A x \in Owed(c) : x[1] \in c.todo \/ x \in c.found,
         NEW q, InPlace(q, [Waiting EXCEPT ![t] = -1]), queue' = q, NextName(t, c),
         UNCHANGED <<contents, map, acked>>
  PROVE  Quiet(t)
<1>1. calls[t] \in CallRecords /\ ShapeOf(calls[t])
  BY DEF TypeOK, CallOK
<1>2. CASE c.todo = {} /\ Moved(t, Answered(c, "ok"))
  <2>. DEFINE d == Answered(c, "ok")
  <2>1. d \in CallRecords
    BY DEF Answered, CallRecords
  <2>2. /\ d.op = "list" /\ d.pc = "answer" /\ d.answer = "ok" /\ d.todo = {}
        /\ d.doc = c.doc /\ d.known = c.known /\ d.upset = c.upset
        /\ d.found = c.found
    BY DEF Answered, CallRecords
  <2>3. Moved(t, d)
    BY <1>2
  <2>. HIDE DEF d
  <2>4. Continues(calls[t], d) /\ ~Won(d)
    BY <2>2 DEF Continues, Won, Listings
  <2>5. ShapeOf(d) /\ HoldsCurrent(d) /\ AnswersRight(d)
    BY <1>1, <2>2 DEF ShapeOf, HoldsCurrent, InCollection, AnswersRight, Listings, Ops
  <2>6. ListsOwed(d)
    BY <1>2, <2>2 DEF ListsOwed, Owed
  <2>7. Effect(d) \subseteq Effect(calls[t])
    BY <2>2, <2>4 DEF Effect
  <2>. QED
    BY <1>1, <2>1, <2>3, <2>4, <2>5, <2>6, <2>7, GoesOn DEF Quiet
<1>3. ASSUME NEW n \in c.todo,
             Moved(t, [c EXCEPT !.pc = "lookup", !.name = n, !.todo = RestOf(@, n)])
      PROVE  Quiet(t)
  <2>. DEFINE d == [c EXCEPT !.pc = "lookup", !.name = n, !.todo = RestOf(@, n)]
  <2>1. d \in CallRecords
    BY <1>3 DEF Moved
  <2>2. /\ d.op = "list" /\ d.pc = "lookup" /\ d.name = n /\ d.todo = c.todo \ {n}
        /\ d.doc = c.doc /\ d.known = c.known /\ d.upset = c.upset
        /\ d.found = c.found
    BY DEF RestOf, CallRecords
  <2>3. Moved(t, d) /\ n \in Names
    BY <1>3 DEF CallRecords
  <2>. HIDE DEF d
  <2>4. Continues(calls[t], d) /\ ~Won(d)
    BY <2>2 DEF Continues, Won, Listings
  <2>5. ShapeOf(d) /\ HoldsCurrent(d) /\ AnswersRight(d)
    BY <1>1, <2>2, <2>3
       DEF ShapeOf, HoldsCurrent, InCollection, AnswersRight, Listings, Ops
  <2>6. ListsOwed(d)
    BY <2>2 DEF ListsOwed, Owed
  <2>7. Effect(d) \subseteq Effect(calls[t])
    BY <2>2, <2>4 DEF Effect
  <2>. QED
    BY <1>1, <2>1, <2>3, <2>4, <2>5, <2>6, <2>7, GoesOn DEF Quiet
<1>. QED
  BY <1>2, <1>3, NextNameMoves

LEMMA StatsGoesOn ==
  ASSUME TypeOK, MapOK, NEW t \in Threads, CallOK(calls[t]),
         calls[t].pc # "idle", calls[t].op = "stats",
         NEW c \in CallRecords, c.op = "stats", c.doc = calls[t].doc,
         c.known = calls[t].known, c.upset = calls[t].upset,
         \A x \in Owed(c) : x[1] \in c.todo \/ x \in c.found,
         \A n \in c.todo : map[n] # 0,
         NEW q, InPlace(q, [Waiting EXCEPT ![t] = -1]), queue' = q,
         NextCollection(t, c),
         UNCHANGED <<contents, map, acked>>
  PROVE  Quiet(t)
<1>1. calls[t] \in CallRecords /\ ShapeOf(calls[t])
  BY DEF TypeOK, CallOK
<1>2. CASE c.todo = {} /\ Moved(t, Answered(c, "ok"))
  <2>. DEFINE d == Answered(c, "ok")
  <2>1. d \in CallRecords
    BY DEF Answered, CallRecords
  <2>2. /\ d.op = "stats" /\ d.pc = "answer" /\ d.answer = "ok" /\ d.todo = {}
        /\ d.doc = c.doc /\ d.known = c.known /\ d.upset = c.upset
        /\ d.found = c.found
    BY DEF Answered, CallRecords
  <2>3. Moved(t, d)
    BY <1>2
  <2>. HIDE DEF d
  <2>4. Continues(calls[t], d) /\ ~Won(d)
    BY <2>2 DEF Continues, Won, Listings
  <2>5. ShapeOf(d) /\ HoldsCurrent(d) /\ AnswersRight(d)
    BY <1>1, <2>2 DEF ShapeOf, HoldsCurrent, InCollection, AnswersRight, Listings, Ops
  <2>6. ListsOwed(d)
    BY <1>2, <2>2 DEF ListsOwed, Owed
  <2>7. Effect(d) \subseteq Effect(calls[t])
    BY <2>2, <2>4 DEF Effect
  <2>. QED
    BY <1>1, <2>1, <2>3, <2>4, <2>5, <2>6, <2>7, GoesOn DEF Quiet
<1>3. ASSUME NEW n \in c.todo,
             Moved(t, [c EXCEPT !.pc = "col", !.name = n, !.col = map[n],
                                !.todo = @ \ {n}])
      PROVE  Quiet(t)
  <2>. DEFINE d == [c EXCEPT !.pc = "col", !.name = n, !.col = map[n], !.todo = @ \ {n}]
  <2>1. d \in CallRecords
    BY <1>3 DEF Moved
  <2>2. /\ d.op = "stats" /\ d.pc = "col" /\ d.name = n /\ d.todo = c.todo \ {n}
        /\ d.doc = c.doc /\ d.known = c.known /\ d.upset = c.upset
        /\ d.found = c.found
    BY DEF CallRecords
  <2>3. d.col = map[n]
    BY DEF CallRecords
  <2>4. n \in Names /\ Moved(t, d)
    BY <1>3 DEF CallRecords
  <2>. HIDE DEF d
  <2>5. Continues(calls[t], d) /\ ~Won(d)
    BY <2>2 DEF Continues, Won, Listings
  <2>6. d.col \in 1..Len(contents)
    BY <2>3, <2>4 DEF TypeOK
  <2>7. ShapeOf(d)
    BY <1>1, <2>2, <2>4, <2>6 DEF ShapeOf, InCollection, Listings, Ops
  <2>8. HoldsCurrent(d) /\ AnswersRight(d)
    BY <2>2, <2>3, <2>4, <2>6 DEF HoldsCurrent, AnswersRight, MapOK
  <2>9. ListsOwed(d)
    BY <2>2 DEF ListsOwed, Owed
  <2>10. Effect(d) \subseteq Effect(calls[t])
    BY <2>2, <2>5 DEF Effect
  <2>. QED
    BY <1>1, <2>1, <2>4, <2>5, <2>7, <2>8, <2>9, <2>10, GoesOn DEF Quiet
<1>. QED
  BY <1>2, <1>3, NextCollectionMoves

-----------------------------------------------------------------------------
(* The steps that change nothing but the call itself.                      *)

LEMMA OwedIsPresent ==
  ASSUME NEW c, CallOK(c), NEW x \in Owed(c)
  PROVE  Present(x) /\ x \in ConcernsOf(c) /\ x \notin TargetsOf(c)
  BY DEF CallOK, Claims, Owed

LEMMA ListNamesIsQuiet ==
  ASSUME TypeOK, NEW t \in Threads, CallOK(calls[t]), ListNames(t)
  PROVE  Quiet(t)
<1>. DEFINE c == [calls[t] EXCEPT !.todo = {n \in Names : map[n] # 0}]
<1>1. calls[t] \in CallRecords /\ ShapeOf(calls[t]) /\ calls[t].pc = "names"
  BY DEF TypeOK, CallOK, ListNames
<1>2. c \in CallRecords
  BY <1>1 DEF CallRecords
<1>3. /\ c.doc = calls[t].doc /\ c.op = calls[t].op /\ c.todo = {n \in Names : map[n] # 0}
      /\ c.known = calls[t].known /\ c.upset = calls[t].upset
  BY <1>1 DEF CallRecords
<1>4. calls[t].op = "list"
  BY <1>1 DEF ShapeOf
<1>5. InPlace(Entered(Map), [Waiting EXCEPT ![t] = -1])
  BY EnteredLeaves, LocksAreNumbers DEF ListNames
<1>6. NextName(t, c) /\ queue' = Entered(Map) /\ UNCHANGED <<contents, map, acked>>
  BY DEF ListNames
<1>. HIDE DEF c
<1>7. ASSUME NEW x \in Owed(c) PROVE x[1] \in c.todo
  <2>1. x \in Owed(calls[t])
    BY <1>3 DEF Owed
  <2>2. Present(x) /\ x \in ConcernsOf(calls[t])
    BY <2>1, OwedIsPresent
  <2>3. x \in Names \X {Itself}
    BY <1>4, <2>2 DEF ConcernsOf, Concerns, Listings
  <2>. QED
    BY <1>3, <2>2, <2>3 DEF Present
<1>. QED
  BY <1>1, <1>2, <1>3, <1>4, <1>5, <1>6, <1>7, ListGoesOn

\* A thread that gives an answer it knows to be right.
LEMMA AnsweredIsQuiet ==
  ASSUME TypeOK, NEW t \in Threads, CallOK(calls[t]), calls[t].pc # "idle",
         calls[t].op \notin Listings,
         NEW c \in CallRecords, NEW answer \in {"ok", "not found", "conflict", "error"},
         c.op = calls[t].op, c.doc = calls[t].doc, c.name = calls[t].name,
         c.known = calls[t].known, c.upset = calls[t].upset,
         Becomes(t, Answered(c, answer)), UNCHANGED <<contents, map, acked>>,
         NEW q, InPlace(q, [Waiting EXCEPT ![t] = -1]), queue' = q,
         c.op = "search" /\ answer = "ok" =>
            Owed(c) \cap ({c.name} \X Docs) \subseteq c.found,
         answer = "not found" => <<c.name, Itself>> \notin Owed(c),
         Won(Answered(c, answer)) => Won(calls[t]) /\ answer = "ok",
         c.op = "insert" => answer # "ok"
  PROVE  Quiet(t)
<1>. DEFINE d == Answered(c, answer)
<1>1. d \in CallRecords
  BY DEF Answered, CallRecords
<1>2. /\ d.op = c.op /\ d.pc = "answer" /\ d.answer = answer /\ d.name = c.name
      /\ d.doc = c.doc /\ d.known = c.known /\ d.upset = c.upset
      /\ d.found = c.found
  BY DEF Answered, CallRecords
<1>3. calls[t] \in CallRecords /\ ShapeOf(calls[t])
  BY DEF TypeOK, CallOK
<1>. HIDE DEF d
<1>5. Moved(t, d)
  BY <1>1, Settles DEF d
<1>6. Continues(calls[t], d)
  BY <1>2 DEF Continues
<1>7. ShapeOf(d) /\ HoldsCurrent(d) /\ ListsOwed(d)
  BY <1>2, <1>3 DEF ShapeOf, HoldsCurrent, InCollection, ListsOwed
<1>8. AnswersRight(d)
  BY <1>2 DEF AnswersRight, Owed
<1>9. Won(d) => Won(calls[t]) /\ (d.pc = "answer" => d.answer = "ok")
  BY <1>2 DEF d
<1>10. Effect(d) \subseteq Effect(calls[t])
  BY <1>2, <1>9 DEF Effect
<1>. QED
  BY <1>1, <1>3, <1>5, <1>6, <1>7, <1>8, <1>9, <1>10, GoesOn DEF Quiet

LEMMA LookupIsQuiet ==
  ASSUME TypeOK, MapOK, NEW t \in Threads, CallOK(calls[t]), Lookup(t)
  PROVE  Quiet(t)
<1>. DEFINE c == calls[t]
<1>1. c \in CallRecords /\ ShapeOf(c) /\ c.pc = "lookup" /\ c.name \in Names
  BY DEF TypeOK, CallOK, Lookup, ShapeOf
<1>2. InPlace(Entered(Map), [Waiting EXCEPT ![t] = -1])
  BY EnteredLeaves, LocksAreNumbers DEF Lookup
<1>3. UNCHANGED <<contents, map, acked>>
  BY DEF Lookup
<1>4. CASE Clone(c.name) # 0
  <2>. DEFINE d == [c EXCEPT !.pc = "col", !.col = Clone(c.name)]
  <2>1. Becomes(t, d) /\ queue' = Entered(Map)
    BY <1>4 DEF Lookup
  <2>2. map[c.name] \in 1..Len(contents) /\ Clone(c.name) = map[c.name]
    BY <1>1, <1>4 DEF TypeOK, Clone
  <2>3. map[c.name] \in Collections
    <3>1. Len(contents) \in Nat /\ Len(contents) <= MaxCreated
      BY DEF TypeOK
    <3>. QED
      BY <2>2, <3>1, ServerConstants DEF Collections
  <2>4. d \in CallRecords
    BY <1>1, <2>2, <2>3 DEF CallRecords
  <2>5. /\ d.op = c.op /\ d.pc = "col" /\ d.name = c.name /\ d.col = map[c.name]
        /\ d.doc = c.doc /\ d.known = c.known /\ d.upset = c.upset
        /\ d.found = c.found /\ d.todo = c.todo
    BY <1>1, <2>2 DEF CallRecords
  <2>. HIDE DEF d
  <2>7. Moved(t, d)
    BY <1>2, <2>1, <2>4, Settles
  <2>8. Continues(c, d)
    BY <1>1, <2>5 DEF Continues
  <2>9. ShapeOf(d)
    BY <1>1, <2>2, <2>5 DEF ShapeOf, InCollection
  <2>10. HoldsCurrent(d) /\ AnswersRight(d)
    BY <1>1, <2>2, <2>5 DEF HoldsCurrent, AnswersRight, MapOK
  <2>11. ListsOwed(d)
    BY <1>1, <2>5 DEF ListsOwed, CallOK, Owed
  <2>12. Won(d) => Won(c) /\ (d.pc = "answer" => d.answer = "ok")
    BY <1>1, <2>5 DEF Won
  <2>13. Effect(d) \subseteq Effect(c)
    BY <1>1, <2>5, <2>12 DEF Effect, Won
  <2>. QED
    BY <1>1, <1>3, <2>4, <2>7, <2>8, <2>9, <2>10, <2>11, <2>12, <2>13, GoesOn DEF Quiet
<1>5. ASSUME Clone(c.name) = 0 PROVE <<c.name, Itself>> \notin Claims(c)
  <2>1. ~Present(<<c.name, Itself>>)
    BY <1>5 DEF Clone, Present
  <2>. QED
    BY <2>1 DEF CallOK
<1>6. CASE Clone(c.name) = 0 /\ c.op = "list"
  <2>1. NextName(t, c) /\ queue' = Entered(Map)
    BY <1>6 DEF Lookup
  <2>2. ASSUME NEW x \in Owed(c) PROVE x[1] \in c.todo \/ x \in c.found
    <3>1. x \in Names \X {Itself}
      BY <1>6, OwedIsPresent DEF ConcernsOf, Concerns, Listings
    <3>2. x[1] # c.name
      BY <1>5, <1>6, <3>1 DEF Owed, Claims
    <3>. QED
      BY <1>1, <1>6, <3>2 DEF CallOK, ListsOwed, Listings
  <2>. QED
    BY <1>1, <1>2, <1>3, <1>6, <2>1, <2>2, ListGoesOn
<1>7. CASE Clone(c.name) = 0 /\ c.op # "list"
  <2>1. Becomes(t, Answered(c, "not found")) /\ queue' = Entered(Map)
    BY <1>7 DEF Lookup
  <2>2. c.op \notin Listings
    BY <1>1, <1>7 DEF ShapeOf, Listings
  <2>3. <<c.name, Itself>> \notin Owed(c)
    BY <1>5, <1>7 DEF Owed, Claims
  <2>4. ~Won(Answered(c, "not found"))
    <3>1. ~Won(c)
      BY <1>1, <1>5, <1>7 DEF Claims, Effect, Won
    <3>. QED
      BY <1>1, <3>1 DEF Won, Answered, CallRecords
  <2>. QED
    BY <1>1, <1>2, <1>3, <2>1, <2>2, <2>3, <2>4, AnsweredIsQuiet
<1>. QED
  BY <1>4, <1>6, <1>7

LEMMA StatsIsQuiet ==
  ASSUME TypeOK, MapOK, NEW t \in Threads, CallOK(calls[t]), Stats(t)
  PROVE  Quiet(t)
<1>. DEFINE c == [calls[t] EXCEPT !.todo = {n \in Names : map[n] # 0}]
<1>1. calls[t] \in CallRecords /\ calls[t].pc = "map" /\ calls[t].op = "stats"
  BY DEF TypeOK, Stats
<1>2. c \in CallRecords
  BY <1>1 DEF CallRecords
<1>3. /\ c.doc = calls[t].doc /\ c.op = calls[t].op /\ c.todo = {n \in Names : map[n] # 0}
      /\ c.known = calls[t].known /\ c.upset = calls[t].upset
  BY <1>1 DEF CallRecords
<1>4. InPlace(Entered(Map), [Waiting EXCEPT ![t] = -1])
  BY EnteredLeaves, LocksAreNumbers DEF Stats
<1>5. NextCollection(t, c) /\ queue' = Entered(Map) /\ UNCHANGED <<contents, map, acked>>
  BY DEF Stats
<1>. HIDE DEF c
<1>6. ASSUME NEW x \in Owed(c) PROVE x[1] \in c.todo
  <2>1. x \in Owed(calls[t])
    BY <1>3 DEF Owed
  <2>2. Present(x) /\ x \in ConcernsOf(calls[t])
    BY <2>1, OwedIsPresent
  <2>3. x \in Names \X {Itself}
    BY <1>1, <2>2 DEF ConcernsOf, Concerns, Listings
  <2>. QED
    BY <1>3, <2>2, <2>3 DEF Present
<1>7. \A n \in c.todo : map[n] # 0
  BY <1>3
<1>. QED
  BY <1>1, <1>2, <1>3, <1>4, <1>5, <1>6, <1>7, StatsGoesOn

LEMMA EnterIsQuiet ==
  ASSUME TypeOK, NEW t \in Threads, CallOK(calls[t]), EnterCollection(t)
  PROVE  Quiet(t)
<1>. DEFINE c == calls[t]
            d == [c EXCEPT !.pc = "in col"]
<1>1. c \in CallRecords /\ ShapeOf(c) /\ c.pc = "col"
  BY DEF TypeOK, CallOK, EnterCollection
<1>2. c.col \in Locks
  BY <1>1 DEF CallRecords, Locks, Collections, Map
<1>3. InPlace(Entered(c.col), [Waiting EXCEPT ![t] = -1])
  BY <1>2, EnteredLeaves DEF EnterCollection
<1>4. Becomes(t, d) /\ queue' = Entered(c.col) /\ UNCHANGED <<contents, map, acked>>
  BY DEF EnterCollection
<1>5. d \in CallRecords
  BY <1>1 DEF CallRecords
<1>6. /\ d.op = c.op /\ d.pc = "in col" /\ d.name = c.name /\ d.col = c.col
      /\ d.doc = c.doc /\ d.known = c.known /\ d.upset = c.upset
      /\ d.found = c.found /\ d.todo = c.todo
  BY <1>1 DEF CallRecords
<1>. HIDE DEF d
<1>8. Moved(t, d)
  BY <1>3, <1>4, <1>5, Settles
<1>9. Continues(c, d)
  BY <1>1, <1>6 DEF Continues
<1>10. ShapeOf(d)
  BY <1>1, <1>6 DEF ShapeOf, InCollection
<1>11. HoldsCurrent(d) /\ AnswersRight(d)
  <2>1. HoldsCurrent(c)
    BY DEF CallOK
  <2>2. ConcernsOf(d) = ConcernsOf(c)
    BY <1>6 DEF ConcernsOf
  <2>. QED
    BY <1>1, <1>6, <2>1, <2>2 DEF HoldsCurrent, InCollection, AnswersRight
<1>12. ListsOwed(d)
  BY <1>1, <1>6 DEF ListsOwed, CallOK, Owed
<1>13. Won(d) => Won(c) /\ (d.pc = "answer" => d.answer = "ok")
  BY <1>1, <1>6 DEF Won
<1>14. Effect(d) \subseteq Effect(c)
  BY <1>1, <1>6, <1>13 DEF Effect, Won
<1>. QED
  BY <1>1, <1>4, <1>5, <1>8, <1>9, <1>10, <1>11, <1>12, <1>13, <1>14, GoesOn DEF Quiet

LEMMA ContentsAreDocs ==
  ASSUME TypeOK
  PROVE  /\ Len(contents) \in Nat /\ contents \in Seq(SUBSET Docs)
         /\ \A i \in 1..Len(contents) : contents[i] \in SUBSET Docs
<1>. DEFINE D == SUBSET Docs
<1>1. contents \in Seq(D)
  BY DEF TypeOK
<1>. HIDE DEF D
<1>2. \A i \in 1..Len(contents) : contents[i] \in D
  BY <1>1
<1>. QED
  BY <1>1, <1>2 DEF D

LEMMA WriteFailsIsQuiet ==
  ASSUME TypeOK, NEW t \in Threads, CallOK(calls[t]), WriteFails(t),
         contents' = contents
  PROVE  Quiet(t)
<1>1. calls[t] \in CallRecords /\ calls[t].pc = "in col" /\ calls[t].op = "insert"
  BY DEF TypeOK, WriteFails
<1>2. InPlace(queue, [Waiting EXCEPT ![t] = -1])
  BY <1>1, WithoutPlace, WaitsForIs
<1>3. ~Won(Answered(calls[t], "error"))
  BY <1>1 DEF Won, Answered, CallRecords
<1>. QED
  BY <1>1, <1>2, <1>3, AnsweredIsQuiet DEF WriteFails, Listings

LEMMA ReadIsQuiet ==
  ASSUME TypeOK, MapOK, NEW t \in Threads, CallOK(calls[t]), Read(t)
  PROVE  Quiet(t)
<1>. DEFINE c == calls[t]
            seen == IF c.op = "search" THEN {c.name} \X contents[c.col]
                                       ELSE {<<c.name, Itself>>}
            r == [c EXCEPT !.found = @ \cup seen]
<1>1. /\ c \in CallRecords /\ ShapeOf(c) /\ c.pc = "in col" /\ c.op \notin Writes
      /\ c.name \in Names /\ c.col \in 1..Len(contents)
  BY DEF TypeOK, CallOK, Read, ShapeOf, InCollection
<1>2. InPlace(queue, [Waiting EXCEPT ![t] = -1])
  BY <1>1, WithoutPlace, WaitsForIs
<1>3. seen \subseteq Things
  <2>1. contents[c.col] \in SUBSET Docs
    BY <1>1, ContentsAreDocs
  <2>2. c.name \in Names
    BY <1>1
  <2>3. CASE c.op = "search"
    <3>1. seen = {c.name} \X contents[c.col]
      BY <2>3
    <3>. HIDE DEF seen, c
    <3>. QED
      BY <2>1, <2>2, <3>1 DEF Things
  <2>4. CASE c.op # "search"
    <3>1. seen = {<<c.name, Itself>>}
      BY <2>4
    <3>. HIDE DEF seen, c
    <3>. QED
      BY <2>2, <3>1 DEF Things
  <2>. QED
    BY <2>3, <2>4
<1>4. /\ UNCHANGED <<contents, map, acked>> /\ queue' = queue
      /\ c.op = "list" => NextName(t, r)
      /\ c.op = "stats" => NextCollection(t, r)
      /\ c.op \notin Listings => Becomes(t, Answered(r, "ok"))
  BY DEF Read, Listings
<1>. HIDE DEF seen
<1>5. r \in CallRecords
  BY <1>1, <1>3 DEF CallRecords
<1>6. /\ r.op = c.op /\ r.pc = c.pc /\ r.name = c.name /\ r.todo = c.todo
      /\ r.doc = c.doc /\ r.known = c.known /\ r.upset = c.upset
      /\ r.found = c.found \cup seen
  BY <1>1 DEF CallRecords
<1>. HIDE DEF r
<1>7. ASSUME c.op \in Listings, NEW x \in Owed(r) PROVE x[1] \in r.todo \/ x \in r.found
  <2>1. x \in Owed(c)
    BY <1>6 DEF Owed
  <2>2. x \in Names \X {Itself}
    BY <1>7, <2>1, OwedIsPresent DEF ConcernsOf, Concerns
  <2>3. x[1] \in c.todo \/ x \in c.found \/ x[1] = c.name
    BY <1>1, <1>7, <2>1 DEF CallOK, ListsOwed
  <2>4. x[1] = c.name => x \in seen
    BY <1>7, <2>2 DEF seen, Listings
  <2>. QED
    BY <1>6, <2>3, <2>4
<1>8. CASE c.op = "list"
  BY <1>1, <1>2, <1>4, <1>5, <1>6, <1>7, <1>8, ListGoesOn DEF Listings
<1>9. CASE c.op = "stats"
  <2>1. \A n \in r.todo : map[n] # 0
    BY <1>1, <1>6, <1>9 DEF ShapeOf, InCollection
  <2>. QED
    BY <1>1, <1>2, <1>4, <1>5, <1>6, <1>7, <1>9, <2>1, StatsGoesOn DEF Listings
<1>10. CASE c.op \notin Listings
  <2>1. c.op = "search" => Owed(r) \cap ({r.name} \X Docs) \subseteq r.found
    <3>. SUFFICES ASSUME c.op = "search", NEW x \in Owed(r) \cap ({r.name} \X Docs)
                  PROVE  x \in r.found
      OBVIOUS
    <3>1. x \in Owed(c) /\ x[1] = c.name /\ x[2] \in Docs /\ x = <<x[1], x[2]>>
      BY <1>6 DEF Owed
    <3>2. Present(x) /\ x \in ConcernsOf(c) /\ x \notin c.upset
      BY <3>1, OwedIsPresent DEF Owed
    <3>3. x \in ThingsOf(c.name)
      BY <3>1 DEF ThingsOf
    <3>4. map[c.name] = c.col
      BY <1>1, <3>2, <3>3 DEF CallOK, HoldsCurrent, InCollection
    <3>5. x[2] \in contents[c.col]
      BY <3>1, <3>2, <3>4, ServerConstants DEF Present
    <3>6. x \in seen
      BY <3>1, <3>5 DEF seen
    <3>. QED
      BY <1>6, <3>6
  <2>2. Won(Answered(r, "ok")) => Won(c)
    BY <1>1, <1>5, <1>6 DEF Won, Answered, CallRecords
  <2>3. c.op # "insert"
    BY <1>1 DEF Writes
  <2>. QED
    BY <1>1, <1>2, <1>4, <1>5, <1>6, <1>10, <2>1, <2>2, <2>3, AnsweredIsQuiet
<1>. QED
  BY <1>8, <1>9, <1>10 DEF Listings

LEMMA PersistIsQuiet ==
  ASSUME TypeOK, NEW t \in Threads, CallOK(calls[t]), Persist(t)
  PROVE  Quiet(t)
<1>. DEFINE c == calls[t]
            d == [c EXCEPT !.pc = "lookup"]
<1>1. c \in CallRecords /\ ShapeOf(c) /\ c.pc = "catalog" /\ UNCHANGED <<contents, map, acked>>
  BY DEF TypeOK, CallOK, Persist
<1>2. InPlace(queue, [Waiting EXCEPT ![t] = -1])
  BY <1>1, WithoutPlace, WaitsForIs
<1>3. CASE c.op = "create"
  <2>1. Becomes(t, d) /\ queue' = queue
    BY <1>3 DEF Persist
  <2>2. d \in CallRecords
    BY <1>1 DEF CallRecords
  <2>3. /\ d.op = c.op /\ d.pc = "lookup" /\ d.name = c.name /\ d.doc = c.doc
        /\ d.known = c.known /\ d.upset = c.upset
    BY <1>1 DEF CallRecords
  <2>. HIDE DEF d
  <2>5. Moved(t, d)
    BY <1>2, <2>1, <2>2, Settles
  <2>6. Continues(c, d)
    BY <1>1, <2>3 DEF Continues
  <2>7. ShapeOf(d) /\ HoldsCurrent(d) /\ AnswersRight(d) /\ ListsOwed(d)
    BY <1>1, <1>3, <2>3
       DEF ShapeOf, InCollection, HoldsCurrent, AnswersRight, ListsOwed, Listings
  <2>8. Won(d) => Won(c) /\ (d.pc = "answer" => d.answer = "ok")
    BY <1>1, <2>3 DEF Won
  <2>9. Effect(d) \subseteq Effect(c)
    BY <1>1, <2>3, <2>8 DEF Effect, Won
  <2>. QED
    BY <1>1, <2>2, <2>5, <2>6, <2>7, <2>8, <2>9, GoesOn DEF Quiet
<1>4. CASE c.op # "create"
  <2>1. c.op = "drop" /\ Becomes(t, Answered(c, "ok")) /\ queue' = queue
    BY <1>1, <1>4 DEF Persist, ShapeOf
  <2>2. ~Won(Answered(c, "ok"))
    BY <1>1, <2>1 DEF Won, Answered, CallRecords
  <2>. QED
    BY <1>1, <1>2, <2>1, <2>2, AnsweredIsQuiet DEF Listings
<1>. QED
  BY <1>3, <1>4

LEMMA PersistFailsIsQuiet ==
  ASSUME TypeOK, NEW t \in Threads, CallOK(calls[t]), PersistFails(t)
  PROVE  Quiet(t)
<1>. DEFINE answer == IF calls[t].op = "create" THEN "conflict" ELSE "error"
<1>1. /\ calls[t] \in CallRecords /\ calls[t].pc = "catalog"
      /\ calls[t].op \in {"create", "drop"}
  BY DEF TypeOK, PersistFails, CallOK, ShapeOf
<1>2. InPlace(queue, [Waiting EXCEPT ![t] = -1])
  BY <1>1, WithoutPlace, WaitsForIs
<1>3. /\ Becomes(t, Answered(calls[t], answer))
      /\ UNCHANGED <<contents, map, queue, acked>>
  BY DEF PersistFails
<1>4. answer \in {"conflict", "error"}
  OBVIOUS
<1>. HIDE DEF answer
<1>5. ~Won(Answered(calls[t], answer))
  BY <1>1, <1>4 DEF Won, Answered, CallRecords
<1>. QED
  BY <1>1, <1>2, <1>3, <1>4, <1>5, AnsweredIsQuiet DEF Listings

-----------------------------------------------------------------------------
(* What every step keeps.                                                  *)

\* The types after a step: everyone in the place that w says.
LEMMA TypedAfter ==
  ASSUME calls' \in [Threads -> CallRecords],
         NEW w, \A t \in Threads : w[t] = WaitsFor(calls'[t]), InPlace(queue', w),
         contents' \in Seq(SUBSET Docs), Len(contents') <= MaxCreated,
         map' \in [Names -> 0..Len(contents')], acked' \subseteq Things
  PROVE  TypeOK'
<1>1. /\ queue' \in [Locks -> Seq(Threads)] /\ DOMAIN queue' = Locks
      /\ \A l \in Locks :
           /\ IsInjective(queue'[l])
           /\ Range(queue'[l]) \subseteq {t \in Threads : WaitsFor(calls'[t]) = l}
  BY DEF InPlace
<1>. QED
  BY <1>1 DEF TypeOK, Locks

LEMMA MovedIsTyped ==
  ASSUME TypeOK, NEW t \in Threads, NEW d, Moved(t, d),
         contents' \in Seq(SUBSET Docs), Len(contents') <= MaxCreated,
         map' \in [Names -> 0..Len(contents')], acked' \subseteq Things
  PROVE  TypeOK'
<1>. DEFINE w == [Waiting EXCEPT ![t] = WaitsFor(d)]
<1>1. calls' \in [Threads -> CallRecords] /\ calls' = [calls EXCEPT ![t] = d]
  BY DEF Moved, TypeOK
<1>2. \A u \in Threads : w[u] = WaitsFor(calls'[u])
  <2>. TAKE u \in Threads
  <2>1. CASE u = t
    <3>1. calls'[u] = d
      BY <1>1, <2>1 DEF TypeOK
    <3>. QED
      BY <2>1, <3>1, EveryoneInPlace
  <2>2. CASE u # t
    <3>1. calls'[u] = calls[u]
      BY <1>1, <2>2 DEF TypeOK
    <3>. QED
      BY <2>2, <3>1, EveryoneInPlace
  <2>. QED
    BY <2>1, <2>2
<1>3. InPlace(queue', w)
  BY DEF Moved
<1>. HIDE DEF w
<1>. QED
  BY <1>1, <1>2, <1>3, TypedAfter

\* A create that left the map's queue makes room.
LEMMA PendingIsFinite ==
  IsFiniteSet(Pending) /\ Cardinality(Pending) \in Nat
<1>1. Pending \subseteq Threads
  BY DEF Pending
<1>. QED
  BY <1>1, ServerConstants, FS_Subset, FS_CardinalityType

LEMMA RoomIsKept ==
  ASSUME TypeOK, RoomForCreates, NEW t \in Threads, NEW d, Moved(t, d),
         d.pc # "map", UNCHANGED contents
  PROVE  RoomForCreates'
<1>1. Pending' \subseteq Pending
  BY DEF Pending, Moved, TypeOK
<1>2. Cardinality(Pending') \in Nat /\ Cardinality(Pending') <= Cardinality(Pending)
  BY <1>1, PendingIsFinite, FS_Subset, FS_CardinalityType
<1>3. Len(contents) \in Nat /\ Cardinality(Pending) \in Nat
  BY PendingIsFinite, ContentsAreDocs
<1>. QED
  BY <1>2, <1>3, ServerConstants DEF RoomForCreates

\* A quiet step keeps everything.
LEMMA QuietKeeps ==
  ASSUME IndInv, NEW t \in Threads, Quiet(t)
  PROVE  IndInv'
<1>1. PICK d \in CallRecords :
        /\ Moved(t, d) /\ Continues(calls[t], d) /\ CallOK(d)
        /\ Won(d) => Won(calls[t])
        /\ UNCHANGED <<contents, map, acked>>
  BY DEF Quiet
<1>2. TypeOK'
  BY <1>1, MovedIsTyped DEF IndInv, TypeOK
<1>3. RoomForCreates'
  BY <1>1, RoomIsKept DEF IndInv, Continues
<1>4. MapOK'
  BY <1>1 DEF IndInv, MapOK, Present
<1>5. calls' = [calls EXCEPT ![t] = d] /\ DOMAIN calls = Threads
  BY <1>1 DEF Moved, IndInv, TypeOK
<1>6. ASSUME NEW u \in Threads PROVE CallOK(calls[u])'
  <2>1. CallOK(calls'[u])
    BY <1>1, <1>5 DEF IndInv, CallsOK
  <2>. QED
    BY <1>1, <2>1 DEF CallOK, ShapeOf, Present, HoldsCurrent, ListsOwed, AnswersRight
<1>7. ASSUME NEW u \in Threads, NEW v \in Threads, u # v
      PROVE  PairOK(calls[u], calls[v])'
  <2>1. TargetsOf(d) = TargetsOf(calls[t]) /\ ConcernsOf(d) = ConcernsOf(calls[t])
    BY <1>1 DEF TargetsOf, Targets, ConcernsOf, Concerns, Continues, Listings
  <2>2. PairOK(calls[u], calls[v])
    BY <1>7 DEF IndInv, CallsOK
  <2>3. Won(d) => d.name = calls[t].name
    BY <1>1 DEF Won, Continues, Listings
  <2>4. PairOK(calls'[u], calls'[v])
    BY <1>1, <1>5, <1>7, <2>1, <2>2, <2>3 DEF PairOK, Continues
  <2>. QED
    BY <2>4
<1>. QED
  BY <1>2, <1>3, <1>4, <1>6, <1>7 DEF IndInv, CallsOK

-----------------------------------------------------------------------------
(* The steps that change the collections.                                  *)

\* What a call claims is a document or a collection that it is about.
LEMMA ClaimsAreConcerns ==
  ASSUME NEW c \in CallRecords, CallOK(c), NEW x \in Claims(c)
  PROVE  /\ c.pc # "idle" /\ x \in ConcernsOf(c) /\ x \notin c.upset
         /\ Present(x) /\ x \in Things
<1>1. ShapeOf(c) /\ c.known \subseteq ConcernsOf(c) /\ Present(x)
  BY DEF CallOK
<1>2. CASE x \in c.known
  <2>1. c.pc # "idle"
    <3>1. Idle.known = {}
      BY DEF Idle
    <3>. QED
      BY <1>1, <1>2, <3>1 DEF ShapeOf
  <2>2. x \in Things
    BY <1>2 DEF CallRecords
  <2>. QED
    BY <1>1, <1>2, <2>1, <2>2 DEF Claims
<1>3. CASE x \in Effect(c)
  <2>1. /\ c.op \in {"insert", "create"} /\ c.pc # "idle"
        /\ x = <<c.name, c.doc>> \/ x = <<c.name, Itself>>
        /\ c.op = "create" => x = <<c.name, Itself>>
        /\ c.op = "insert" => x = <<c.name, c.doc>>
    BY <1>3 DEF Effect, Won
  <2>2. x \in ConcernsOf(c)
    BY <2>1 DEF ConcernsOf, Concerns, Listings
  <2>3. c.name \in Names
    BY <1>1, <2>1 DEF ShapeOf, Listings
  <2>4. c.doc \in Docs \cup {Itself}
    BY DEF CallRecords
  <2>5. x \in Things
    BY <2>1, <2>3, <2>4 DEF Things
  <2>. QED
    BY <1>1, <2>1, <2>2, <2>5 DEF Claims
<1>. QED
  BY <1>2, <1>3 DEF Claims

\* A call that goes on as it was.
LEMMA OtherStays ==
  ASSUME NEW c \in CallRecords, CallOK(c),
         ShapeOf(c)', HoldsCurrent(c)',
         acked' \cap TargetsOf(c) = {},
         Won(c) => <<c.name, Itself>> \notin acked',
         \A x \in Claims(c) : Present(x)'
  PROVE  CallOK(c)'
  BY DEF CallOK, ListsOwed, AnswersRight, Claims, Owed, Effect, Won, TargetsOf

\* What another call takes away is not claimed any more.
LEMMA TargetsAreUpset ==
  ASSUME IndInv, NEW t \in Threads, NEW u \in Threads, u # t,
         NEW x \in Claims(calls[u])
  PROVE  x \notin TargetsOf(calls[t]) /\ Present(x) /\ x \in Things
<1>1. calls[u] \in CallRecords /\ CallOK(calls[u]) /\ PairOK(calls[t], calls[u])
  BY DEF IndInv, TypeOK, CallsOK
<1>. QED
  BY <1>1, ClaimsAreConcerns DEF PairOK

\* A step of t that changes no other call, and takes away only what its call
\* says, keeps what the other calls know.
LEMMA OthersKeep ==
  ASSUME IndInv, NEW t \in Threads, UNCHANGED acked,
         \A x \in Things : Present(x) => Present(x)' \/ x \in TargetsOf(calls[t]),
         NEW u \in Threads, u # t, calls'[u] = calls[u],
         ShapeOf(calls[u])', HoldsCurrent(calls[u])'
  PROVE  CallOK(calls[u])'
<1>1. calls[u] \in CallRecords /\ CallOK(calls[u])
  BY DEF IndInv, TypeOK, CallsOK
<1>2. \A x \in Claims(calls[u]) : Present(x)'
  BY TargetsAreUpset
<1>3. acked' \cap TargetsOf(calls[u]) = {} /\
      (Won(calls[u]) => <<calls[u].name, Itself>> \notin acked')
  BY <1>1 DEF CallOK
<1>4. ASSUME NEW c \in CallRecords, c = calls[u], c = calls'[u]
      PROVE  CallOK(c)'
  BY <1>1, <1>2, <1>3, <1>4, OtherStays
<1>. QED
  BY <1>1, <1>4

LEMMA EntryIsReplaced ==
  ASSUME NEW S, NEW s \in Seq(S), NEW i \in 1..Len(s), NEW e \in S
  PROVE  /\ [s EXCEPT ![i] = e] \in Seq(S) /\ Len([s EXCEPT ![i] = e]) = Len(s)
         /\ \A j \in 1..Len(s) :
              [s EXCEPT ![i] = e][j] = IF j = i THEN e ELSE s[j]
  OBVIOUS

\* An insert or a delete changes the collection, and is answered with an error
\* or not.
Written(t, answer) ==
  LET c == calls[t]
  IN /\ c.pc = "in col" /\ c.op \in Writes
     /\ contents' = [contents EXCEPT ![c.col] =
                       IF c.op = "insert" THEN @ \cup {c.doc} ELSE @ \ {c.doc}]
     /\ Becomes(t, Answered(c, answer))
     /\ UNCHANGED <<map, queue, acked>>

LEMMA WrittenKeeps ==
  ASSUME IndInv, NEW t \in Threads, NEW answer \in {"ok", "error"},
         Written(t, answer)
  PROVE  IndInv'
<1>. DEFINE c == calls[t]
<1>1. /\ c \in CallRecords /\ CallOK(c) /\ ShapeOf(c) /\ c.pc = "in col"
      /\ c.op \in Writes /\ c.name \in Names /\ c.doc \in Docs
      /\ c.col \in 1..Len(contents) /\ HoldsCurrent(c)
  BY DEF IndInv, TypeOK, CallsOK, CallOK, Written, ShapeOf, InCollection, CallRecords
<1>2. /\ Becomes(t, Answered(c, answer)) /\ UNCHANGED <<map, queue, acked>>
      /\ contents' = [contents EXCEPT ![c.col] =
                        IF c.op = "insert" THEN @ \cup {c.doc} ELSE @ \ {c.doc}]
  BY DEF Written
<1>3. Answered(c, answer) \in CallRecords
  BY <1>1 DEF Answered, CallRecords
<1>4. PICK d \in CallRecords :
        /\ Becomes(t, d)
        /\ d.op = c.op /\ d.pc = "answer" /\ d.answer = answer /\ d.name = c.name
        /\ d.doc = c.doc /\ d.known = c.known /\ d.upset = c.upset
        /\ d.found = c.found
  BY <1>1, <1>2, <1>3 DEF Answered, CallRecords
<1>5. WaitsFor(d) = -1 /\ WaitsFor(c) = -1
  BY <1>1, <1>4, WaitsForIs
<1>6. Moved(t, d)
  BY <1>2, <1>4, <1>5, Settles, WithoutPlace DEF IndInv
<1>7. /\ contents' \in Seq(SUBSET Docs) /\ Len(contents') = Len(contents)
      /\ \A i \in 1..Len(contents) \ {c.col} : contents'[i] = contents[i]
      /\ contents'[c.col] = IF c.op = "insert" THEN contents[c.col] \cup {c.doc}
                                               ELSE contents[c.col] \ {c.doc}
  <2>. DEFINE D == SUBSET Docs
              s == IF c.op = "insert" THEN contents[c.col] \cup {c.doc}
                                      ELSE contents[c.col] \ {c.doc}
  <2>1. s \in D /\ contents \in Seq(D)
    BY <1>1, ContentsAreDocs DEF IndInv
  <2>2. contents' = [contents EXCEPT ![c.col] = s]
    BY <1>2
  <2>. HIDE DEF D, s
  <2>3. /\ contents' \in Seq(D) /\ Len(contents') = Len(contents)
        /\ \A i \in 1..Len(contents) : contents'[i] = IF i = c.col THEN s ELSE contents[i]
    <3>. HIDE DEF c
    <3>1. c.col \in 1..Len(contents)
      BY <1>1
    <3>. QED
      BY <2>1, <2>2, <3>1, EntryIsReplaced
  <2>. QED
    BY <1>1, <2>3 DEF D, s
<1>8. TypeOK'
  BY <1>2, <1>6, <1>7, MovedIsTyped DEF IndInv, TypeOK
<1>9. RoomForCreates'
  <2>1. UNCHANGED Len(contents)
    BY <1>7
  <2>2. Pending' = Pending
    BY <1>1, <1>4, <1>6 DEF Pending, Moved, IndInv, TypeOK
  <2>. QED
    BY <2>1, <2>2 DEF IndInv, RoomForCreates
<1>10. ASSUME NEW x \in Things, Present(x)
       PROVE  Present(x)' \/ (c.op = "delete" /\ x = <<c.name, c.doc>>)
  <2>1. x = <<x[1], x[2]>> /\ x[1] \in Names /\ map[x[1]] \in 1..Len(contents)
    BY <1>10 DEF Things, Present, IndInv, TypeOK
  <2>2. CASE map[x[1]] # c.col
    BY <1>2, <1>7, <1>10, <2>1, <2>2 DEF Present
  <2>3. CASE map[x[1]] = c.col
    <3>1. x[1] = c.name /\ map'[x[1]] = c.col /\ map[x[1]] # 0
      BY <1>1, <1>2, <1>10, <2>1, <2>3 DEF HoldsCurrent, InCollection, Present
    <3>2. x[2] # Itself => x[2] \in contents[c.col]
      BY <1>10, <2>3 DEF Present
    <3>3. c.op = "insert" \/ x[2] # c.doc => Present(x)'
      BY <1>2, <1>7, <2>3, <3>1, <3>2 DEF Present
    <3>. QED
      BY <1>1, <2>1, <3>1, <3>3 DEF Writes
  <2>. QED
    BY <2>2, <2>3
<1>11. c.op = "delete" => TargetsOf(c) = {<<c.name, c.doc>>}
  BY <1>1 DEF TargetsOf, Targets
<1>12. TargetsOf(d) = TargetsOf(c) /\ ConcernsOf(d) = ConcernsOf(c)
  BY <1>1, <1>4 DEF TargetsOf, Targets, ConcernsOf, Concerns
<1>13. calls' = [calls EXCEPT ![t] = d] /\ DOMAIN calls = Threads
  BY <1>6 DEF Moved, IndInv, TypeOK
<1>14. MapOK'
  <2>1. ASSUME NEW x \in acked PROVE Present(x)'
    <3>1. x \in Things /\ Present(x) /\ x \notin TargetsOf(c)
      BY <1>1, <2>1 DEF IndInv, TypeOK, MapOK, CallOK
    <3>. QED
      BY <1>10, <1>11, <3>1
  <2>. QED
    BY <1>2, <2>1 DEF IndInv, MapOK
<1>15. ASSUME NEW u \in Threads, u # t PROVE CallOK(calls[u])'
  <2>1. CallOK(calls[u]) /\ calls'[u] = calls[u]
    BY <1>13, <1>15 DEF IndInv, CallsOK
  <2>2. ShapeOf(calls[u])' /\ HoldsCurrent(calls[u])'
    BY <1>2, <1>7, <2>1 DEF CallOK, ShapeOf, HoldsCurrent
  <2>. QED
    BY <1>2, <1>10, <1>11, <1>15, <2>1, <2>2, OthersKeep
<1>16. CallOK(calls[t])'
  <2>1. calls'[t] = d
    BY <1>13
  <2>2. ShapeOf(d)'
    BY <1>1, <1>4 DEF ShapeOf, InCollection
  <2>7. HoldsCurrent(d)'
    BY <1>4 DEF HoldsCurrent, InCollection
  <2>8. ~Won(d) /\ ListsOwed(d)
    BY <1>1, <1>4 DEF ListsOwed, Listings, Writes, Won
  <2>3. AnswersRight(d)
    BY <1>1, <1>4 DEF AnswersRight, Listings, Writes
  <2>4. ASSUME NEW x \in Claims(d) PROVE Present(x)'
    <3>1. CASE x \in d.known
      <4>1. x \in Claims(c) /\ x \notin TargetsOf(c)
        BY <1>1, <1>4, <2>4, <3>1 DEF Claims, CallOK
      <4>. QED
        BY <1>1, <1>10, <1>11, <4>1, ClaimsAreConcerns
    <3>2. CASE x \notin d.known
      <4>1. c.op = "insert" /\ x = <<c.name, c.doc>> /\ x \notin c.upset
        BY <1>4, <2>4, <2>8, <3>2 DEF Claims, Effect
      <4>2. x \in ConcernsOf(c) \cap ThingsOf(c.name)
        BY <1>1, <4>1 DEF ConcernsOf, Concerns, ThingsOf, Listings
      <4>3. map[c.name] = c.col
        BY <1>1, <4>1, <4>2 DEF HoldsCurrent, InCollection
      <4>4. c.doc \in contents'[c.col]
        BY <1>7, <4>1
      <4>6. map'[c.name] = c.col
        BY <1>2, <4>3
      <4>7. c.col # 0
        <5>1. c.col \in 1..Len(contents)
          BY <1>1
        <5>. QED
          BY <5>1
      <4>5. x[1] = c.name /\ x[2] = c.doc
        BY <4>1
      <4>. QED
        BY <4>4, <4>5, <4>6, <4>7 DEF Present
    <3>. QED
      BY <3>1, <3>2
  <2>5. acked' \cap TargetsOf(d) = {}
    BY <1>1, <1>2, <1>12 DEF CallOK
  <2>6. d.known \subseteq ConcernsOf(d) \ TargetsOf(d)
    BY <1>1, <1>4, <1>12 DEF CallOK
  <2>9. CallOK(d)'
    BY <1>4, <2>2, <2>3, <2>4, <2>5, <2>6, <2>7, <2>8
       DEF CallOK, ListsOwed, AnswersRight, Claims, Owed, Effect, Won, TargetsOf
  <2>. QED
    BY <2>1, <2>9
<1>17. ASSUME NEW u \in Threads, NEW v \in Threads, u # v
       PROVE  PairOK(calls[u], calls[v])'
  <2>1. PairOK(calls[u], calls[v]) /\ ~Won(d)
    BY <1>1, <1>4, <1>17 DEF IndInv, CallsOK, Won, Writes
  <2>2. PairOK(calls'[u], calls'[v])
    BY <1>1, <1>4, <1>12, <1>13, <1>17, <2>1 DEF PairOK
  <2>. QED
    BY <2>2
<1>. QED
  BY <1>8, <1>9, <1>14, <1>15, <1>16, <1>17 DEF IndInv, CallsOK

LEMMA WriteFailsKeeps ==
  ASSUME IndInv, NEW t \in Threads, WriteFails(t)
  PROVE  IndInv'
<1>1. CASE contents' = contents
  BY <1>1, WriteFailsIsQuiet, QuietKeeps DEF IndInv, CallsOK
<1>2. CASE contents' # contents
  <2>1. /\ calls[t].pc = "in col" /\ calls[t].op = "insert" /\ calls[t].op \in Writes
        /\ Becomes(t, Answered(calls[t], "error")) /\ UNCHANGED <<map, queue, acked>>
        /\ contents' = [contents EXCEPT ![calls[t].col] = @ \cup {calls[t].doc}]
    BY <1>2 DEF WriteFails, Writes
  <2>. QED
    BY <2>1, WrittenKeeps DEF Written
<1>. QED
  BY <1>1, <1>2

LEMMA WriteKeeps ==
  ASSUME IndInv, NEW t \in Threads, Write(t)
  PROVE  IndInv'
  BY WrittenKeeps DEF Write, Written

LEMMA ConflictIsQuiet ==
  ASSUME TypeOK, NEW t \in Threads, CallOK(calls[t]), calls[t].op = "create",
         calls[t].pc = "map", MayWrite(t, Map), queue' = Entered(Map),
         Becomes(t, Answered(calls[t], "conflict")),
         UNCHANGED <<contents, map, acked>>
  PROVE  Quiet(t)
<1>1. calls[t] \in CallRecords
  BY DEF TypeOK
<1>2. InPlace(Entered(Map), [Waiting EXCEPT ![t] = -1])
  BY EnteredLeaves, LocksAreNumbers
<1>3. ~Won(Answered(calls[t], "conflict"))
  BY <1>1 DEF Won, Answered, CallRecords
<1>. QED
  BY <1>1, <1>2, <1>3, AnsweredIsQuiet DEF Listings

\* A create that is about to enter the map has room.
LEMMA CreateHasRoom ==
  ASSUME TypeOK, RoomForCreates, NEW t \in Threads, NEW d, Moved(t, d),
         calls[t].op = "create", calls[t].pc = "map", d.pc # "map",
         Len(contents') = Len(contents) + 1
  PROVE  Len(contents') <= MaxCreated /\ RoomForCreates'
<1>1. t \in Pending /\ Pending' = Pending \ {t}
  BY DEF Pending, Moved, TypeOK
<1>2. Cardinality(Pending') = Cardinality(Pending) - 1
  BY <1>1, PendingIsFinite, FS_RemoveElement
<1>3. /\ Len(contents) \in Nat /\ Cardinality(Pending) \in Nat
      /\ Cardinality(Pending') \in Nat
  <2>1. IsFiniteSet(Pending')
    BY <1>1, PendingIsFinite, FS_RemoveElement
  <2>. QED
    BY <2>1, PendingIsFinite, ContentsAreDocs, FS_CardinalityType
<1>4. Len(contents') + Cardinality(Pending') = Len(contents) + Cardinality(Pending)
  BY <1>2, <1>3
<1>5. Len(contents) + Cardinality(Pending) <= MaxCreated
  BY DEF RoomForCreates
<1>. QED
  BY <1>3, <1>4, <1>5, ServerConstants DEF RoomForCreates

LEMMA NewEntry ==
  ASSUME NEW S, NEW s \in Seq(S), NEW e \in S
  PROVE  /\ Append(s, e) \in Seq(S) /\ Len(Append(s, e)) = Len(s) + 1
         /\ \A j \in 1..Len(s) : Append(s, e)[j] = s[j]
  OBVIOUS

LEMMA CreateKeeps ==
  ASSUME IndInv, NEW t \in Threads, Create(t)
  PROVE  IndInv'
<1>. DEFINE c == calls[t]
            k == Len(contents) + 1
<1>1. /\ c \in CallRecords /\ CallOK(c) /\ ShapeOf(c) /\ c.pc = "map"
      /\ c.op = "create" /\ c.name \in Names /\ MayWrite(t, Map)
  BY DEF IndInv, TypeOK, CallsOK, CallOK, Create, ShapeOf, Listings
<1>2. CASE Becomes(t, Answered(c, "conflict")) /\ UNCHANGED <<contents, map>>
  BY <1>1, <1>2, ConflictIsQuiet, QuietKeeps DEF Create, IndInv
<1>3. CASE /\ ~Taken(c.name) /\ contents' = Append(contents, {})
           /\ map' = [map EXCEPT ![c.name] = Len(contents')]
           /\ Becomes(t, [c EXCEPT !.pc = "catalog"])
  <2>1. queue' = Entered(Map) /\ UNCHANGED acked
    BY DEF Create
  <2>2. [c EXCEPT !.pc = "catalog"] \in CallRecords
    BY <1>1 DEF CallRecords
  <2>3. PICK d \in CallRecords :
          /\ Becomes(t, d)
          /\ d.op = "create" /\ d.pc = "catalog" /\ d.name = c.name
          /\ d.doc = c.doc /\ d.known = c.known /\ d.upset = c.upset
    BY <1>1, <1>3, <2>2 DEF CallRecords
  <2>4. Moved(t, d)
    BY <1>1, <2>1, <2>3, WaitsForIs, EnteredLeaves, LocksAreNumbers, Settles DEF IndInv
  <2>5. /\ contents' \in Seq(SUBSET Docs) /\ Len(contents') = k
        /\ \A i \in 1..Len(contents) : contents'[i] = contents[i]
        /\ Len(contents) \in Nat
    <3>. DEFINE D == SUBSET Docs
    <3>1. contents \in Seq(D) /\ {} \in D /\ Len(contents) \in Nat
      BY ContentsAreDocs DEF IndInv
    <3>. HIDE DEF D
    <3>2. /\ contents' \in Seq(D) /\ Len(contents') = k
          /\ \A i \in 1..Len(contents) : contents'[i] = contents[i]
      BY <1>3, <3>1, NewEntry
    <3>. QED
      BY <3>1, <3>2 DEF D
  <2>6. Len(contents') <= MaxCreated /\ RoomForCreates'
    BY <1>1, <2>3, <2>4, <2>5, CreateHasRoom DEF IndInv
  <2>7. /\ map \in [Names -> 0..Len(contents)] /\ map[c.name] = 0
        /\ map'[c.name] = k /\ \A n \in Names \ {c.name} : map'[n] = map[n]
        /\ map' \in [Names -> 0..Len(contents')]
    <3>1. map \in [Names -> 0..Len(contents)] /\ map[c.name] = 0
      BY <1>3 DEF IndInv, TypeOK, Taken
    <3>2. map' = [map EXCEPT ![c.name] = k]
      BY <1>3, <2>5
    <3>3. 0..Len(contents) \subseteq 0..k /\ k \in 0..k
      BY <2>5
    <3>. HIDE DEF k
    <3>4. map' \in [Names -> 0..k]
      BY <1>1, <3>1, <3>2, <3>3
    <3>5. map'[c.name] = k /\ \A n \in Names \ {c.name} : map'[n] = map[n]
      BY <1>1, <3>1, <3>2
    <3>. QED
      BY <2>5, <3>1, <3>4, <3>5
  <2>8. TypeOK'
    BY <2>1, <2>4, <2>5, <2>6, <2>7, MovedIsTyped DEF IndInv, TypeOK
  <2>9. ASSUME NEW x \in Things, Present(x) PROVE Present(x)'
    <3>1. /\ x[1] \in Names \ {c.name} /\ map[x[1]] # 0
          /\ map[x[1]] \in 0..Len(contents)
          /\ x[2] # Itself => x[2] \in contents[map[x[1]]]
      BY <2>7, <2>9 DEF Present, Things
    <3>2. map[x[1]] \in 1..Len(contents)
      BY <2>5, <3>1
    <3>3. contents'[map[x[1]]] = contents[map[x[1]]] /\ map'[x[1]] = map[x[1]]
      BY <2>5, <2>7, <3>1, <3>2
    <3>. QED
      BY <3>1, <3>3 DEF Present
  <2>10. calls' = [calls EXCEPT ![t] = d] /\ DOMAIN calls = Threads
    BY <2>4 DEF Moved, IndInv, TypeOK
  <2>11. MapOK'
    <3>1. ASSUME NEW m \in Names, NEW n \in Names, map'[m] = map'[n], map'[n] # 0
          PROVE  m = n
      <4>1. map[m] \in 0..Len(contents) /\ map[n] \in 0..Len(contents)
        BY <2>7
      <4>2. map[m] # k /\ map[n] # k
        BY <2>5, <4>1
      <4>. QED
        BY <2>7, <3>1, <4>2 DEF IndInv, MapOK
    <3>2. \A x \in acked' : Present(x)'
      BY <2>1, <2>9 DEF IndInv, TypeOK, MapOK
    <3>. QED
      BY <3>1, <3>2 DEF MapOK
  <2>12. ASSUME NEW u \in Threads, u # t PROVE CallOK(calls[u])'
    <3>1. /\ CallOK(calls[u]) /\ calls'[u] = calls[u] /\ calls[u] \in CallRecords
          /\ ShapeOf(calls[u]) /\ HoldsCurrent(calls[u])
      BY <2>10, <2>12 DEF IndInv, TypeOK, CallsOK, CallOK
    <3>2. PICK e \in CallRecords : e = calls[u] /\ e = calls'[u]
      BY <3>1
    <3>3. \A n \in Names : map[n] # 0 => map'[n] # 0
      BY <2>5, <2>7
    <3>4. InCollection(e) => e.col \in 1..Len(contents') /\ e.col # k /\ e.col # 0
      <4>1. InCollection(e) => e.col \in 1..Len(contents)
        BY <3>1, <3>2 DEF ShapeOf
      <4>. QED
        BY <2>5, <4>1
    <3>5. ShapeOf(e)'
      <4>1. e.todo \subseteq Names
        BY DEF CallRecords
      <4>. QED
        BY <3>1, <3>2, <3>3, <3>4, <4>1 DEF ShapeOf
    <3>6. HoldsCurrent(e)'
      <4>. SUFFICES ASSUME InCollection(e) PROVE HoldsCurrent(e)'
        BY DEF HoldsCurrent
      <4>1. e.name \in Names
        BY <3>1, <3>2 DEF ShapeOf, InCollection
      <4>2. \A n \in Names : map'[n] = e.col => n = e.name
        BY <2>7, <3>1, <3>2, <3>4 DEF HoldsCurrent
      <4>3. map[e.name] = e.col => map'[e.name] = e.col
        BY <2>7, <3>4, <4>1
      <4>. QED
        BY <3>1, <3>2, <4>2, <4>3 DEF HoldsCurrent
    <3>. QED
      BY <2>1, <2>9, <2>12, <3>1, <3>2, <3>5, <3>6, OthersKeep
  <2>13. <<c.name, Itself>> \notin acked
    BY <2>7 DEF IndInv, MapOK, Present
  <2>14. ConcernsOf(d) = ConcernsOf(c) /\ TargetsOf(d) = {} /\ TargetsOf(c) = {}
    BY <1>1, <2>3 DEF ConcernsOf, Concerns, TargetsOf, Targets
  <2>15. CallOK(calls[t])'
    <3>1. ShapeOf(d)'
      BY <1>1, <2>3 DEF ShapeOf, InCollection
    <3>2. HoldsCurrent(d)' /\ ListsOwed(d) /\ AnswersRight(d)
      BY <2>3 DEF HoldsCurrent, InCollection, ListsOwed, Listings, AnswersRight
    <3>3. ASSUME NEW x \in Claims(d) PROVE Present(x)'
      <4>1. CASE x \in d.known
        <5>1. x \in Claims(c)
          BY <2>3, <3>3, <4>1 DEF Claims
        <5>. QED
          BY <1>1, <2>9, <5>1, ClaimsAreConcerns
      <4>2. CASE x \notin d.known
        <5>1. x = <<c.name, Itself>>
          BY <2>3, <3>3, <4>2 DEF Claims, Effect
        <5>2. map'[c.name] # 0
          BY <2>5, <2>7
        <5>. QED
          BY <5>1, <5>2 DEF Present
      <4>. QED
        BY <4>1, <4>2
    <3>4. d.known \subseteq ConcernsOf(d) \ TargetsOf(d)
      BY <1>1, <2>3, <2>14 DEF CallOK
    <3>5. CallOK(d)'
      BY <2>1, <2>3, <2>13, <2>14, <3>1, <3>2, <3>3, <3>4
         DEF CallOK, ListsOwed, AnswersRight, Claims, Owed, Effect, Won, TargetsOf
    <3>. QED
      BY <2>10, <3>5
  <2>16. ASSUME NEW u \in Threads, NEW v \in Threads, u # v
         PROVE  PairOK(calls[u], calls[v])'
    <3>1. PairOK(calls[u], calls[v])
      BY <2>16 DEF IndInv, CallsOK
    <3>2. ASSUME NEW w \in Threads, Won(calls[w]) PROVE calls[w].name # d.name
      <4>1. <<calls[w].name, Itself>> \in Claims(calls[w])
        BY <3>2 DEF Claims, Effect, Won
      <4>2. Present(<<calls[w].name, Itself>>)
        BY <4>1 DEF IndInv, CallsOK, CallOK
      <4>. QED
        BY <2>3, <2>7, <4>2 DEF Present
    <3>3. PairOK(calls'[u], calls'[v])
      BY <1>1, <2>3, <2>10, <2>14, <2>16, <3>1, <3>2 DEF PairOK
    <3>. QED
      BY <3>3
  <2>. QED
    BY <2>6, <2>8, <2>11, <2>12, <2>15, <2>16 DEF IndInv, CallsOK
<1>. QED
  BY <1>2, <1>3 DEF Create

LEMMA DropKeeps ==
  ASSUME IndInv, NEW t \in Threads, Drop(t)
  PROVE  IndInv'
<1>. DEFINE c == calls[t]
<1>1. /\ c \in CallRecords /\ CallOK(c) /\ ShapeOf(c) /\ c.pc = "map"
      /\ c.op = "drop" /\ c.name \in Names /\ MayWrite(t, Map)
      /\ queue' = Entered(Map) /\ UNCHANGED <<contents, acked>>
      /\ map' = [map EXCEPT ![c.name] = 0]
  BY DEF IndInv, TypeOK, CallsOK, CallOK, Drop, ShapeOf, Listings
<1>2. map \in [Names -> 0..Len(contents)] /\ Len(contents) \in Nat
  BY ContentsAreDocs DEF IndInv, TypeOK
<1>3. ConcernsOf(c) = {<<c.name, Itself>>} /\ TargetsOf(c) = ThingsOf(c.name)
  BY <1>1 DEF ConcernsOf, Concerns, TargetsOf, Targets, ThingsOf, Listings
<1>4. c.known = {}
  BY <1>1, <1>3 DEF CallOK, ThingsOf
<1>5. CASE ~Taken(c.name)
  <2>1. Becomes(t, Answered(c, "not found")) /\ map' = map
    BY <1>1, <1>2, <1>5 DEF Drop, Taken
  <2>2. InPlace(Entered(Map), [Waiting EXCEPT ![t] = -1])
    BY <1>1, EnteredLeaves, LocksAreNumbers DEF IndInv
  <2>3. ~Won(Answered(c, "not found"))
    BY <1>1 DEF Won, Answered, CallRecords
  <2>4. Owed(c) = {}
    BY <1>4 DEF Owed
  <2>5. Quiet(t)
    BY <1>1, <2>1, <2>2, <2>3, <2>4, AnsweredIsQuiet DEF IndInv, Listings
  <2>. QED
    BY <2>5, QuietKeeps
<1>6. CASE Taken(c.name)
  <2>1. Becomes(t, [c EXCEPT !.pc = "catalog"])
    BY <1>6 DEF Drop
  <2>2. [c EXCEPT !.pc = "catalog"] \in CallRecords
    BY <1>1 DEF CallRecords
  <2>3. PICK d \in CallRecords :
          /\ Becomes(t, d)
          /\ d.op = "drop" /\ d.pc = "catalog" /\ d.name = c.name
          /\ d.doc = c.doc /\ d.known = {} /\ d.upset = c.upset
    BY <1>1, <1>4, <2>1, <2>2 DEF CallRecords
  <2>4. Moved(t, d)
    BY <1>1, <2>3, WaitsForIs, EnteredLeaves, LocksAreNumbers, Settles DEF IndInv
  <2>5. /\ map' \in [Names -> 0..Len(contents)] /\ map'[c.name] = 0
        /\ \A n \in Names \ {c.name} : map'[n] = map[n]
    BY <1>1, <1>2
  <2>6. TypeOK'
    BY <1>1, <2>4, <2>5, MovedIsTyped DEF IndInv, TypeOK
  <2>7. RoomForCreates'
    BY <1>1, <2>3, <2>4, RoomIsKept DEF IndInv
  <2>8. ASSUME NEW x \in Things, Present(x)
        PROVE  Present(x)' \/ x \in TargetsOf(c)
    BY <1>1, <1>3, <2>5, <2>8 DEF Present, Things, ThingsOf
  <2>9. calls' = [calls EXCEPT ![t] = d] /\ DOMAIN calls = Threads
    BY <2>4 DEF Moved, IndInv, TypeOK
  <2>10. MapOK'
    <3>1. ASSUME NEW x \in acked PROVE Present(x)'
      <4>1. x \in Things /\ Present(x) /\ x \notin TargetsOf(c)
        BY <1>1, <3>1 DEF IndInv, TypeOK, MapOK, CallOK
      <4>. QED
        BY <2>8, <4>1
    <3>2. ASSUME NEW m \in Names, NEW n \in Names, map'[m] = map'[n], map'[n] # 0
          PROVE  m = n
      BY <2>5, <3>2 DEF IndInv, MapOK
    <3>. QED
      BY <1>1, <3>1, <3>2 DEF MapOK
  <2>11. TargetsOf(d) = TargetsOf(c) /\ ConcernsOf(d) = ConcernsOf(c)
    BY <1>1, <2>3 DEF TargetsOf, Targets, ConcernsOf, Concerns
  <2>12. ASSUME NEW u \in Threads, u # t PROVE CallOK(calls[u])'
    <3>1. /\ CallOK(calls[u]) /\ calls'[u] = calls[u] /\ calls[u] \in CallRecords
          /\ ShapeOf(calls[u]) /\ HoldsCurrent(calls[u])
          /\ PairOK(calls[t], calls[u])
      BY <2>9, <2>12 DEF IndInv, TypeOK, CallsOK, CallOK
    <3>2. PICK e \in CallRecords : e = calls[u] /\ e = calls'[u]
      BY <3>1
    <3>3. ~(e.op = "stats" /\ InCollection(e))
      <4>1. u \notin Inside(Map)
        BY <1>1 DEF MayWrite
      <4>. QED
        BY <3>2, <4>1 DEF Inside, InCollection
    <3>4. ShapeOf(e)'
      BY <1>1, <3>1, <3>2, <3>3 DEF ShapeOf
    <3>5. HoldsCurrent(e)'
      <4>. SUFFICES ASSUME InCollection(e) PROVE HoldsCurrent(e)'
        BY DEF HoldsCurrent
      <4>1. e.name \in Names /\ e.pc # "idle" /\ e.col \in 1..Len(contents)
        BY <3>1, <3>2 DEF ShapeOf, InCollection
      <4>2. e.col # 0
        BY <1>2, <4>1
      <4>3. \A n \in Names : map'[n] = e.col => n = e.name
        BY <2>5, <3>1, <3>2, <4>2 DEF HoldsCurrent
      <4>4. e.name # c.name => map'[e.name] = map[e.name]
        BY <2>5, <4>1
      <4>5. e.name = c.name => ConcernsOf(e) \cap ThingsOf(e.name) \subseteq e.upset
        BY <1>3, <3>1, <3>2, <4>1 DEF PairOK
      <4>. QED
        BY <3>1, <3>2, <4>3, <4>4, <4>5 DEF HoldsCurrent
    <3>. QED
      BY <1>1, <2>8, <2>12, <3>1, <3>2, <3>4, <3>5, OthersKeep
  <2>13. CallOK(calls[t])'
    <3>1. ShapeOf(d)'
      BY <1>1, <2>3 DEF ShapeOf, InCollection
    <3>2. /\ HoldsCurrent(d)' /\ ListsOwed(d) /\ AnswersRight(d) /\ ~Won(d)
          /\ Claims(d) = {}
      BY <2>3 DEF HoldsCurrent, InCollection, ListsOwed, Listings, AnswersRight, Won,
                  Claims, Effect
    <3>3. acked' \cap TargetsOf(d) = {}
      BY <1>1, <2>11 DEF CallOK
    <3>4. CallOK(d)'
      BY <2>3, <3>1, <3>2, <3>3
         DEF CallOK, ListsOwed, AnswersRight, Claims, Owed, Effect, Won, TargetsOf
    <3>. QED
      BY <2>9, <3>4
  <2>14. ASSUME NEW u \in Threads, NEW v \in Threads, u # v
         PROVE  PairOK(calls[u], calls[v])'
    <3>1. PairOK(calls[u], calls[v])
      BY <2>14 DEF IndInv, CallsOK
    <3>2. PairOK(calls'[u], calls'[v])
      BY <1>1, <2>3, <2>9, <2>11, <2>14, <3>1 DEF PairOK, Won
    <3>. QED
      BY <3>2
  <2>. QED
    BY <2>6, <2>7, <2>10, <2>12, <2>13, <2>14 DEF IndInv, CallsOK
<1>. QED
  BY <1>5, <1>6

-----------------------------------------------------------------------------
(* A call begins and ends.                                                 *)

LEMMA IdleIsTyped ==
  /\ Idle \in CallRecords /\ WaitsFor(Idle) = -1 /\ Idle.pc = "idle"
  /\ Idle.op = "none" /\ Idle.known = {} /\ Idle.upset = {}
<1>1. Idle \in CallRecords
  BY DEF Idle, CallRecords
<1>2. Idle.pc = "idle" /\ Idle.op = "none" /\ Idle.known = {} /\ Idle.upset = {}
  BY DEF Idle
<1>. QED
  BY <1>1, <1>2, WaitsForIs

\* A thread without a call.
LEMMA IdleIsCallOK == CallOK(Idle) /\ CallOK(Idle)'
<1>1. ShapeOf(Idle) /\ HoldsCurrent(Idle) /\ ShapeOf(Idle)' /\ HoldsCurrent(Idle)'
  BY IdleIsTyped DEF ShapeOf, InCollection, HoldsCurrent
<1>2. ListsOwed(Idle) /\ AnswersRight(Idle)
  BY IdleIsTyped DEF ListsOwed, Listings, AnswersRight
<1>3. Claims(Idle) = {} /\ TargetsOf(Idle) = {} /\ ~Won(Idle)
  BY IdleIsTyped DEF Claims, Effect, Won, TargetsOf
<1>. QED
  BY <1>1, <1>2, <1>3, IdleIsTyped
     DEF CallOK, ListsOwed, AnswersRight, Claims, Owed, Effect, Won, TargetsOf

LEMMA AnswerKeeps ==
  ASSUME IndInv, NEW t \in Threads, Answer(t)
  PROVE  IndInv'
<1>. DEFINE c == calls[t]
            done == CASE c.op = "insert" -> {<<c.name, c.doc>>}
                      [] c.op = "create" -> {<<c.name, Itself>>}
                      [] OTHER -> {}
<1>1. /\ c \in CallRecords /\ CallOK(c) /\ ShapeOf(c) /\ c.pc = "answer"
      /\ Becomes(t, Idle) /\ UNCHANGED <<contents, map, queue>>
      /\ acked' = IF c.answer = "ok" THEN acked \cup (done \ c.upset) ELSE acked
  BY DEF IndInv, TypeOK, CallsOK, CallOK, Answer
<1>2. /\ c.op = "insert" => done = {<<c.name, c.doc>>}
      /\ c.op = "create" => done = {<<c.name, Itself>>}
      /\ c.op \notin {"insert", "create"} => done = {}
  <2>1. CASE c.op = "insert"
    BY <2>1
  <2>2. CASE c.op = "create"
    BY <2>2
  <2>3. CASE c.op \notin {"insert", "create"}
    BY <2>3
  <2>. QED
    BY <2>1, <2>2, <2>3
<1>. HIDE DEF done
<1>3. ASSUME c.answer = "ok", NEW x \in done \ c.upset PROVE x \in Claims(c)
  BY <1>1, <1>2, <1>3 DEF Claims, Effect, Won
<1>4. ASSUME NEW x \in acked'
      PROVE  /\ x \in Things /\ Present(x)
             /\ x \in acked \/ (c.answer = "ok" /\ x \in done /\ x \in Claims(c))
  <2>1. CASE x \in acked
    BY <2>1 DEF IndInv, TypeOK, MapOK
  <2>2. CASE x \notin acked
    BY <1>1, <1>3, <1>4, <2>2, ClaimsAreConcerns
  <2>. QED
    BY <2>1, <2>2
<1>5. calls' = [calls EXCEPT ![t] = Idle] /\ DOMAIN calls = Threads
  BY <1>1 DEF Becomes, IndInv, TypeOK
<1>6. Moved(t, Idle)
  <2>1. WaitsFor(c) = -1
    BY <1>1, WaitsForIs
  <2>. QED
    BY <1>1, <2>1, IdleIsTyped, Settles, WithoutPlace DEF IndInv
<1>7. TypeOK'
  BY <1>1, <1>4, <1>6, MovedIsTyped DEF IndInv, TypeOK
<1>8. RoomForCreates'
  BY <1>1, <1>6, IdleIsTyped, RoomIsKept DEF IndInv
<1>9. MapOK'
  BY <1>1, <1>4 DEF IndInv, MapOK, Present
<1>10. ASSUME NEW u \in Threads, u # t PROVE CallOK(calls[u])'
  <2>1. /\ CallOK(calls[u]) /\ calls'[u] = calls[u] /\ calls[u] \in CallRecords
        /\ PairOK(calls[u], calls[t])
    BY <1>5, <1>10 DEF IndInv, TypeOK, CallsOK
  <2>2. PICK e \in CallRecords : e = calls[u] /\ e = calls'[u]
    BY <2>1
  <2>3. acked' \cap TargetsOf(e) = {}
    <3>. SUFFICES ASSUME NEW x \in acked' PROVE x \notin TargetsOf(e)
      OBVIOUS
    <3>1. CASE x \in acked
      BY <2>1, <2>2, <3>1 DEF CallOK
    <3>2. CASE x \in Claims(c)
      <4>1. x \in ConcernsOf(c) /\ x \notin c.upset
        BY <1>1, <3>2, ClaimsAreConcerns
      <4>. QED
        BY <1>1, <2>1, <2>2, <4>1 DEF PairOK
    <3>. QED
      BY <1>4, <3>1, <3>2
  <2>4. Won(e) => <<e.name, Itself>> \notin acked'
    <3>. SUFFICES ASSUME Won(e), <<e.name, Itself>> \in acked' PROVE FALSE
      OBVIOUS
    <3>1. <<e.name, Itself>> \notin acked
      BY <2>1, <2>2 DEF CallOK
    <3>2. c.answer = "ok" /\ <<e.name, Itself>> \in done /\ <<e.name, Itself>> \notin c.upset
      BY <1>1, <1>4, <3>1, ClaimsAreConcerns
    <3>3. c.op # "insert"
      BY <1>1, <1>2, <3>2 DEF ShapeOf, Writes
    <3>4. c.op = "create" /\ c.name = e.name
      BY <1>2, <3>2, <3>3
    <3>5. Won(c)
      BY <1>1, <3>2, <3>4 DEF Won
    <3>. QED
      BY <2>1, <2>2, <3>4, <3>5 DEF PairOK
  <2>5. ShapeOf(e)' /\ HoldsCurrent(e)'
    BY <1>1, <2>1, <2>2 DEF CallOK, ShapeOf, HoldsCurrent
  <2>6. \A x \in Claims(e) : Present(x)'
    BY <1>1, <2>1, <2>2 DEF CallOK, Present
  <2>7. CallOK(e)'
    BY <2>1, <2>2, <2>3, <2>4, <2>5, <2>6, OtherStays
  <2>. QED
    BY <2>2, <2>7
<1>11. CallOK(calls[t])'
  <2>1. calls'[t] = Idle
    BY <1>5
  <2>. QED
    BY <2>1, IdleIsCallOK
<1>12. ASSUME NEW u \in Threads, NEW v \in Threads, u # v
       PROVE  PairOK(calls[u], calls[v])'
  <2>1. PairOK(calls[u], calls[v])
    BY <1>12 DEF IndInv, CallsOK
  <2>2. TargetsOf(Idle) = {} /\ ~Won(Idle)
    BY IdleIsTyped DEF TargetsOf, Won
  <2>3. PairOK(calls'[u], calls'[v])
    BY <1>5, <1>12, <2>1, <2>2, IdleIsTyped DEF PairOK
  <2>. QED
    BY <2>3
<1>. QED
  BY <1>7, <1>8, <1>9, <1>10, <1>11, <1>12 DEF IndInv, CallsOK

\* The same call, which knows that more is taken away.
LEMMA UpsetStays ==
  ASSUME NEW c \in CallRecords, CallOK(c), NEW e \in CallRecords,
         e.pc = c.pc, e.op = c.op, e.name = c.name, e.doc = c.doc, e.col = c.col,
         e.todo = c.todo, e.found = c.found, e.known = c.known,
         e.answer = c.answer, c.upset \subseteq e.upset, c.pc # "idle",
         acked' \subseteq acked, UNCHANGED <<contents, map>>
  PROVE  CallOK(e)' /\ (Won(e) => Won(c)) /\ TargetsOf(e) = TargetsOf(c)
<1>1. TargetsOf(e) = TargetsOf(c) /\ ConcernsOf(e) = ConcernsOf(c)
  BY DEF TargetsOf, ConcernsOf
<1>2. Won(e) => Won(c)
  BY DEF Won
<1>3. Effect(e) \subseteq Effect(c)
  BY <1>2 DEF Effect
<1>4. Claims(e) \subseteq Claims(c) /\ Owed(e) \subseteq Owed(c)
  BY <1>3 DEF Claims, Owed
<1>5. ShapeOf(e)'
  <2>1. ShapeOf(c)
    BY DEF CallOK
  <2>. QED
    BY <2>1 DEF ShapeOf, InCollection
<1>6. HoldsCurrent(e)'
  <2>1. HoldsCurrent(c)
    BY DEF CallOK
  <2>. QED
    BY <1>1, <2>1 DEF HoldsCurrent, InCollection
<1>7. ListsOwed(e)
  <2>1. ListsOwed(c)
    BY DEF CallOK
  <2>. QED
    BY <1>4, <2>1 DEF ListsOwed
<1>8. AnswersRight(e)
  <2>1. AnswersRight(c)
    BY DEF CallOK
  <2>. QED
    BY <1>4, <2>1 DEF AnswersRight
<1>9. \A x \in Claims(e) : Present(x)'
  BY <1>4 DEF CallOK, Present
<1>10. /\ acked' \cap TargetsOf(e) = {}
       /\ e.known \subseteq ConcernsOf(e) \ TargetsOf(e)
       /\ Won(e) => /\ <<e.name, Itself>> \notin acked'
                    /\ e.pc = "answer" => e.answer = "ok"
  BY <1>1, <1>2 DEF CallOK
<1>11. CallOK(e)'
  BY <1>5, <1>6, <1>7, <1>8, <1>9, <1>10
     DEF CallOK, ListsOwed, AnswersRight, Claims, Owed, Effect, Won, TargetsOf
<1>. QED
  BY <1>1, <1>2, <1>11

LEMMA CallKeeps ==
  ASSUME IndInv, NEW t \in Threads, NEW op \in Ops, NEW n, NEW d \in Docs \cup {Itself},
         n \in Names \/ (op \in Listings /\ n = "none"), Call(t, op, n, d)
  PROVE  IndInv'
<1>. DEFINE T == Targets(op, n, d)
            C == Concerns(op, n, d)
            K == C \cap (acked \ T)
            U == C \cap UNION {TargetsOf(calls[v]) : v \in Threads}
            e == [Idle EXCEPT !.pc = FirstStep(op), !.op = op, !.name = n, !.doc = d,
                              !.known = K, !.upset = U]
            Later(u) == [calls[u] EXCEPT !.upset = @ \cup (T \cap
                           Concerns(calls[u].op, calls[u].name, calls[u].doc))]
<1>1. /\ calls[t].pc = "idle" /\ (op \in Writes) = (d # Itself)
      /\ op = "create" => Len(contents) + Cardinality(Creating) < MaxCreated
      /\ calls' = [u \in Threads |-> IF u = t THEN e
                                     ELSE IF calls[u].pc = "idle" THEN Idle
                                     ELSE Later(u)]
      /\ queue' = Waits(t, Map)
      /\ acked' = acked \ T
      /\ UNCHANGED <<contents, map>>
  BY DEF Call
<1>2. FirstStep(op) \in {"map", "names", "lookup"} /\
      (FirstStep(op) = "map" <=> op \in {"create", "drop", "stats"}) /\
      (FirstStep(op) = "names" <=> op = "list")
  <2>1. CASE op \in {"create", "drop", "stats"}
    BY <2>1 DEF FirstStep
  <2>2. CASE op = "list"
    BY <2>2 DEF FirstStep
  <2>3. CASE op \notin {"create", "drop", "stats", "list"}
    BY <2>3 DEF FirstStep
  <2>. QED
    BY <2>1, <2>2, <2>3
<1>3. acked \subseteq Things /\ \A u \in Threads : calls[u] \in CallRecords
  BY DEF IndInv, TypeOK
<1>4. C \subseteq Things
  <2>1. CASE op \in Listings
    BY <2>1 DEF Concerns, Things
  <2>2. CASE op = "search"
    BY <2>2 DEF Concerns, Things, Listings
  <2>3. CASE op = "insert"
    <3>1. n \in Names /\ C = {n} \X {d} \cup {<<n, Itself>>}
      BY <2>3 DEF Concerns, Listings
    <3>. HIDE DEF C
    <3>. QED
      BY <3>1 DEF Things
  <2>4. CASE op \notin Listings \cup {"search", "insert"}
    BY <2>4 DEF Concerns, Things
  <2>. QED
    BY <2>1, <2>2, <2>3, <2>4
<1>11. T \subseteq Things
  <2>1. CASE op = "delete"
    <3>1. n \in Names /\ T = {<<n, d>>}
      BY <2>1 DEF Targets, Listings
    <3>. HIDE DEF T
    <3>. QED
      BY <3>1 DEF Things
  <2>2. CASE op = "drop"
    BY <2>2 DEF Targets, Things, Listings
  <2>3. CASE op \notin {"delete", "drop"}
    BY <2>3 DEF Targets
  <2>. QED
    BY <2>1, <2>2, <2>3
<1>. HIDE DEF T, C
<1>5. K \subseteq Things /\ U \subseteq Things
  BY <1>4
<1>. HIDE DEF K, U
<1>6. e \in CallRecords
  <2>1. n \in Names \cup {"none"}
    OBVIOUS
  <2>2. FirstStep(op) \in {"idle", "lookup", "names", "map", "catalog", "col", "in col", "answer"}
    BY <1>2
  <2>. QED
    BY <1>5, <2>1, <2>2, IdleIsTyped DEF CallRecords
<1>7. /\ e.pc = FirstStep(op) /\ e.op = op /\ e.name = n /\ e.doc = d
      /\ e.known = K /\ e.upset = U
  BY IdleIsTyped DEF CallRecords
<1>8. PICK f \in CallRecords :
        /\ f = e
        /\ f.pc = FirstStep(op) /\ f.op = op /\ f.name = n /\ f.doc = d
        /\ f.known = K /\ f.upset = U
  BY <1>6, <1>7
<1>. HIDE DEF e
<1>9. ASSUME NEW u \in Threads
      PROVE  /\ Later(u) \in CallRecords
             /\ Later(u).pc = calls[u].pc /\ Later(u).op = calls[u].op
             /\ Later(u).name = calls[u].name /\ Later(u).doc = calls[u].doc
             /\ Later(u).col = calls[u].col /\ Later(u).todo = calls[u].todo
             /\ Later(u).found = calls[u].found /\ Later(u).known = calls[u].known
             /\ Later(u).answer = calls[u].answer
             /\ Later(u).upset = calls[u].upset \cup (T \cap ConcernsOf(calls[u]))
  <2>1. calls[u] \in CallRecords
    BY <1>3
  <2>2. (T \cap ConcernsOf(calls[u])) \subseteq Things
    BY <1>11
  <2>. QED
    BY <2>1, <2>2 DEF CallRecords, ConcernsOf
<1>. HIDE DEF Later
<1>10. ASSUME NEW u \in Threads
       PROVE  /\ u = t => calls'[u] = f
              /\ u # t /\ calls[u].pc = "idle" => calls'[u] = calls[u]
              /\ u # t /\ calls[u].pc # "idle" => calls'[u] = Later(u)
  <2>1. calls[u].pc = "idle" => calls[u] = Idle
    BY DEF IndInv, CallsOK, CallOK, ShapeOf
  <2>. QED
    BY <1>1, <1>8, <2>1
<1>12. TypeOK'
  <2>. DEFINE w == [Waiting EXCEPT ![t] = Map]
  <2>1. Waiting \in [Threads -> Int] /\ InPlace(queue, Waiting) /\ Waiting[t] = -1
    BY <1>1, EveryoneInPlace, WaitsForIs DEF IndInv
  <2>2. InPlace(queue', w)
    <3>1. InPlace(queue, w) /\ w \in [Threads -> Int] /\ w[t] = Map
      <4>1. [Waiting EXCEPT ![t] = -1] = Waiting /\ Map \in Int
        BY <2>1, LocksAreNumbers
      <4>. QED
        BY <2>1, <4>1, MayWaitFor
    <3>2. t \notin Range(queue[Map])
      BY <2>1, LocksAreNumbers DEF InPlace
    <3>. HIDE DEF w
    <3>. QED
      BY <1>1, <3>1, <3>2, Joins, LocksAreNumbers DEF Waits
  <2>3. ASSUME NEW u \in Threads
        PROVE  w[u] = WaitsFor(calls'[u]) /\ calls'[u] \in CallRecords
    <3>1. Waiting[u] = WaitsFor(calls[u])
      BY EveryoneInPlace DEF IndInv
    <3>2. CASE u = t
      BY <1>2, <1>8, <1>10, <2>1, <3>2, WaitsForIs
    <3>3. CASE u # t /\ calls[u].pc = "idle"
      BY <1>3, <1>10, <2>1, <3>1, <3>3
    <3>4. CASE u # t /\ calls[u].pc # "idle"
      <4>1. WaitsFor(Later(u)) = WaitsFor(calls[u])
        BY <1>9 DEF WaitsFor
      <4>. QED
        BY <1>9, <1>10, <2>1, <3>1, <3>4, <4>1
    <3>. QED
      BY <3>2, <3>3, <3>4
  <2>4. calls' \in [Threads -> CallRecords]
    BY <1>1, <2>3
  <2>. HIDE DEF w
  <2>. QED
    BY <1>1, <2>2, <2>3, <2>4, TypedAfter DEF IndInv, TypeOK
<1>13. RoomForCreates'
  <2>1. ASSUME NEW u \in Threads, u # t
        PROVE  calls'[u].op = calls[u].op /\ calls'[u].pc = calls[u].pc
    BY <1>9, <1>10, <2>1
  <2>2. /\ Len(contents) \in Nat /\ Cardinality(Pending) \in Nat
        /\ IsFiniteSet(Creating) /\ Cardinality(Creating) \in Nat
        /\ MaxCreated \in Nat
    <3>1. Creating \subseteq Threads
      BY DEF Creating
    <3>. QED
      BY <3>1, ServerConstants, FS_Subset, FS_CardinalityType, PendingIsFinite,
         ContentsAreDocs DEF IndInv
  <2>3. CASE op = "create"
    <3>1. Pending' \subseteq Creating \cup {t}
      BY <2>1 DEF Pending, Creating
    <3>2. Cardinality(Creating \cup {t}) <= Cardinality(Creating) + 1
          /\ IsFiniteSet(Creating \cup {t}) /\ Cardinality(Creating \cup {t}) \in Nat
      <4>1. t \notin Creating
        BY <1>1, IdleIsTyped DEF IndInv, CallsOK, CallOK, ShapeOf, Creating
      <4>2. /\ IsFiniteSet(Creating \cup {t})
            /\ Cardinality(Creating \cup {t}) = Cardinality(Creating) + 1
        BY <2>2, <4>1, FS_AddElement
      <4>. QED
        BY <2>2, <4>2
    <3>3. Cardinality(Pending') \in Nat /\ Cardinality(Pending') <= Cardinality(Creating) + 1
      <4>1. /\ IsFiniteSet(Pending')
            /\ Cardinality(Pending') <= Cardinality(Creating \cup {t})
        BY <3>1, <3>2, FS_Subset
      <4>2. Cardinality(Pending') \in Nat
        BY <4>1, FS_CardinalityType
      <4>. QED
        BY <2>2, <3>2, <4>1, <4>2
    <3>4. Len(contents) + Cardinality(Creating) < MaxCreated
      BY <1>1, <2>3
    <3>5. Len(contents) + Cardinality(Pending') <= MaxCreated
      BY <2>2, <3>3, <3>4
    <3>. QED
      BY <1>1, <3>5 DEF RoomForCreates
  <2>4. CASE op # "create"
    <3>1. Pending' = Pending
      BY <1>1, <1>8, <1>10, <2>1, <2>4, IdleIsTyped DEF Pending
    <3>. QED
      BY <1>1, <3>1 DEF IndInv, RoomForCreates
  <2>. QED
    BY <2>3, <2>4
<1>14. MapOK'
  BY <1>1 DEF IndInv, MapOK, Present
<1>15. ASSUME NEW u \in Threads, u # t
       PROVE  /\ CallOK(calls[u])' /\ TargetsOf(calls'[u]) = TargetsOf(calls[u])
              /\ Won(calls'[u]) => Won(calls[u])
  <2>1. CallOK(calls[u])
    BY DEF IndInv, CallsOK
  <2>2. CASE calls[u].pc = "idle"
    <3>1. calls'[u] = Idle /\ calls[u] = Idle
      BY <1>10, <1>15, <2>1, <2>2 DEF CallOK, ShapeOf
    <3>2. CallOK(Idle)'
      BY IdleIsCallOK
    <3>. QED
      BY <3>1, <3>2
  <2>3. CASE calls[u].pc # "idle"
    <3>1. PICK g \in CallRecords :
            /\ g = calls'[u] /\ g.pc = calls[u].pc /\ g.op = calls[u].op
            /\ g.name = calls[u].name /\ g.doc = calls[u].doc
            /\ g.col = calls[u].col /\ g.todo = calls[u].todo
            /\ g.found = calls[u].found /\ g.known = calls[u].known
            /\ g.answer = calls[u].answer /\ calls[u].upset \subseteq g.upset
      BY <1>9, <1>10, <1>15, <2>3
    <3>2. PICK c \in CallRecords : c = calls[u]
      BY <1>3
    <3>3. acked' \subseteq acked
      BY <1>1
    <3>4. CallOK(g)' /\ (Won(g) => Won(c)) /\ TargetsOf(g) = TargetsOf(c)
      BY <1>1, <2>1, <2>3, <3>1, <3>2, <3>3, UpsetStays
    <3>. QED
      BY <3>1, <3>2, <3>4
  <2>. QED
    BY <2>2, <2>3
<1>16. ConcernsOf(f) = C /\ TargetsOf(f) = T /\ ~Won(f) /\ Claims(f) = K \ U
  <2>1. f.pc # "idle"
    BY <1>2, <1>8
  <2>2. ~Won(f) /\ Effect(f) = {}
    <3>1. f.op = "create" => f.pc = "map"
      BY <1>2, <1>8
    <3>2. f.pc # "answer"
      BY <1>2, <1>8
    <3>. QED
      BY <3>1, <3>2 DEF Won, Effect
  <2>. QED
    BY <1>8, <2>1, <2>2 DEF ConcernsOf, TargetsOf, Claims, C, T
<1>17. CallOK(calls[t])'
  <2>1. ShapeOf(f)'
    <3>1. f.pc \in {"map", "names", "lookup"}
      BY <1>2, <1>8
    <3>2. f.pc = "lookup" => f.op \notin Listings \cup {"drop", "create"}
      BY <1>2, <1>8 DEF Listings
    <3>. QED
      BY <1>1, <1>2, <1>8, <3>1, <3>2 DEF ShapeOf, InCollection, Listings
  <2>2. HoldsCurrent(f)' /\ ListsOwed(f) /\ AnswersRight(f)
    <3>1. f.pc \in {"map", "names", "lookup"}
      BY <1>2, <1>8
    <3>2. f.op \in Listings => f.pc # "lookup"
      BY <1>2, <1>8 DEF Listings
    <3>. QED
      BY <3>1, <3>2 DEF HoldsCurrent, InCollection, ListsOwed, AnswersRight
  <2>3. acked' \cap TargetsOf(f) = {} /\ f.known \subseteq ConcernsOf(f) \ TargetsOf(f)
    BY <1>1, <1>8, <1>16 DEF K
  <2>4. \A x \in Claims(f) : Present(x)'
    BY <1>1, <1>16 DEF K, IndInv, MapOK, Present
  <2>5. CallOK(f)'
    BY <1>16, <2>1, <2>2, <2>3, <2>4
       DEF CallOK, ListsOwed, AnswersRight, Claims, Owed, Effect, Won, TargetsOf
  <2>. QED
    BY <1>10, <2>5
<1>18. ASSUME NEW u \in Threads, NEW v \in Threads, u # v
       PROVE  PairOK(calls[u], calls[v])'
  <2>1. /\ PairOK(calls[u], calls[v]) /\ calls[u] \in CallRecords
        /\ TargetsOf(calls[t]) = {}
    BY <1>1, <1>3, <1>18 DEF IndInv, CallsOK, TargetsOf
  <2>2. CASE u = t
    <3>1. calls'[u] = f /\ (calls[v].pc = "idle" => calls'[v].pc = "idle")
      BY <1>10, <1>18, <2>2
    <3>2. calls[v].pc # "idle" =>
            ConcernsOf(calls'[v]) = ConcernsOf(calls[v]) /\
            T \cap ConcernsOf(calls[v]) \subseteq calls'[v].upset
      BY <1>9, <1>10, <1>18, <2>2 DEF ConcernsOf
    <3>3. PairOK(calls'[u], calls'[v])
      BY <1>16, <3>1, <3>2 DEF PairOK
    <3>. QED
      BY <3>3
  <2>3. CASE v = t
    <3>1. calls'[v] = f /\ TargetsOf(calls'[u]) = TargetsOf(calls[u])
      BY <1>10, <1>15, <1>18, <2>3
    <3>2. C \cap TargetsOf(calls[u]) \subseteq U
      BY DEF U
    <3>3. PairOK(calls'[u], calls'[v])
      BY <1>8, <1>16, <3>1, <3>2 DEF PairOK
    <3>. QED
      BY <3>3
  <2>4. CASE u # t /\ v # t
    <3>1. /\ TargetsOf(calls'[u]) = TargetsOf(calls[u])
          /\ Won(calls'[u]) => Won(calls[u])
          /\ Won(calls'[v]) => Won(calls[v])
      BY <1>15, <2>4
    <3>2. calls'[u].name = calls[u].name /\ calls'[v].name = calls[v].name
      BY <1>9, <1>10, <2>4
    <3>3. /\ ConcernsOf(calls'[v]) = ConcernsOf(calls[v])
          /\ calls'[v].pc = calls[v].pc
          /\ calls[v].upset \subseteq calls'[v].upset
      BY <1>9, <1>10, <2>4 DEF ConcernsOf
    <3>4. PairOK(calls'[u], calls'[v])
      BY <2>1, <3>1, <3>2, <3>3 DEF PairOK
    <3>. QED
      BY <3>4
  <2>. QED
    BY <2>2, <2>3, <2>4
<1>. QED
  BY <1>12, <1>13, <1>14, <1>15, <1>17, <1>18 DEF IndInv, CallsOK

-----------------------------------------------------------------------------
(* The invariant holds, and what it says of the answers.                   *)

LEMMA InitEstablishes ==
  ASSUME Init
  PROVE  IndInv
<1>1. \A t \in Threads : calls[t] = Idle
  BY DEF Init
<1>2. Pending = {} /\ Len(contents) = 0
  BY <1>1, IdleIsTyped DEF Init, Pending
<1>3. RoomForCreates
  BY <1>2, FS_EmptySet, ServerConstants DEF RoomForCreates
<1>4. TypeOK
  <2>1. calls \in [Threads -> CallRecords]
    BY IdleIsTyped DEF Init
  <2>2. contents \in Seq(SUBSET Docs) /\ Len(contents) <= MaxCreated /\ acked \subseteq Things
    BY <1>2, ServerConstants DEF Init
  <2>3. map \in [Names -> 0..Len(contents)]
    BY <1>2 DEF Init
  <2>4. DOMAIN queue = Locks /\ queue \in [Locks -> Seq(Threads)]
    BY DEF Init, Locks
  <2>5. ASSUME NEW l \in Locks
        PROVE  IsInjective(queue[l]) /\ Range(queue[l]) \subseteq {t \in Threads : WaitsFor(calls[t]) = l}
    <3>1. queue[l] = <<>> /\ l # -1
      BY <2>5, LocksAreNumbers DEF Init, Locks
    <3>2. IsInjective(queue[l]) /\ Range(queue[l]) = {}
      BY <3>1 DEF IsInjective, Range
    <3>3. \A t \in Threads : WaitsFor(calls[t]) # l
      BY <1>1, <3>1, IdleIsTyped
    <3>. QED
      BY <3>2, <3>3
  <2>. QED
    BY <2>1, <2>2, <2>3, <2>4, <2>5 DEF TypeOK, Locks
<1>5. MapOK
  BY DEF Init, MapOK
<1>6. CallsOK
  <2>1. PairOK(Idle, Idle)
    BY IdleIsTyped DEF PairOK, Won
  <2>. QED
    BY <1>1, <2>1, IdleIsCallOK DEF CallsOK
<1>. QED
  BY <1>3, <1>4, <1>5, <1>6 DEF IndInv

\* Who takes a place changes nothing but the queue.
LEMMA QueueKeeps ==
  ASSUME IndInv, NEW t \in Threads, Queue(t)
  PROVE  IndInv'
<1>. DEFINE l == WaitsFor(calls[t])
<1>1. /\ l # -1 /\ t \notin Range(queue[l]) /\ queue' = Waits(t, l)
      /\ UNCHANGED <<calls, contents, map, acked>>
  BY DEF Queue
<1>2. /\ Waiting \in [Threads -> Int] /\ InPlace(queue, Waiting)
      /\ \A u \in Threads : Waiting[u] = WaitsFor(calls[u])
  BY EveryoneInPlace DEF IndInv
<1>3. l \in Locks
  BY <1>1, WaitsForALock DEF IndInv, TypeOK
<1>4. InPlace(queue', Waiting)
  BY <1>1, <1>2, <1>3, Joins DEF Waits
<1>. HIDE DEF l
<1>5. TypeOK'
  BY <1>1, <1>2, <1>4, TypedAfter DEF IndInv, TypeOK
<1>6. RoomForCreates' /\ MapOK'
  BY <1>1 DEF IndInv, RoomForCreates, Pending, MapOK, Present
<1>7. ASSUME NEW u \in Threads PROVE CallOK(calls[u])'
  <2>1. CallOK(calls[u]) /\ calls'[u] = calls[u]
    BY <1>1 DEF IndInv, CallsOK
  <2>. QED
    BY <1>1, <2>1 DEF CallOK, ShapeOf, Present, HoldsCurrent
<1>8. \A u, v \in Threads : u # v => PairOK(calls[u], calls[v])'
  BY <1>1 DEF IndInv, CallsOK, PairOK
<1>. QED
  BY <1>5, <1>6, <1>7, <1>8 DEF IndInv, CallsOK

LEMMA NextKeeps ==
  ASSUME IndInv, [Next]_vars
  PROVE  IndInv'
<1>1. CASE UNCHANGED vars
  BY <1>1 DEF vars, IndInv, TypeOK, RoomForCreates, Pending, MapOK, Present, CallsOK,
              CallOK, ShapeOf, HoldsCurrent, PairOK
<1>2. CASE Next
  <2>1. PICK t \in Threads :
          \/ Step(t)
          \/ \E op \in Ops \ Listings, n \in Names, d \in Docs \cup {Itself} :
               Call(t, op, n, d)
          \/ \E op \in Listings : Call(t, op, "none", Itself)
    BY <1>2 DEF Next
  <2>2. TypeOK /\ MapOK /\ CallOK(calls[t])
    BY DEF IndInv, CallsOK
  <2>3. CASE ListNames(t)
    BY <2>2, <2>3, ListNamesIsQuiet, QuietKeeps
  <2>4. CASE Lookup(t)
    BY <2>2, <2>4, LookupIsQuiet, QuietKeeps
  <2>5. CASE Stats(t)
    BY <2>2, <2>5, StatsIsQuiet, QuietKeeps
  <2>6. CASE EnterCollection(t)
    BY <2>2, <2>6, EnterIsQuiet, QuietKeeps
  <2>7. CASE Write(t)
    BY <2>7, WriteKeeps
  <2>8. CASE WriteFails(t)
    BY <2>8, WriteFailsKeeps
  <2>9. CASE Read(t)
    BY <2>2, <2>9, ReadIsQuiet, QuietKeeps
  <2>10. CASE Create(t)
    BY <2>10, CreateKeeps
  <2>11. CASE Drop(t)
    BY <2>11, DropKeeps
  <2>12. CASE Persist(t)
    BY <2>2, <2>12, PersistIsQuiet, QuietKeeps
  <2>13. CASE PersistFails(t)
    BY <2>2, <2>13, PersistFailsIsQuiet, QuietKeeps
  <2>14. CASE Answer(t)
    BY <2>14, AnswerKeeps
  <2>15. CASE \E op \in Ops \ Listings, n \in Names, d \in Docs \cup {Itself} :
                Call(t, op, n, d)
    BY <2>15, CallKeeps
  <2>16. CASE \E op \in Listings : Call(t, op, "none", Itself)
    BY <2>16, CallKeeps DEF Ops
  <2>17. CASE Queue(t)
    BY <2>17, QueueKeeps
  <2>. QED
    BY <2>1, <2>3, <2>4, <2>5, <2>6, <2>7, <2>8, <2>9, <2>10, <2>11, <2>12,
       <2>13, <2>14, <2>15, <2>16, <2>17 DEF Step
<1>. QED
  BY <1>1, <1>2

\* Every step of every handler keeps the invariant: the calls that run beside it
\* know what it takes away.
THEOREM InvariantHolds == Spec => []IndInv
<1>1. Init => IndInv
  BY InitEstablishes
<1>2. IndInv /\ [Next]_vars => IndInv'
  BY NextKeeps
<1>. QED
  BY <1>1, <1>2, PTL DEF Spec

\* Every call is in a state of its program, in no queue or in the one queue of
\* the lock it waits for: a handler neither loses its place nor takes two.
THEOREM TypeCorrect == Spec => []TypeOK
<1>1. IndInv => TypeOK
  BY DEF IndInv
<1>. QED
  BY <1>1, InvariantHolds, PTL

\* Whatever runs beside them, search, list and stats find what was acknowledged
\* before they began, and no call is told that it does not exist.
THEOREM AcknowledgedFound == Spec => []AcknowledgedIsFound
<1>1. ASSUME IndInv PROVE AcknowledgedIsFound
  <2>. SUFFICES ASSUME NEW t \in Threads, calls[t].pc = "answer"
                PROVE  /\ calls[t].answer = "ok" =>
                            Owed(calls[t]) \cap Scope(calls[t]) \subseteq calls[t].found
                       /\ calls[t].answer = "not found" =>
                            <<calls[t].name, Itself>> \notin Owed(calls[t])
    BY DEF AcknowledgedIsFound
  <2>. DEFINE c == calls[t]
  <2>1. AnswersRight(c) /\ ListsOwed(c)
    BY <1>1 DEF IndInv, CallsOK, CallOK
  <2>2. CASE c.op = "search"
    BY <2>1, <2>2 DEF AnswersRight, Scope
  <2>3. CASE c.op \in Listings
    <3>1. Owed(c) \subseteq c.found
      BY <2>1, <2>3 DEF ListsOwed, AnswersRight
    <3>. QED
      BY <2>1, <3>1 DEF AnswersRight
  <2>4. CASE c.op \notin Listings \cup {"search"}
    <3>1. Scope(c) = {}
      BY <2>4 DEF Scope, Listings
    <3>. QED
      BY <2>1, <3>1 DEF AnswersRight
  <2>. QED
    BY <2>2, <2>3, <2>4
<1>. QED
  BY <1>1, InvariantHolds, PTL

\* Of creates with one name only one is answered with a success, and that one
\* finds its collection again: nothing but a drop can come between.
THEOREM CreatedAtMostOnce == Spec => []CreatedOnce
<1>1. ASSUME IndInv PROVE CreatedOnce
  <2>. SUFFICES ASSUME NEW t \in Threads, calls[t].pc = "answer",
                       calls[t].op = "create",
                       <<calls[t].name, Itself>> \notin calls[t].upset
                PROVE  /\ calls[t].answer # "not found"
                       /\ calls[t].answer = "ok" => <<calls[t].name, Itself>> \notin acked
    BY DEF CreatedOnce
  <2>1. CallOK(calls[t])
    BY <1>1 DEF IndInv, CallsOK
  <2>. QED
    BY <2>1 DEF CallOK, Won
<1>. QED
  BY <1>1, InvariantHolds, PTL
=============================================================================

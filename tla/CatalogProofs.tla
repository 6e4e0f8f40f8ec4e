---------------------------- MODULE CatalogProofs ---------------------------
(***************************************************************************)
(* Theorems about the catalog, for every set of threads and of names, any  *)
(* number of root pages and any size of a catalog page.                    *)
(***************************************************************************)
EXTENDS Catalog, FiniteSetTheorems, WellFoundedInduction, TLAPS

-----------------------------------------------------------------------------
(* The inductive invariant.                                                *)

\* The configurations of collections whose root pages are among D.
ConfigsOn(D) == {c \in Configs : Len(c.pages) = RootPages /\ Range(c.pages) \subseteq D}

GoodPage(page, D) == page \in Seq(ConfigsOn(D)) /\ Len(page) <= CatalogCells

AtPage == {"count", "copy", "readRoot", "setRoot", "append", "flush"}

\* What the locals of a thread are about, and that the pages among them exist.
LocalsExist(t) ==
  /\ thread[t].pc # "idle" => thread[t].name \in Names
  /\ thread[t].pc = "store" => thread[t].page # 0
  /\ thread[t].pc \in AtPage => thread[t].page \in DOMAIN mem
  /\ thread[t].seen.root \in DOMAIN mem \cup {0}
  /\ Range(thread[t].got) \subseteq DOMAIN mem
  /\ thread[t].configs \in Seq(ConfigsOn(DOMAIN mem))
  /\ Allocating(t) /\ thread[t].for = "collection" => Len(thread[t].got) < RootPages
  /\ thread[t].pc \in {"ensure", "append"} \/ thread[t].for = "catalog" =>
       Len(thread[t].got) = RootPages
  /\ thread[t].pc = "idle" => thread[t].got = <<>>
  /\ thread[t].pc \in {"idle", "oldRoot"} <=> thread[t].for = "none"
  /\ thread[t].pc = "ensure" => thread[t].for = "collection"
  /\ thread[t].pc = "append" => thread[t].for # "rebuild"
  /\ thread[t].pc = "copy" => thread[t].for = "rebuild"
  /\ thread[t].pc \in {"readRoot", "setRoot"} => thread[t].for # "collection"

\* What holds whatever overlaps and whenever the process dies: all pages that a
\* header, a configuration or a thread names are in the file.
PagesExist ==
  /\ {header.root, fileHeader.root} \subseteq DOMAIN mem \cup {0}
  /\ \A p \in DOMAIN mem :
       GoodPage(mem[p], DOMAIN mem) /\ GoodPage(file[p], DOMAIN mem)
  /\ \A n \in DOMAIN live : live[n] \in ConfigsOn(DOMAIN mem) /\ live[n].name = n
  /\ \A t \in Threads : LocalsExist(t)

\* A thread that drops a collection or makes the catalog page has no other
\* beside it, and one thread at most is in allocate_page.
Alone(t) == \A u \in Threads \ {t} : ~Busy(u)

OneAtATime ==
  \A t \in Threads :
    /\ Dropping(t) \/ header.root = 0 => ~Busy(t) \/ Alone(t)
    /\ thread[t].for = "catalog" /\ thread[t].pc \notin {"append", "flush"} => header.root = 0
    /\ \A u \in Threads : t # u =>
         /\ ~(Allocating(t) /\ Allocating(u))
         /\ Busy(t) /\ Busy(u) => thread[t].name # thread[u].name

\* So nobody changes the header between the read and the write of another.
HeaderSeenBy(t) ==
  /\ thread[t].pc \in {"store", "count"} => thread[t].page = header.count
  /\ thread[t].pc \in {"count", "setRoot"} => thread[t].seen = header
HeaderIsSeen == \A t \in Threads : HeaderSeenBy(t)

\* A create allocates its pages before the map has the collection, and enters it
\* with them.
Creating(t) == Allocating(t) /\ thread[t].for = "collection"
Entered(t) == ~Creating(t) /\ thread[t].for \in {"collection", "catalog"}

Taken(p) == p < header.count /\ p # header.root
Unused(p) == Taken(p) /\ \A n \in DOMAIN live : p \notin Range(live[n].pages)

OwnPages(t) ==
  /\ Creating(t) => /\ thread[t].name \notin DOMAIN live
                    /\ IsInjective(thread[t].got)
                    /\ \A p \in Range(thread[t].got) : Unused(p)
  /\ Entered(t) => /\ thread[t].name \in DOMAIN live \ failed
                   /\ live[thread[t].name].pages = thread[t].got
  /\ thread[t].pc \in {"copy", "readRoot", "setRoot"} => Unused(thread[t].page)

OnePageEach ==
  /\ header.root < header.count
  /\ \A n \in DOMAIN live :
       IsInjective(live[n].pages) /\ \A p \in Range(live[n].pages) : Taken(p)
  /\ \A m, n \in DOMAIN live :
       m # n => Range(live[m].pages) \cap Range(live[n].pages) = {}
  /\ \A t \in Threads : OwnPages(t)

\* The configurations that the catalog should have: not those that are yet to be
\* appended.  A thread that drops a collection has yet to take that one off.
Pending(t) == Entered(t) /\ thread[t].pc # "flush"
Removing(t) == Dropping(t) /\ thread[t].pc # "flush"
ToBeListed ==
  {n \in DOMAIN live \ failed : \A t \in Threads : Pending(t) => thread[t].name # n}
Listed == {live[n] : n \in ToBeListed}

OnCatalog(t) ==
  /\ Removing(t) => thread[t].name \notin DOMAIN live
  /\ Removing(t) /\ (Allocating(t) \/ thread[t].pc = "copy") =>
       Range(thread[t].configs) = Listed /\ Len(thread[t].configs) <= CatalogCells
  /\ thread[t].pc \in {"count", "copy"} /\ thread[t].for # "collection" =>
       mem[thread[t].page] = <<>>
  /\ thread[t].pc \in {"readRoot", "setRoot"} =>
       Range(mem[thread[t].page]) = IF thread[t].for = "rebuild" THEN Listed ELSE {}
  /\ thread[t].pc = "append" => header.root # 0 /\ thread[t].page = header.root

CatalogIsListed ==
  /\ failed \subseteq DOMAIN live
  /\ {c \in Recorded : \A t \in Threads : Removing(t) => c.name # thread[t].name} = Listed
  /\ \A t \in Threads : OnCatalog(t)

ClosedIsOnDisk ==
  phase # "open" => phase = "closed" /\ AllIdle /\ file = mem /\ fileHeader = header

\* What the theorems at the end assume beyond the code's own locks: a drop, and any
\* call while there is no catalog page, runs alone; creates overlap only once there
\* is one; and the process ends by closing the database.  Without it pages are
\* shared and collections are lost, as CatalogFirstCreates.cfg, CatalogOverlap.cfg
\* and CatalogCrash.cfg show.
Orderly == ~Overlap /\ ~Crashes

Safe == TypeOK /\ PagesExist
Order == OneAtATime /\ HeaderIsSeen /\ OnePageEach /\ CatalogIsListed /\ ClosedIsOnDisk

IndInv == Safe /\ (Orderly => Order)

-----------------------------------------------------------------------------
(* Configurations and pages.                                               *)

\* More pages, more configurations that can name them.
LEMMA MorePages ==
  ASSUME NEW D, NEW E, D \subseteq E
  PROVE  /\ ConfigsOn(D) \subseteq ConfigsOn(E)
         /\ \A s \in Seq(ConfigsOn(D)) : s \in Seq(ConfigsOn(E))
         /\ \A s : GoodPage(s, D) => GoodPage(s, E)
<1>1. ConfigsOn(D) \subseteq ConfigsOn(E)
  BY DEF ConfigsOn
<1>2. \A s \in Seq(ConfigsOn(D)) : s \in Seq(ConfigsOn(E))
  BY <1>1
<1>. QED
  BY <1>1, <1>2 DEF GoodPage

LEMMA ConfigFacts ==
  ASSUME NEW D, NEW c \in ConfigsOn(D)
  PROVE  /\ c \in Configs /\ c.name \in Names /\ c.pages \in Seq(PageIds)
         /\ Len(c.pages) = RootPages /\ Range(c.pages) \subseteq D
  BY DEF ConfigsOn, Configs

LEMMA NewConfig ==
  ASSUME NEW D, NEW n \in Names, NEW s \in Seq(PageIds), Len(s) = RootPages, Range(s) \subseteq D
  PROVE  [name |-> n, pages |-> s] \in ConfigsOn(D)
  BY DEF ConfigsOn, Configs

LEMMA SeqOfConfigs ==
  ASSUME NEW D, NEW s \in Seq(ConfigsOn(D))
  PROVE  /\ s \in Seq(Configs) /\ Len(s) \in Nat /\ DOMAIN s = 1..Len(s)
         /\ Range(s) \subseteq ConfigsOn(D)
<1>1. ConfigsOn(D) \subseteq Configs
  BY DEF ConfigsOn
<1>2. s \in Seq(Configs)
  BY <1>1
<1>3. Range(s) \subseteq ConfigsOn(D)
  BY DEF Range
<1>. QED
  BY <1>2, <1>3

\* One more element, at the end.
LEMMA AppendedRange ==
  ASSUME NEW S, NEW s \in Seq(S), NEW x \in S
  PROVE  /\ Append(s, x) \in Seq(S) /\ Len(Append(s, x)) = Len(s) + 1
         /\ Range(Append(s, x)) = Range(s) \cup {x}
         /\ IsInjective(s) /\ x \notin Range(s) => IsInjective(Append(s, x))
<1>. DEFINE r == Append(s, x)
<1>1. /\ r \in Seq(S) /\ Len(r) = Len(s) + 1 /\ r[Len(s) + 1] = x /\ Len(s) \in Nat
      /\ DOMAIN s = 1..Len(s) /\ DOMAIN r = 1..Len(r)
      /\ \A i \in 1..Len(s) : r[i] = s[i]
  OBVIOUS
<1>. HIDE DEF r
<1>2. DOMAIN r = DOMAIN s \cup {Len(s) + 1}
  BY <1>1
<1>3. Range(r) = Range(s) \cup {x}
  BY <1>1, <1>2 DEF Range
<1>4. IsInjective(s) /\ x \notin Range(s) => IsInjective(r)
  BY <1>1, <1>2 DEF IsInjective, Range
<1>. QED
  BY <1>1, <1>3, <1>4 DEF r

\* What a page holds when its first part is dropped to size.
LEMMA CutPage ==
  ASSUME NEW S, NEW s \in Seq(S), NEW n \in Nat, n < Len(s)
  PROVE  SubSeq(s, 1, n) \in Seq(S) /\ Len(SubSeq(s, 1, n)) = n
  OBVIOUS

LEMMA LeastNumber ==
  ASSUME NEW S \in SUBSET Nat, S # {}
  PROVE  \E n \in S : \A m \in S : n <= m
<1>. DEFINE R == {ss \in Nat \X Nat : ss[1] < ss[2]}
<1>1. IsWellFoundedOn(R, Nat)
  <2>1. OpToRel(<, Nat) = R
    BY DEF OpToRel
  <2>. QED
    BY <2>1, NatLessThanWellFounded
<1>2. PICK x \in S : \A y \in S : ~(<<y, x>> \in R)
  <2>. HIDE DEF R
  <2>. QED
    BY <1>1, WFMin
<1>3. ASSUME NEW y \in S PROVE x <= y
  <2>1. x \in Nat /\ y \in Nat
    OBVIOUS
  <2>2. ~(y < x)
    BY <1>2, <2>1
  <2>. QED
    BY <2>1, <2>2
<1>. QED
  BY <1>3

\* Remaining goes through the configurations one after the other, and leaves out
\* those of one name.
LEMMA RemainingGoesOn ==
  ASSUME NEW S, NEW s \in Seq(S), NEW n
  PROVE  \E kept :
           /\ DOMAIN kept = 0..Len(s) /\ kept[0] = <<>> /\ Remaining(s, n) = kept[Len(s)]
           /\ \A i \in 1..Len(s) :
                kept[i] = IF s[i].name = n THEN kept[i - 1] ELSE Append(kept[i - 1], s[i])
<1>. DEFINE Next1(G, i) == IF i = 0 THEN <<>>
                           ELSE IF s[i].name = n THEN G[i - 1]
                           ELSE Append(G[i - 1], s[i])
            Kept(G, k) == G = [i \in 0..k |-> Next1(G, i)]
            T == {k \in 0..Len(s) : ~\E G : Kept(G, k)}
<1>1. Len(s) \in Nat
  OBVIOUS
<1>2. T = {}
  <2>. SUFFICES ASSUME T # {} PROVE FALSE
    OBVIOUS
  <2>1. PICK k \in T : \A j \in T : k <= j
    <3>1. T \in SUBSET Nat /\ T # {}
      BY <1>1
    <3>. HIDE DEF T
    <3>2. \E k \in T : \A j \in T : k <= j
      BY <3>1, LeastNumber
    <3>. QED
      BY <3>2
  <2>2. k \in 0..Len(s) /\ k \in Nat /\ ~\E G : Kept(G, k)
    <3>. HIDE DEF Kept
    <3>. QED
      BY <1>1, <2>1
  <2>3. k # 0
    <3>1. Kept([i \in 0..0 |-> <<>>], 0)
      OBVIOUS
    <3>. HIDE DEF Kept
    <3>. QED
      BY <2>2, <3>1
  <2>4. k - 1 \in 0..Len(s) /\ ~(k <= k - 1)
    BY <1>1, <2>2, <2>3
  <2>5. PICK G : Kept(G, k - 1)
    BY <2>1, <2>4
  <2>6. PICK H : H = [i \in 0..k |-> IF i = k THEN Next1(G, k) ELSE G[i]]
    OBVIOUS
  <2>7. H[k - 1] = G[k - 1]
    BY <2>2, <2>3, <2>6
  <2>8. \A i \in 0..k : H[i] = Next1(H, i)
    <3>. SUFFICES ASSUME NEW i \in 0..k PROVE H[i] = Next1(H, i)
      OBVIOUS
    <3>1. CASE i = k
      BY <2>6, <2>7, <3>1
    <3>2. CASE i # k
      <4>1. i \in 0..(k - 1) /\ i \in 0..k
        BY <2>2, <3>2
      <4>2. H[i] = G[i] /\ G[i] = Next1(G, i)
        <5>1. H[i] = G[i]
          BY <2>6, <3>2, <4>1
        <5>2. G[i] = Next1(G, i)
          BY <2>5, <4>1
        <5>. QED
          BY <5>1, <5>2
      <4>3. i # 0 => H[i - 1] = G[i - 1]
        <5>1. i # 0 => i - 1 \in 0..k /\ i - 1 # k
          BY <2>2, <4>1
        <5>. QED
          BY <2>6, <5>1
      <4>. QED
        BY <4>2, <4>3
    <3>. QED
      BY <3>1, <3>2
  <2>9. Kept(H, k)
    <3>1. DOMAIN H = 0..k /\ H = [i \in DOMAIN H |-> H[i]]
      BY <2>6
    <3>. QED
      BY <2>8, <3>1
  <2>. HIDE DEF Kept
  <2>. QED
    BY <2>2, <2>9
<1>3. \E G : Kept(G, Len(s))
  <2>1. Len(s) \in 0..Len(s)
    BY <1>1
  <2>. HIDE DEF Kept
  <2>. QED
    BY <1>2, <2>1
<1>4. PICK kept : kept = (CHOOSE G : Kept(G, Len(s)))
  OBVIOUS
<1>5. Kept(kept, Len(s))
  <2>. HIDE DEF Kept
  <2>. QED
    BY <1>3, <1>4
<1>6. Remaining(s, n) = kept[Len(s)]
  BY <1>4 DEF Remaining
<1>7. DOMAIN kept = 0..Len(s) /\ \A i \in 0..Len(s) : kept[i] = Next1(kept, i)
  <2>1. DOMAIN kept = 0..Len(s)
    BY <1>5
  <2>2. ASSUME NEW i \in 0..Len(s) PROVE kept[i] = Next1(kept, i)
    BY <1>5
  <2>. QED
    BY <2>1, <2>2
<1>8. kept[0] = <<>>
  <2>1. 0 \in 0..Len(s)
    BY <1>1
  <2>. QED
    BY <1>7, <2>1
<1>9. \A i \in 1..Len(s) : i \in 0..Len(s) /\ i # 0
  BY <1>1
<1>. QED
  BY <1>6, <1>7, <1>8, <1>9

LEMMA RemainingIs ==
  ASSUME NEW S, NEW s \in Seq(S), NEW n
  PROVE  /\ Remaining(s, n) \in Seq(S) /\ Len(Remaining(s, n)) <= Len(s)
         /\ Range(Remaining(s, n)) = {c \in Range(s) : c.name # n}
<1>1. PICK kept :
        /\ DOMAIN kept = 0..Len(s) /\ kept[0] = <<>> /\ Remaining(s, n) = kept[Len(s)]
        /\ \A i \in 1..Len(s) :
             kept[i] = IF s[i].name = n THEN kept[i - 1] ELSE Append(kept[i - 1], s[i])
  BY RemainingGoesOn
<1>. DEFINE Good(k) ==
              /\ kept[k] \in Seq(S) /\ Len(kept[k]) <= k
              /\ Range(kept[k]) = {c \in {s[i] : i \in 1..k} : c.name # n}
            T == {k \in 0..Len(s) : ~Good(k)}
<1>2. Len(s) \in Nat /\ DOMAIN s = 1..Len(s) /\ \A i \in 1..Len(s) : s[i] \in S
  OBVIOUS
<1>3. T = {}
  <2>. SUFFICES ASSUME T # {} PROVE FALSE
    OBVIOUS
  <2>1. PICK k \in T : \A j \in T : k <= j
    <3>1. T \in SUBSET Nat
      BY <1>2
    <3>. HIDE DEF T
    <3>. QED
      BY <3>1, LeastNumber
  <2>2. k \in 0..Len(s) /\ k \in Nat /\ ~Good(k)
    BY <1>2, <2>1
  <2>3. k # 0
    <3>. SUFFICES ASSUME k = 0 PROVE Good(k)
      BY <2>2
    <3>1. kept[k] = <<>> /\ 1..k = {}
      BY <1>1
    <3>2. kept[k] \in Seq(S) /\ Len(kept[k]) = 0 /\ Range(kept[k]) = {}
      BY <3>1 DEF Range
    <3>. QED
      BY <3>1, <3>2
  <2>4. k - 1 \in 0..Len(s) /\ ~(k <= k - 1) /\ k \in 1..Len(s)
    BY <1>2, <2>2, <2>3
  <2>5. PICK r : r = kept[k - 1]
    OBVIOUS
  <2>6. r \in Seq(S) /\ Len(r) <= k - 1 /\ Range(r) = {c \in {s[i] : i \in 1..(k - 1)} : c.name # n}
    BY <2>1, <2>4, <2>5
  <2>7. kept[k] = IF s[k].name = n THEN r ELSE Append(r, s[k])
    BY <1>1, <2>4, <2>5
  <2>8. s[k] \in S /\ Len(r) \in Nat
    BY <1>2, <2>4, <2>6
  <2>9. /\ Append(r, s[k]) \in Seq(S) /\ Len(Append(r, s[k])) = Len(r) + 1
        /\ Range(Append(r, s[k])) = Range(r) \cup {s[k]}
    BY <2>6, <2>8, AppendedRange
  <2>10. {s[i] : i \in 1..k} = {s[i] : i \in 1..(k - 1)} \cup {s[k]}
    <3>1. 1..k = (1..(k - 1)) \cup {k}
      BY <2>2, <2>3
    <3>. QED
      BY <3>1
  <2>11. kept[k] \in Seq(S) /\ Len(kept[k]) <= k
    BY <2>2, <2>6, <2>7, <2>8, <2>9
  <2>12. Range(kept[k]) = {c \in {s[i] : i \in 1..k} : c.name # n}
    <3>1. CASE s[k].name = n
      BY <2>6, <2>7, <2>10, <3>1
    <3>2. CASE s[k].name # n
      BY <2>6, <2>7, <2>9, <2>10, <3>2
    <3>. QED
      BY <3>1, <3>2
  <2>. QED
    BY <2>2, <2>11, <2>12
<1>4. Good(Len(s))
  <2>1. Len(s) \in 0..Len(s)
    BY <1>2
  <2>. HIDE DEF Good
  <2>. QED
    BY <1>3, <2>1
<1>5. Range(s) = {s[i] : i \in 1..Len(s)}
  BY <1>2 DEF Range
<1>. QED
  BY <1>1, <1>4, <1>5

LEMMA LastPosition ==
  ASSUME NEW n \in Nat, NEW S \in SUBSET (1..n), S # {}
  PROVE  \E m \in S : \A i \in S : i <= m
<1>. DEFINE T == {n - i : i \in S}
<1>1. T \subseteq Nat /\ T # {}
  <2>1. \A i \in S : n - i \in Nat
    OBVIOUS
  <2>. QED
    BY <2>1
<1>2. PICK k \in T : \A j \in T : k <= j
  <2>1. T \in SUBSET Nat /\ T # {}
    BY <1>1
  <2>. HIDE DEF T
  <2>. QED
    BY <2>1, LeastNumber
<1>3. PICK m \in S : k = n - m
  OBVIOUS
<1>4. ASSUME NEW i \in S PROVE i <= m
  <2>1. n - i \in T /\ i \in 1..n /\ m \in 1..n
    OBVIOUS
  <2>2. k <= n - i
    BY <1>2, <2>1
  <2>. QED
    BY <1>3, <2>1, <2>2
<1>. QED
  BY <1>4

\* load_catalog finds the names that are on the page, each with one of its
\* configurations.
LEMMA LoadedIs ==
  ASSUME NEW D, NEW s \in Seq(ConfigsOn(D))
  PROVE  /\ DOMAIN Loaded(s) = {c.name : c \in Range(s)}
         /\ \A n \in DOMAIN Loaded(s) : Loaded(s)[n] \in Range(s) /\ Loaded(s)[n].name = n
<1>1. DOMAIN s = 1..Len(s) /\ Len(s) \in Nat
  OBVIOUS
<1>2. DOMAIN Loaded(s) = {c.name : c \in Range(s)}
  <2>1. DOMAIN Loaded(s) = {s[i].name : i \in DOMAIN s}
    BY DEF Loaded
  <2>2. Range(s) = {s[i] : i \in DOMAIN s}
    BY DEF Range
  <2>. QED
    BY <2>1, <2>2
<1>3. ASSUME NEW n \in DOMAIN Loaded(s)
      PROVE  Loaded(s)[n] \in Range(s) /\ Loaded(s)[n].name = n
  <2>. DEFINE P(i) == s[i].name = n /\ \A j \in DOMAIN s : s[j].name = n => j <= i
              I == {i \in DOMAIN s : s[i].name = n}
  <2>1. I # {} /\ I \in SUBSET (1..Len(s))
    <3>1. PICK c \in Range(s) : c.name = n
      BY <1>2
    <3>2. \E i \in DOMAIN s : s[i] = c
      BY DEF Range
    <3>. QED
      BY <1>1, <3>1, <3>2
  <2>2. PICK m \in I : \A i \in I : i <= m
    <3>. HIDE DEF I
    <3>. QED
      BY <1>1, <2>1, LastPosition
  <2>3. \E i \in DOMAIN s : P(i)
    BY <2>2
  <2>4. Loaded(s)[n] = s[CHOOSE i \in DOMAIN s : P(i)]
    BY DEF Loaded
  <2>5. PICK x : x = (CHOOSE i \in DOMAIN s : P(i))
    OBVIOUS
  <2>6. x \in DOMAIN s /\ P(x)
    <3>. HIDE DEF P
    <3>. QED
      BY <2>3, <2>5
  <2>. QED
    BY <2>4, <2>5, <2>6 DEF Range
<1>. QED
  BY <1>2, <1>3

-----------------------------------------------------------------------------
(* The steps of one thread, whatever the others do.                        *)

\* The locals of t are the only ones that change.
Moves(t) == /\ thread'[t] \in Locals
            /\ thread' = [thread EXCEPT ![t] = thread'[t]]

LEMMA Moved ==
  ASSUME TypeOK, NEW t \in Threads, NEW e \in Locals, thread' = [thread EXCEPT ![t] = e]
  PROVE  Moves(t) /\ thread'[t] = e
BY DEF TypeOK, Moves

LEMMA OthersStay ==
  ASSUME TypeOK, NEW t \in Threads, Moves(t)
  PROVE  /\ thread' \in [Threads -> Locals]
         /\ \A u \in Threads : u # t => thread'[u] = thread[u]
BY DEF TypeOK, Moves

\* A thread that goes on alone in having other locals, on at least as many pages.
LEMMA ThreadMoves ==
  ASSUME Safe, NEW t \in Threads, Moves(t), DOMAIN mem \subseteq DOMAIN mem', LocalsExist(t)'
  PROVE  thread' \in [Threads -> Locals] /\ \A u \in Threads : LocalsExist(u)'
<1>1. /\ thread' \in [Threads -> Locals]
      /\ \A u \in Threads : u # t => thread'[u] = thread[u]
  BY OthersStay DEF Safe
<1>2. ASSUME NEW u \in Threads, u # t PROVE LocalsExist(u)'
  <2>1. thread'[u] = thread[u] /\ LocalsExist(u)
    BY <1>1, <1>2 DEF Safe, PagesExist
  <2>2. thread[u].configs \in Seq(ConfigsOn(DOMAIN mem'))
    BY <2>1, MorePages DEF LocalsExist
  <2>. QED
    BY <2>1, <2>2 DEF LocalsExist, Allocating
<1>. QED
  BY <1>1, <1>2

\* The thread's locals are all that changes.
LEMMA OnlyThreadMoves ==
  ASSUME Safe, NEW t \in Threads, Moves(t), LocalsExist(t)',
         UNCHANGED <<phase, header, mem, fileHeader, file, live, failed>>
  PROVE  Safe'
<1>1. thread' \in [Threads -> Locals] /\ \A u \in Threads : LocalsExist(u)'
  BY ThreadMoves
<1>2. TypeOK'
  BY <1>1 DEF Safe, TypeOK
<1>3. PagesExist'
  <2>1. /\ {header'.root, fileHeader'.root} \subseteq DOMAIN mem' \cup {0}
        /\ \A p \in DOMAIN mem' :
             GoodPage(mem'[p], DOMAIN mem') /\ GoodPage(file'[p], DOMAIN mem')
        /\ \A n \in DOMAIN live' : live'[n] \in ConfigsOn(DOMAIN mem') /\ live'[n].name = n
    BY DEF Safe, PagesExist
  <2>. QED
    BY <1>1, <2>1 DEF PagesExist
<1>. QED
  BY <1>2, <1>3 DEF Safe

LEMMA LocalsFacts ==
  ASSUME Safe, NEW t \in Threads
  PROVE  /\ thread[t] \in Locals /\ LocalsExist(t)
         /\ thread[t].page \in Nat /\ thread[t].seen \in Headers
         /\ thread[t].seen.count \in PageIds /\ thread[t].seen.root \in Nat
         /\ thread[t].got \in Seq(PageIds) /\ Len(thread[t].got) \in Nat
         /\ header \in Headers /\ header.count \in PageIds /\ header.root \in Nat
<1>1. thread[t] \in Locals /\ LocalsExist(t) /\ header \in Headers
  BY DEF Safe, TypeOK, PagesExist
<1>2. /\ thread[t].page \in Nat /\ thread[t].seen \in Headers
      /\ thread[t].got \in Seq(PageIds)
  BY <1>1 DEF Locals
<1>. QED
  BY <1>1, <1>2 DEF Headers

-----------------------------------------------------------------------------
(* What each step of a thread does to its locals.                          *)

SameCall(t) == /\ thread'[t].for = thread[t].for
               /\ thread'[t].name = thread[t].name
               /\ thread'[t].got = thread[t].got
               /\ thread'[t].configs = thread[t].configs

\* A step that changes only the locals named pc, page or seen.
Goes(t, pc, page, seen) ==
  thread' = [thread EXCEPT ![t].pc = pc, ![t].page = page, ![t].seen = seen]

LEMMA GoesOn ==
  ASSUME Safe, NEW t \in Threads,
         NEW pc \in {"idle", "take", "store", "count", "ensure", "oldRoot", "copy",
                     "readRoot", "setRoot", "append", "flush"},
         NEW page \in Nat, NEW seen \in Headers,
         Goes(t, pc, page, seen)
  PROVE  /\ Moves(t) /\ SameCall(t)
         /\ thread'[t].pc = pc /\ thread'[t].page = page /\ thread'[t].seen = seen
<1>1. thread \in [Threads -> Locals] /\ thread[t] \in Locals
  BY DEF Safe, TypeOK
<1>2. PICK e : e = [thread[t] EXCEPT !.pc = pc, !.page = page, !.seen = seen]
  OBVIOUS
<1>3. /\ e.pc = pc /\ e.page = page /\ e.seen = seen
      /\ e.for = thread[t].for /\ e.name = thread[t].name
      /\ e.got = thread[t].got /\ e.configs = thread[t].configs
  BY <1>1, <1>2 DEF Locals
<1>4. e \in Locals
  BY <1>1, <1>2 DEF Locals
<1>5. thread' = [thread EXCEPT ![t] = e]
  BY <1>1, <1>2 DEF Locals, Goes
<1>6. Moves(t) /\ thread'[t] = e
  BY <1>4, <1>5, Moved DEF Safe
<1>. QED
  BY <1>3, <1>6 DEF SameCall

\* A step that leaves the pages, the header and the map alone.
Quiet == UNCHANGED <<phase, header, mem, fileHeader, file, live, failed>>

LEMMA TakeIs ==
  ASSUME Safe, NEW t \in Threads, Take(t)
  PROVE  /\ thread[t].pc = "take" /\ Moves(t) /\ SameCall(t) /\ Quiet
         /\ thread'[t].pc = "store" /\ thread'[t].page = header.count
         /\ thread'[t].seen = thread[t].seen
<1>1. header.count \in Nat /\ thread[t].seen \in Headers
  BY LocalsFacts DEF PageIds
<1>2. Goes(t, "store", header.count, thread[t].seen)
  BY DEF Goes, Take, NextPageId, Safe, TypeOK, Locals
<1>3. /\ Moves(t) /\ SameCall(t)
      /\ thread'[t].pc = "store" /\ thread'[t].page = header.count /\ thread'[t].seen = thread[t].seen
  BY <1>1, <1>2, GoesOn
<1>. QED
  BY <1>3 DEF Take, Quiet, durable

LEMMA StoreIs ==
  ASSUME Safe, NEW t \in Threads, Store(t)
  PROVE  /\ thread[t].pc = "store" /\ Moves(t) /\ SameCall(t)
         /\ thread'[t].pc = "count" /\ thread'[t].page = thread[t].page
         /\ thread'[t].seen = header
         /\ UNCHANGED <<phase, header, fileHeader, live, failed>>
         /\ mem' = With(mem, thread[t].page, <<>>) /\ file' = With(file, thread[t].page, <<>>)
<1>1. thread[t].page \in Nat /\ header \in Headers
  BY LocalsFacts
<1>2. Goes(t, "count", thread[t].page, header)
  BY DEF Goes, Store, Safe, TypeOK, Locals
<1>3. /\ Moves(t) /\ SameCall(t)
      /\ thread'[t].pc = "count" /\ thread'[t].page = thread[t].page /\ thread'[t].seen = header
  BY <1>1, <1>2, GoesOn
<1>. QED
  BY <1>3 DEF Store

\* A step that does no more to the locals than go elsewhere.
LEMMA GotoIs ==
  ASSUME Safe, NEW t \in Threads,
         NEW pc \in {"idle", "take", "store", "count", "ensure", "oldRoot", "copy",
                     "readRoot", "setRoot", "append", "flush"},
         Goto(t, pc)
  PROVE  /\ Moves(t) /\ SameCall(t) /\ thread'[t].pc = pc
         /\ thread'[t].page = thread[t].page /\ thread'[t].seen = thread[t].seen
<1>1. thread[t].page \in Nat /\ thread[t].seen \in Headers
  BY LocalsFacts
<1>2. Goes(t, pc, thread[t].page, thread[t].seen)
  BY DEF Goes, Goto, Safe, TypeOK, Locals
<1>. QED
  BY <1>1, <1>2, GoesOn

LEMMA ReturnIs ==
  ASSUME Safe, NEW t \in Threads, Return(t)
  PROVE  Moves(t) /\ thread'[t] = Idle /\ thread'[t].pc = "idle" /\ thread'[t].for = "none"
<1>1. Idle \in Locals
  BY DEF Idle, Locals, Headers, PageIds
<1>2. Moves(t) /\ thread'[t] = Idle
  BY <1>1, Moved DEF Return, Safe
<1>. QED
  BY <1>2 DEF Idle

LEMMA EnsureFoundIs ==
  ASSUME Safe, NEW t \in Threads, EnsureFound(t)
  PROVE  /\ thread[t].pc = "ensure" /\ Moves(t) /\ SameCall(t) /\ Quiet
         /\ header.root # 0
         /\ thread'[t].pc = "append" /\ thread'[t].page = header.root
         /\ thread'[t].seen = thread[t].seen
<1>1. header.root \in Nat /\ thread[t].seen \in Headers
  BY LocalsFacts
<1>2. Goes(t, "append", header.root, thread[t].seen)
  BY DEF Goes, EnsureFound, Safe, TypeOK, Locals
<1>3. /\ Moves(t) /\ SameCall(t)
      /\ thread'[t].pc = "append" /\ thread'[t].page = header.root /\ thread'[t].seen = thread[t].seen
  BY <1>1, <1>2, GoesOn
<1>. QED
  BY <1>3 DEF EnsureFound, Quiet, durable

LEMMA ReadRootIs ==
  ASSUME Safe, NEW t \in Threads, ReadRoot(t)
  PROVE  /\ thread[t].pc = "readRoot" /\ Moves(t) /\ SameCall(t) /\ Quiet
         /\ thread'[t].pc = "setRoot" /\ thread'[t].page = thread[t].page
         /\ thread'[t].seen = header
<1>1. thread[t].page \in Nat /\ header \in Headers
  BY LocalsFacts
<1>2. Goes(t, "setRoot", thread[t].page, header)
  BY DEF Goes, ReadRoot, Safe, TypeOK, Locals
<1>3. /\ Moves(t) /\ SameCall(t)
      /\ thread'[t].pc = "setRoot" /\ thread'[t].page = thread[t].page /\ thread'[t].seen = header
  BY <1>1, <1>2, GoesOn
<1>. QED
  BY <1>3 DEF ReadRoot, Quiet, durable


LEMMA EnsureAllocatesIs ==
  ASSUME Safe, NEW t \in Threads, EnsureAllocates(t)
  PROVE  /\ thread[t].pc = "ensure" /\ header.root = 0 /\ Moves(t) /\ Quiet
         /\ thread'[t].pc = "take" /\ thread'[t].for = "catalog"
         /\ thread'[t].name = thread[t].name /\ thread'[t].got = thread[t].got
         /\ thread'[t].configs = thread[t].configs
         /\ thread'[t].page = thread[t].page /\ thread'[t].seen = thread[t].seen
<1>1. thread \in [Threads -> Locals] /\ thread[t] \in Locals
  BY DEF Safe, TypeOK
<1>2. PICK e : e = [thread[t] EXCEPT !.pc = "take", !.for = "catalog"]
  OBVIOUS
<1>3. /\ e.pc = "take" /\ e.for = "catalog"
      /\ e.name = thread[t].name /\ e.got = thread[t].got /\ e.configs = thread[t].configs
      /\ e.page = thread[t].page /\ e.seen = thread[t].seen
  BY <1>1, <1>2 DEF Locals
<1>4. e \in Locals
  BY <1>1, <1>2 DEF Locals
<1>5. thread' = [thread EXCEPT ![t] = e]
  BY <1>1, <1>2 DEF Locals, EnsureAllocates
<1>6. Moves(t) /\ thread'[t] = e
  BY <1>4, <1>5, Moved DEF Safe
<1>. QED
  BY <1>3, <1>6 DEF EnsureAllocates, Quiet, durable

LEMMA CreateIs ==
  ASSUME Safe, NEW t \in Threads, NEW n \in Names, Create(t, n)
  PROVE  /\ thread[t].pc = "idle" /\ Moves(t) /\ Quiet
         /\ phase = "open" /\ n \notin DOMAIN live /\ MayStart(TRUE) /\ ~CollectionsLocked
         /\ thread'[t].pc = "take" /\ thread'[t].for = "collection"
         /\ thread'[t].name = n /\ thread'[t].got = <<>>
         /\ thread'[t].configs = thread[t].configs
         /\ thread'[t].page = thread[t].page /\ thread'[t].seen = thread[t].seen
<1>1. /\ thread \in [Threads -> Locals] /\ thread[t] \in Locals
      /\ thread[t].pc = "idle" /\ thread[t].got = <<>>
  BY LocalsFacts DEF Safe, TypeOK, Create, Busy, LocalsExist
<1>2. PICK e : e = [thread[t] EXCEPT !.pc = "take", !.for = "collection", !.name = n]
  OBVIOUS
<1>3. /\ e.pc = "take" /\ e.for = "collection" /\ e.name = n
      /\ e.got = thread[t].got /\ e.configs = thread[t].configs
      /\ e.page = thread[t].page /\ e.seen = thread[t].seen
  BY <1>1, <1>2 DEF Locals
<1>4. e \in Locals
  BY <1>1, <1>2 DEF Locals
<1>5. thread' = [thread EXCEPT ![t] = e]
  BY <1>1, <1>2 DEF Locals, Create
<1>6. Moves(t) /\ thread'[t] = e
  BY <1>4, <1>5, Moved DEF Safe
<1>. QED
  BY <1>1, <1>3, <1>6 DEF Create, Quiet, durable

LEMMA DropIs ==
  ASSUME Safe, NEW t \in Threads, NEW n \in Names, Drop(t, n)
  PROVE  /\ thread[t].pc = "idle" /\ Moves(t)
         /\ UNCHANGED <<phase, header, mem, fileHeader, file>>
         /\ live' = Restrict(live, DOMAIN live \ {n}) /\ failed' = failed \ {n}
         /\ phase = "open" /\ n \in DOMAIN live /\ MayStart(FALSE) /\ ~CollectionsLocked
         /\ thread'[t].pc = "oldRoot" /\ thread'[t].for = "none"
         /\ thread'[t].name = n /\ thread'[t].got = <<>>
         /\ thread'[t].configs = thread[t].configs
         /\ thread'[t].page = thread[t].page /\ thread'[t].seen = thread[t].seen
<1>1. /\ thread \in [Threads -> Locals] /\ thread[t] \in Locals
      /\ thread[t].pc = "idle" /\ thread[t].got = <<>> /\ thread[t].for = "none"
  BY LocalsFacts DEF Safe, TypeOK, Drop, Busy, LocalsExist
<1>2. PICK e : e = [thread[t] EXCEPT !.pc = "oldRoot", !.name = n]
  OBVIOUS
<1>3. /\ e.pc = "oldRoot" /\ e.for = "none" /\ e.name = n
      /\ e.got = thread[t].got /\ e.configs = thread[t].configs
      /\ e.page = thread[t].page /\ e.seen = thread[t].seen
  BY <1>1, <1>2 DEF Locals
<1>4. e \in Locals
  BY <1>1, <1>2 DEF Locals
<1>5. thread' = [thread EXCEPT ![t] = e]
  BY <1>1, <1>2 DEF Locals, Drop
<1>6. Moves(t) /\ thread'[t] = e
  BY <1>4, <1>5, Moved DEF Safe
<1>. QED
  BY <1>1, <1>3, <1>6 DEF Drop, durable

\* The configurations on a page, but for those of one name, are its own still.
LEMMA ReadConfigsIs ==
  ASSUME Safe, NEW t \in Threads, ReadConfigs(t)
  PROVE  /\ thread[t].pc = "oldRoot" /\ header.root # 0 /\ Moves(t) /\ Quiet
         /\ header.root \in DOMAIN mem /\ GoodPage(mem[header.root], DOMAIN mem)
         /\ thread'[t].pc = "take" /\ thread'[t].for = "rebuild"
         /\ thread'[t].configs = Remaining(mem[header.root], thread[t].name)
         /\ thread'[t].configs \in Seq(ConfigsOn(DOMAIN mem))
         /\ thread'[t].name = thread[t].name /\ thread'[t].got = thread[t].got
         /\ thread'[t].page = thread[t].page /\ thread'[t].seen = thread[t].seen
<1>1. /\ thread \in [Threads -> Locals] /\ thread[t] \in Locals
      /\ header.root \in DOMAIN mem /\ GoodPage(mem[header.root], DOMAIN mem)
  BY DEF Safe, TypeOK, PagesExist, ReadConfigs
<1>2. PICK r : r = Remaining(mem[header.root], thread[t].name)
  OBVIOUS
<1>3. r \in Seq(ConfigsOn(DOMAIN mem))
  BY <1>1, <1>2, RemainingIs DEF GoodPage
<1>4. r \in Seq(Configs)
  BY <1>3, SeqOfConfigs
<1>5. PICK e : e = [thread[t] EXCEPT !.pc = "take", !.for = "rebuild", !.configs = r]
  OBVIOUS
<1>6. /\ e.pc = "take" /\ e.for = "rebuild" /\ e.configs = r
      /\ e.name = thread[t].name /\ e.got = thread[t].got
      /\ e.page = thread[t].page /\ e.seen = thread[t].seen
  BY <1>1, <1>5 DEF Locals
<1>7. e \in Locals
  BY <1>1, <1>4, <1>5 DEF Locals
<1>8. thread' = [thread EXCEPT ![t] = e]
  BY <1>1, <1>2, <1>5 DEF Locals, ReadConfigs
<1>9. Moves(t) /\ thread'[t] = e
  BY <1>7, <1>8, Moved DEF Safe
<1>. QED
  BY <1>1, <1>2, <1>3, <1>6, <1>9 DEF ReadConfigs, Quiet, durable

LEMMA AllocatedForCollectionIs ==
  ASSUME Safe, NEW t \in Threads, AllocatedForCollection(t)
  PROVE  /\ thread[t].pc = "count" /\ thread[t].for = "collection" /\ Moves(t)
         /\ header' = WithCount(thread[t].seen, thread[t].page)
         /\ UNCHANGED <<phase, mem, fileHeader, file, failed>>
         /\ thread'[t].got = Append(thread[t].got, thread[t].page)
         /\ Len(thread'[t].got) = Len(thread[t].got) + 1
         /\ Range(thread'[t].got) = Range(thread[t].got) \cup {thread[t].page}
         /\ \/ /\ Len(thread'[t].got) < RootPages
               /\ thread'[t].pc = "take" /\ live' = live
            \/ /\ Len(thread'[t].got) = RootPages
               /\ thread'[t].pc = "ensure"
               /\ live' = With(live, thread[t].name,
                               [name |-> thread[t].name, pages |-> thread'[t].got])
         /\ thread'[t].for = "collection" /\ thread'[t].name = thread[t].name
         /\ thread'[t].configs = thread[t].configs
         /\ thread'[t].page = thread[t].page /\ thread'[t].seen = thread[t].seen
<1>1. /\ thread \in [Threads -> Locals] /\ thread[t] \in Locals
      /\ thread[t].pc = "count" /\ thread[t].for = "collection"
      /\ thread[t].got \in Seq(PageIds) /\ thread[t].page \in DOMAIN mem
      /\ DOMAIN mem \subseteq PageIds /\ Len(thread[t].got) < RootPages
      /\ Len(thread[t].got) \in Nat
  BY LocalsFacts DEF Safe, TypeOK, AllocatedForCollection, SetCount, LocalsExist, AtPage,
     Allocating
<1>2. PICK got : got = Append(thread[t].got, thread[t].page)
  OBVIOUS
<1>3. /\ got \in Seq(PageIds) /\ Len(got) = Len(thread[t].got) + 1
      /\ Range(got) = Range(thread[t].got) \cup {thread[t].page}
  <2>1. thread[t].page \in PageIds
    BY <1>1
  <2>. QED
    BY <1>1, <1>2, <2>1, AppendedRange
<1>4. PICK pc : pc = IF Len(got) < RootPages THEN "take" ELSE "ensure"
  OBVIOUS
<1>5. PICK e : e = [thread[t] EXCEPT !.pc = pc, !.got = got]
  OBVIOUS
<1>6. /\ e.pc = pc /\ e.got = got /\ e.configs = thread[t].configs
      /\ e.name = thread[t].name /\ e.for = thread[t].for
      /\ e.page = thread[t].page /\ e.seen = thread[t].seen
  BY <1>1, <1>5 DEF Locals
<1>7. e \in Locals
  BY <1>1, <1>3, <1>4, <1>5 DEF Locals
<1>8. /\ thread' = [thread EXCEPT ![t].pc = pc, ![t].got = got]
      /\ live' = IF Len(got) < RootPages THEN live
                 ELSE With(live, thread[t].name, [name |-> thread[t].name, pages |-> got])
  BY <1>2, <1>4 DEF AllocatedForCollection
<1>9. thread' = [thread EXCEPT ![t] = e]
  BY <1>1, <1>5, <1>8 DEF Locals
<1>10. Moves(t) /\ thread'[t] = e
  BY <1>7, <1>9, Moved DEF Safe
<1>11. \/ Len(got) < RootPages /\ pc = "take" /\ live' = live
       \/ /\ Len(got) = RootPages /\ pc = "ensure"
          /\ live' = With(live, thread[t].name, [name |-> thread[t].name, pages |-> got])
  BY <1>1, <1>3, <1>4, <1>8, CatalogConstants
<1>12. /\ header' = WithCount(thread[t].seen, thread[t].page)
       /\ UNCHANGED <<phase, mem, fileHeader, file, failed>>
  BY DEF AllocatedForCollection, SetCount, durable
<1>. QED
  BY <1>1, <1>2, <1>3, <1>6, <1>10, <1>11, <1>12

LEMMA AllocatedForCatalogIs ==
  ASSUME Safe, NEW t \in Threads, AllocatedForCatalog(t)
  PROVE  /\ thread[t].pc = "count" /\ thread[t].for = "catalog" /\ Moves(t) /\ SameCall(t)
         /\ header' = WithCount(thread[t].seen, thread[t].page)
         /\ UNCHANGED <<phase, mem, fileHeader, file, live, failed>>
         /\ thread'[t].pc = "readRoot"
         /\ thread'[t].page = thread[t].page /\ thread'[t].seen = thread[t].seen
BY GotoIs DEF AllocatedForCatalog, SetCount, durable

LEMMA AllocatedForRebuildIs ==
  ASSUME Safe, NEW t \in Threads, AllocatedForRebuild(t)
  PROVE  /\ thread[t].pc = "count" /\ thread[t].for = "rebuild" /\ Moves(t) /\ SameCall(t)
         /\ header' = WithCount(thread[t].seen, thread[t].page)
         /\ UNCHANGED <<phase, mem, fileHeader, file, live, failed>>
         /\ thread'[t].pc = "copy"
         /\ thread'[t].page = thread[t].page /\ thread'[t].seen = thread[t].seen
BY GotoIs DEF AllocatedForRebuild, SetCount, durable

LEMMA SetRootIs ==
  ASSUME Safe, NEW t \in Threads, SetRoot(t)
  PROVE  /\ thread[t].pc = "setRoot" /\ Moves(t) /\ SameCall(t)
         /\ header' = WithRoot(thread[t].seen, thread[t].page)
         /\ UNCHANGED <<phase, mem, fileHeader, file, live, failed>>
         /\ thread'[t].pc = IF thread[t].for = "catalog" THEN "append" ELSE "flush"
         /\ thread'[t].page = thread[t].page /\ thread'[t].seen = thread[t].seen
<1>1. PICK pc \in {"append", "flush"} : pc = IF thread[t].for = "catalog" THEN "append" ELSE "flush"
  OBVIOUS
<1>2. Goto(t, pc)
  BY <1>1 DEF SetRoot
<1>. QED
  BY <1>1, <1>2, GotoIs DEF SetRoot, durable

LEMMA AppendConfigIs ==
  ASSUME Safe, NEW t \in Threads, AppendConfig(t)
  PROVE  /\ thread[t].pc = "append" /\ Len(mem[thread[t].page]) < CatalogCells
         /\ Moves(t) /\ SameCall(t)
         /\ mem' = [mem EXCEPT ![thread[t].page] =
                      Append(@, [name |-> thread[t].name, pages |-> thread[t].got])]
         /\ UNCHANGED <<phase, header, fileHeader, file, live, failed>>
         /\ thread'[t].pc = "flush"
         /\ thread'[t].page = thread[t].page /\ thread'[t].seen = thread[t].seen
BY GotoIs DEF AppendConfig, durable

-----------------------------------------------------------------------------
(* Every step leaves the pages that anything names in the file.            *)

LEMMA CountWritten ==
  ASSUME NEW t \in Threads, thread[t].seen \in Headers, thread[t].page \in Nat,
         header' = WithCount(thread[t].seen, thread[t].page)
  PROVE  /\ header' \in Headers /\ header'.root = thread[t].seen.root
         /\ header'.count = thread[t].page + 1
<1>1. PICK seen \in Headers, page \in Nat : seen = thread[t].seen /\ page = thread[t].page
  OBVIOUS
<1>2. /\ WithCount(seen, page) \in Headers /\ WithCount(seen, page).root = seen.root
      /\ WithCount(seen, page).count = page + 1
  BY DEF WithCount, Headers, PageIds
<1>. QED
  BY <1>1, <1>2

LEMMA RootWritten ==
  ASSUME NEW t \in Threads, thread[t].seen \in Headers, thread[t].page \in Nat,
         header' = WithRoot(thread[t].seen, thread[t].page)
  PROVE  /\ header' \in Headers /\ header'.root = thread[t].page
         /\ header'.count = thread[t].seen.count
<1>1. PICK seen \in Headers, page \in Nat : seen = thread[t].seen /\ page = thread[t].page
  OBVIOUS
<1>2. /\ WithRoot(seen, page) \in Headers /\ WithRoot(seen, page).root = page
      /\ WithRoot(seen, page).count = seen.count
  BY DEF WithRoot, Headers, PageIds
<1>. QED
  BY <1>1, <1>2

\* Only the locals of t and the header change.
LEMMA HeaderMoves ==
  ASSUME Safe, NEW t \in Threads, Moves(t), LocalsExist(t)',
         header' \in Headers, header'.root \in DOMAIN mem \cup {0},
         UNCHANGED <<phase, mem, fileHeader, file, live, failed>>
  PROVE  Safe'
<1>1. thread' \in [Threads -> Locals] /\ \A u \in Threads : LocalsExist(u)'
  BY ThreadMoves
<1>2. TypeOK'
  BY <1>1 DEF Safe, TypeOK
<1>3. PagesExist'
  <2>1. /\ {header'.root, fileHeader'.root} \subseteq DOMAIN mem' \cup {0}
        /\ \A p \in DOMAIN mem' :
             GoodPage(mem'[p], DOMAIN mem') /\ GoodPage(file'[p], DOMAIN mem')
        /\ \A n \in DOMAIN live' : live'[n] \in ConfigsOn(DOMAIN mem') /\ live'[n].name = n
    BY DEF Safe, PagesExist
  <2>. QED
    BY <1>1, <2>1 DEF PagesExist
<1>. QED
  BY <1>2, <1>3 DEF Safe

\* The locals of t, when all but pc, page and seen stay as they are.
LEMMA LocalsStill ==
  ASSUME Safe, NEW t \in Threads, SameCall(t), DOMAIN mem' = DOMAIN mem
  PROVE  /\ Range(thread'[t].got) \subseteq DOMAIN mem'
         /\ thread'[t].configs \in Seq(ConfigsOn(DOMAIN mem'))
BY LocalsFacts DEF SameCall, LocalsExist

LEMMA TakeIsSafe ==
  ASSUME Safe, NEW t \in Threads, Take(t)
  PROVE  Safe'
<1>1. LocalsExist(t) /\ header.count # 0
  BY LocalsFacts DEF PageIds
<1>2. LocalsExist(t)'
  BY <1>1, TakeIs, LocalsStill DEF LocalsExist, SameCall, Allocating, AtPage, Quiet
<1>. QED
  BY <1>2, TakeIs, OnlyThreadMoves DEF Quiet

LEMMA EnsureFoundIsSafe ==
  ASSUME Safe, NEW t \in Threads, EnsureFound(t)
  PROVE  Safe'
<1>1. LocalsExist(t) /\ header.root \in DOMAIN mem
  BY LocalsFacts, EnsureFoundIs DEF Safe, PagesExist
<1>2. LocalsExist(t)'
  BY <1>1, EnsureFoundIs, LocalsStill DEF LocalsExist, SameCall, Allocating, AtPage, Quiet
<1>. QED
  BY <1>2, EnsureFoundIs, OnlyThreadMoves DEF Quiet

LEMMA EnsureAllocatesIsSafe ==
  ASSUME Safe, NEW t \in Threads, EnsureAllocates(t)
  PROVE  Safe'
<1>1. LocalsExist(t)
  BY LocalsFacts
<1>2. LocalsExist(t)'
  BY <1>1, EnsureAllocatesIs DEF LocalsExist, Allocating, AtPage, Quiet
<1>. QED
  BY <1>2, EnsureAllocatesIs, OnlyThreadMoves DEF Quiet

LEMMA ReadRootIsSafe ==
  ASSUME Safe, NEW t \in Threads, ReadRoot(t)
  PROVE  Safe'
<1>1. LocalsExist(t) /\ header.root \in DOMAIN mem \cup {0}
  BY LocalsFacts DEF Safe, PagesExist
<1>2. LocalsExist(t)'
  BY <1>1, ReadRootIs, LocalsStill DEF LocalsExist, SameCall, Allocating, AtPage, Quiet
<1>. QED
  BY <1>2, ReadRootIs, OnlyThreadMoves DEF Quiet

LEMMA ReadConfigsIsSafe ==
  ASSUME Safe, NEW t \in Threads, ReadConfigs(t)
  PROVE  Safe'
<1>1. LocalsExist(t)
  BY LocalsFacts
<1>2. LocalsExist(t)'
  BY <1>1, ReadConfigsIs DEF LocalsExist, Allocating, AtPage, Quiet
<1>. QED
  BY <1>2, ReadConfigsIs, OnlyThreadMoves DEF Quiet

LEMMA IdleExists ==
  ASSUME NEW t \in Threads, thread'[t] = Idle
  PROVE  LocalsExist(t)'
<1>1. Range(<<>>) = {} /\ <<>> \in Seq(ConfigsOn(DOMAIN mem'))
  BY DEF Range
<1>. QED
  BY <1>1 DEF LocalsExist, Idle, Allocating, AtPage

LEMMA NoCatalogIsSafe ==
  ASSUME Safe, NEW t \in Threads, NoCatalog(t)
  PROVE  Safe'
<1>1. Moves(t) /\ LocalsExist(t)'
  BY ReturnIs, IdleExists DEF NoCatalog
<1>. QED
  BY <1>1, OnlyThreadMoves DEF NoCatalog, durable

LEMMA CreateIsSafe ==
  ASSUME Safe, NEW t \in Threads, NEW n \in Names, Create(t, n)
  PROVE  Safe'
<1>1. LocalsExist(t) /\ Range(<<>>) = {} /\ RootPages > 0
  BY LocalsFacts, CatalogConstants DEF Range
<1>2. LocalsExist(t)'
  BY <1>1, CreateIs DEF LocalsExist, Allocating, AtPage, Quiet
<1>. QED
  BY <1>2, CreateIs, OnlyThreadMoves DEF Quiet

LEMMA AllocatedForCatalogIsSafe ==
  ASSUME Safe, NEW t \in Threads, AllocatedForCatalog(t)
  PROVE  Safe'
<1>1. LocalsExist(t) /\ thread[t].seen \in Headers /\ thread[t].page \in Nat
  BY LocalsFacts
<1>2. header' \in Headers /\ header'.root = thread[t].seen.root
  BY <1>1, AllocatedForCatalogIs, CountWritten
<1>3. LocalsExist(t)'
  BY <1>1, AllocatedForCatalogIs, LocalsStill DEF LocalsExist, SameCall, Allocating, AtPage
<1>. QED
  BY <1>1, <1>2, <1>3, AllocatedForCatalogIs, HeaderMoves DEF LocalsExist

LEMMA AllocatedForRebuildIsSafe ==
  ASSUME Safe, NEW t \in Threads, AllocatedForRebuild(t)
  PROVE  Safe'
<1>1. LocalsExist(t) /\ thread[t].seen \in Headers /\ thread[t].page \in Nat
  BY LocalsFacts
<1>2. header' \in Headers /\ header'.root = thread[t].seen.root
  BY <1>1, AllocatedForRebuildIs, CountWritten
<1>3. LocalsExist(t)'
  BY <1>1, AllocatedForRebuildIs, LocalsStill DEF LocalsExist, SameCall, Allocating, AtPage
<1>. QED
  BY <1>1, <1>2, <1>3, AllocatedForRebuildIs, HeaderMoves DEF LocalsExist

LEMMA SetRootIsSafe ==
  ASSUME Safe, NEW t \in Threads, SetRoot(t)
  PROVE  Safe'
<1>1. LocalsExist(t) /\ thread[t].seen \in Headers /\ thread[t].page \in Nat
  BY LocalsFacts
<1>2. header' \in Headers /\ header'.root = thread[t].page
  BY <1>1, SetRootIs, RootWritten
<1>3. LocalsExist(t)'
  BY <1>1, SetRootIs, LocalsStill DEF LocalsExist, SameCall, Allocating, AtPage
<1>. QED
  BY <1>1, <1>2, <1>3, SetRootIs, HeaderMoves DEF LocalsExist, AtPage

\* The header and the map stay; pages are written, in memory or to the file.
LEMMA PagesWritten ==
  ASSUME Safe, thread' \in [Threads -> Locals], \A u \in Threads : LocalsExist(u)',
         phase' \in {"open", "closed", "crashed"}, UNCHANGED <<header, live>>,
         fileHeader' \in {header, fileHeader}, failed' \subseteq Names,
         DOMAIN mem' = DOMAIN mem, mem' = [p \in DOMAIN mem |-> mem'[p]],
         DOMAIN file' = DOMAIN mem, file' = [p \in DOMAIN mem |-> file'[p]],
         \A p \in DOMAIN mem : GoodPage(mem'[p], DOMAIN mem) /\ GoodPage(file'[p], DOMAIN mem)
  PROVE  Safe'
<1>1. \A p \in DOMAIN mem : mem'[p] \in Seq(Configs) /\ file'[p] \in Seq(Configs)
  BY SeqOfConfigs DEF GoodPage
<1>2. mem' \in [DOMAIN mem -> Seq(Configs)] /\ file' \in [DOMAIN mem -> Seq(Configs)]
  BY <1>1
<1>3. TypeOK'
  <2>1. fileHeader' \in Headers
    BY DEF Safe, TypeOK
  <2>. QED
    BY <1>2, <2>1 DEF Safe, TypeOK
<1>4. PagesExist'
  <2>1. /\ {header'.root, fileHeader'.root} \subseteq DOMAIN mem \cup {0}
        /\ \A n \in DOMAIN live : live[n] \in ConfigsOn(DOMAIN mem) /\ live[n].name = n
    BY DEF Safe, PagesExist
  <2>. QED
    BY <2>1 DEF PagesExist
<1>. QED
  BY <1>3, <1>4 DEF Safe

\* The configuration that a thread appends.
LEMMA OwnConfig ==
  ASSUME Safe, NEW t \in Threads, thread[t].pc = "append"
  PROVE  [name |-> thread[t].name, pages |-> thread[t].got] \in ConfigsOn(DOMAIN mem)
<1>1. /\ thread[t].name \in Names /\ thread[t].got \in Seq(PageIds)
      /\ Len(thread[t].got) = RootPages /\ Range(thread[t].got) \subseteq DOMAIN mem
  BY LocalsFacts DEF LocalsExist
<1>. QED
  BY <1>1, NewConfig

LEMMA AppendConfigIsSafe ==
  ASSUME Safe, NEW t \in Threads, AppendConfig(t)
  PROVE  Safe'
<1>. DEFINE D == DOMAIN mem
<1>1. /\ LocalsExist(t) /\ thread[t].page \in D /\ thread[t].pc = "append"
      /\ \A p \in D : GoodPage(mem[p], D) /\ GoodPage(file[p], D)
      /\ failed \subseteq Names
      /\ mem = [p \in D |-> mem[p]] /\ file = [p \in D |-> file[p]] /\ DOMAIN file = D
  BY LocalsFacts, AppendConfigIs DEF Safe, TypeOK, PagesExist, LocalsExist, AtPage
<1>2. PICK c : c = [name |-> thread[t].name, pages |-> thread[t].got]
  OBVIOUS
<1>3. c \in ConfigsOn(D)
  BY <1>1, <1>2, OwnConfig
<1>4. PICK new : new = Append(mem[thread[t].page], c)
  OBVIOUS
<1>5. GoodPage(new, D)
  <2>1. PICK s : s = mem[thread[t].page]
    OBVIOUS
  <2>2. /\ s \in Seq(ConfigsOn(D)) /\ Len(s) < CatalogCells /\ new = Append(s, c)
        /\ CatalogCells \in Nat
    BY <1>1, <1>4, <2>1, AppendConfigIs, CatalogConstants DEF GoodPage
  <2>3. new \in Seq(ConfigsOn(D)) /\ Len(new) = Len(s) + 1 /\ Len(s) \in Nat
    BY <1>3, <2>2, AppendedRange, SeqOfConfigs
  <2>. QED
    BY <2>2, <2>3 DEF GoodPage
<1>6. mem' = [mem EXCEPT ![thread[t].page] = new]
  BY <1>2, <1>4, AppendConfigIs
<1>7. /\ DOMAIN mem' = D /\ mem' = [p \in D |-> mem'[p]]
      /\ \A p \in D : GoodPage(mem'[p], D)
  BY <1>1, <1>5, <1>6
<1>8. LocalsExist(t)'
  BY <1>1, <1>7, AppendConfigIs, LocalsStill DEF LocalsExist, SameCall, Allocating, AtPage
<1>9. thread' \in [Threads -> Locals] /\ \A u \in Threads : LocalsExist(u)'
  BY <1>7, <1>8, AppendConfigIs, ThreadMoves
<1>10. phase \in {"open", "closed", "crashed"}
  BY DEF Safe, TypeOK
<1>. QED
  BY <1>1, <1>7, <1>9, <1>10, AppendConfigIs, PagesWritten

LEMMA CatalogFullIsSafe ==
  ASSUME Safe, NEW t \in Threads, CatalogFull(t)
  PROVE  Safe'
<1>1. /\ Moves(t) /\ LocalsExist(t)' /\ failed' = failed \cup {thread[t].name}
      /\ UNCHANGED <<phase, header, mem, fileHeader, file, live>>
      /\ thread[t].name \in Names
  BY ReturnIs, IdleExists, LocalsFacts DEF CatalogFull, durable, LocalsExist
<1>2. thread' \in [Threads -> Locals] /\ \A u \in Threads : LocalsExist(u)'
  BY <1>1, ThreadMoves
<1>3. /\ phase \in {"open", "closed", "crashed"} /\ DOMAIN file = DOMAIN mem
      /\ failed \subseteq Names
      /\ mem = [p \in DOMAIN mem |-> mem[p]] /\ file = [p \in DOMAIN mem |-> file[p]]
      /\ \A p \in DOMAIN mem : GoodPage(mem[p], DOMAIN mem) /\ GoodPage(file[p], DOMAIN mem)
  BY DEF Safe, TypeOK, PagesExist
<1>. QED
  BY <1>1, <1>2, <1>3, PagesWritten

LEMMA FlushPageIsSafe ==
  ASSUME Safe, NEW t \in Threads, FlushPage(t)
  PROVE  Safe'
<1>. DEFINE D == DOMAIN mem
<1>1. /\ Moves(t) /\ LocalsExist(t)'
      /\ file' = [file EXCEPT ![thread[t].page] = mem[thread[t].page]]
      /\ UNCHANGED <<phase, header, mem, fileHeader, live, failed>>
  BY ReturnIs, IdleExists DEF FlushPage
<1>2. thread' \in [Threads -> Locals] /\ \A u \in Threads : LocalsExist(u)'
  BY <1>1, ThreadMoves
<1>3. /\ phase \in {"open", "closed", "crashed"} /\ DOMAIN file = D
      /\ failed \subseteq Names
      /\ mem = [p \in D |-> mem[p]] /\ file = [p \in D |-> file[p]]
      /\ \A p \in D : GoodPage(mem[p], D) /\ GoodPage(file[p], D)
  BY DEF Safe, TypeOK, PagesExist
<1>4. /\ DOMAIN file' = D /\ file' = [p \in D |-> file'[p]]
      /\ \A p \in D : GoodPage(file'[p], D)
  BY <1>1, <1>3
<1>. QED
  BY <1>1, <1>2, <1>3, <1>4, PagesWritten

LEMMA CopyIs ==
  ASSUME Safe, NEW t \in Threads, Copy(t)
  PROVE  /\ thread[t].pc = "copy" /\ Moves(t) /\ LocalsExist(t)'
         /\ UNCHANGED <<phase, header, fileHeader, file, live, failed>>
         /\ DOMAIN mem' = DOMAIN mem /\ mem' = [p \in DOMAIN mem |-> mem'[p]]
         /\ \A p \in DOMAIN mem : p # thread[t].page => mem'[p] = mem[p]
         /\ GoodPage(mem'[thread[t].page], DOMAIN mem)
         /\ mem[thread[t].page] = <<>> /\ Len(thread[t].configs) <= CatalogCells =>
              /\ SameCall(t) /\ thread'[t].pc = "readRoot"
              /\ thread'[t].page = thread[t].page /\ thread'[t].seen = thread[t].seen
              /\ mem'[thread[t].page] = thread[t].configs
<1>. DEFINE D == DOMAIN mem
<1>1. /\ LocalsExist(t) /\ thread[t].page \in D /\ thread[t].pc = "copy"
      /\ \A p \in D : GoodPage(mem[p], D)
      /\ mem = [p \in D |-> mem[p]] /\ thread[t].configs \in Seq(ConfigsOn(D))
  BY LocalsFacts DEF Safe, TypeOK, PagesExist, LocalsExist, AtPage, Copy
<1>2. PICK s, configs : s = mem[thread[t].page] /\ configs = thread[t].configs
  OBVIOUS
<1>3. s \in Seq(ConfigsOn(D)) /\ configs \in Seq(ConfigsOn(D)) /\ CatalogCells \in Nat
  BY <1>1, <1>2, CatalogConstants DEF GoodPage
<1>4. PICK new : new = s \o configs
  OBVIOUS
<1>5. new \in Seq(ConfigsOn(D)) /\ Len(new) \in Nat
  BY <1>3, <1>4
<1>6. PICK written :
        /\ written = IF Len(new) <= CatalogCells THEN new ELSE SubSeq(new, 1, CatalogCells)
  OBVIOUS
<1>7. GoodPage(written, D)
  <2>1. CASE Len(new) <= CatalogCells
    BY <1>5, <1>6, <2>1 DEF GoodPage
  <2>2. CASE ~(Len(new) <= CatalogCells)
    <3>1. CatalogCells < Len(new)
      BY <1>3, <1>5, <2>2
    <3>. QED
      BY <1>3, <1>5, <1>6, <2>2, <3>1, CutPage DEF GoodPage
  <2>. QED
    BY <2>1, <2>2
<1>8. mem' = [mem EXCEPT ![thread[t].page] = written]
  BY <1>2, <1>4, <1>6 DEF Copy
<1>9. /\ DOMAIN mem' = D /\ mem' = [p \in D |-> mem'[p]]
      /\ \A p \in D : p # thread[t].page => mem'[p] = mem[p]
      /\ mem'[thread[t].page] = written
  BY <1>1, <1>8
<1>10. IF Len(new) <= CatalogCells THEN Goto(t, "readRoot") ELSE Return(t)
  BY <1>2, <1>4 DEF Copy
<1>11. Moves(t) /\ LocalsExist(t)'
  <2>1. CASE Len(new) <= CatalogCells
    <3>1. /\ Moves(t) /\ SameCall(t) /\ thread'[t].pc = "readRoot"
          /\ thread'[t].page = thread[t].page /\ thread'[t].seen = thread[t].seen
      BY <1>10, <2>1, GotoIs
    <3>2. LocalsExist(t)'
      BY <1>1, <1>9, <3>1, LocalsStill DEF LocalsExist, SameCall, Allocating, AtPage
    <3>. QED
      BY <3>1, <3>2
  <2>2. CASE ~(Len(new) <= CatalogCells)
    BY <1>10, <2>2, ReturnIs, IdleExists
  <2>. QED
    BY <2>1, <2>2
<1>12. ASSUME s = <<>>, Len(configs) <= CatalogCells
       PROVE  /\ SameCall(t) /\ thread'[t].pc = "readRoot"
              /\ thread'[t].page = thread[t].page /\ thread'[t].seen = thread[t].seen
              /\ mem'[thread[t].page] = configs
  <2>1. new = configs
    BY <1>3, <1>4, <1>12
  <2>2. Goto(t, "readRoot")
    BY <1>10, <1>12, <2>1
  <2>. QED
    BY <1>6, <1>9, <1>12, <2>1, <2>2, GotoIs
<1>13. UNCHANGED <<phase, header, fileHeader, file, live, failed>>
  BY DEF Copy, durable
<1>. QED
  BY <1>1, <1>2, <1>7, <1>9, <1>11, <1>12, <1>13

LEMMA CopyIsSafe ==
  ASSUME Safe, NEW t \in Threads, Copy(t)
  PROVE  Safe'
<1>1. thread' \in [Threads -> Locals] /\ \A u \in Threads : LocalsExist(u)'
  BY CopyIs, ThreadMoves
<1>2. /\ phase \in {"open", "closed", "crashed"} /\ DOMAIN file = DOMAIN mem
      /\ failed \subseteq Names /\ file = [p \in DOMAIN mem |-> file[p]]
      /\ \A p \in DOMAIN mem : GoodPage(mem[p], DOMAIN mem) /\ GoodPage(file[p], DOMAIN mem)
  BY DEF Safe, TypeOK, PagesExist
<1>3. \A p \in DOMAIN mem : GoodPage(mem'[p], DOMAIN mem)
  BY <1>2, CopyIs
<1>. QED
  BY <1>1, <1>2, <1>3, CopyIs, PagesWritten

LEMMA StoreIsSafe ==
  ASSUME Safe, NEW t \in Threads, Store(t)
  PROVE  Safe'
<1>. DEFINE D == DOMAIN mem
            p == thread[t].page
<1>1. /\ LocalsExist(t) /\ p \in PageIds /\ header.root \in D \cup {0}
      /\ fileHeader.root \in D \cup {0}
      /\ DOMAIN file = D /\ D \subseteq PageIds
      /\ \A q \in D : GoodPage(mem[q], D) /\ GoodPage(file[q], D)
  BY LocalsFacts, StoreIs DEF Safe, TypeOK, PagesExist, LocalsExist, PageIds
<1>2. PICK E : E = D \cup {p}
  OBVIOUS
<1>3. /\ DOMAIN mem' = E /\ DOMAIN file' = E /\ D \subseteq E
      /\ mem' = [q \in E |-> mem'[q]] /\ file' = [q \in E |-> file'[q]]
      /\ mem'[p] = <<>> /\ file'[p] = <<>>
      /\ \A q \in D : q # p => mem'[q] = mem[q] /\ file'[q] = file[q]
  <2>1. mem' = With(mem, p, <<>>) /\ file' = With(file, p, <<>>)
    BY StoreIs
  <2>2. /\ DOMAIN With(mem, p, <<>>) = D \cup {p} /\ With(mem, p, <<>>)[p] = <<>>
        /\ \A q \in D : q # p => With(mem, p, <<>>)[q] = mem[q]
        /\ With(mem, p, <<>>) = [q \in D \cup {p} |-> With(mem, p, <<>>)[q]]
    BY DEF With
  <2>3. /\ DOMAIN With(file, p, <<>>) = D \cup {p} /\ With(file, p, <<>>)[p] = <<>>
        /\ \A q \in D : q # p => With(file, p, <<>>)[q] = file[q]
        /\ With(file, p, <<>>) = [q \in D \cup {p} |-> With(file, p, <<>>)[q]]
    BY <1>1 DEF With
  <2>. HIDE DEF D, p
  <2>4. D \subseteq E
    BY <1>2
  <2>. QED
    BY <1>2, <2>1, <2>2, <2>3, <2>4
<1>4. GoodPage(<<>>, E)
  BY CatalogConstants DEF GoodPage
<1>5. \A q \in E : GoodPage(mem'[q], E) /\ GoodPage(file'[q], E)
  <2>1. \A q \in D : GoodPage(mem[q], E) /\ GoodPage(file[q], E)
    BY <1>1, <1>3, MorePages
  <2>. HIDE DEF p, D
  <2>. QED
    BY <1>2, <1>3, <1>4, <2>1
<1>6. LocalsExist(t)'
  <2>1. thread'[t].configs \in Seq(ConfigsOn(E))
    BY <1>1, <1>3, StoreIs, MorePages DEF LocalsExist, SameCall
  <2>. QED
    BY <1>1, <1>2, <1>3, <2>1, StoreIs DEF LocalsExist, SameCall, Allocating, AtPage
<1>7. thread' \in [Threads -> Locals] /\ \A u \in Threads : LocalsExist(u)'
  BY <1>3, <1>6, StoreIs, ThreadMoves
<1>8. \A q \in E : mem'[q] \in Seq(Configs) /\ file'[q] \in Seq(Configs)
  BY <1>5, SeqOfConfigs DEF GoodPage
<1>9. mem' \in [E -> Seq(Configs)] /\ file' \in [E -> Seq(Configs)]
  BY <1>3, <1>8
<1>10. TypeOK'
  <2>1. E \subseteq PageIds
    BY <1>1, <1>2
  <2>. QED
    BY <1>3, <1>7, <1>9, <2>1, StoreIs DEF Safe, TypeOK
<1>11. PagesExist'
  <2>1. \A n \in DOMAIN live : live[n] \in ConfigsOn(E) /\ live[n].name = n
    BY <1>3, MorePages DEF Safe, PagesExist
  <2>2. {header.root, fileHeader.root} \subseteq E \cup {0}
    BY <1>1, <1>3
  <2>. QED
    BY <1>3, <1>5, <1>7, <2>1, <2>2, StoreIs DEF PagesExist
<1>. QED
  BY <1>10, <1>11 DEF Safe

\* Another map of collections, on the same pages.
LEMMA MapMoves ==
  ASSUME Safe, NEW t \in Threads, Moves(t), LocalsExist(t)',
         header' \in Headers, header'.root \in DOMAIN mem \cup {0}, failed' \subseteq failed,
         DOMAIN live' \subseteq Names,
         \A n \in DOMAIN live' : live'[n] \in ConfigsOn(DOMAIN mem) /\ live'[n].name = n,
         UNCHANGED <<phase, mem, fileHeader, file>>
  PROVE  Safe'
<1>1. thread' \in [Threads -> Locals] /\ \A u \in Threads : LocalsExist(u)'
  BY ThreadMoves
<1>2. TypeOK'
  <2>1. \A n \in DOMAIN live' : live'[n] \in Configs /\ Len(live'[n].pages) = RootPages
    BY ConfigFacts
  <2>. QED
    BY <1>1, <2>1 DEF Safe, TypeOK
<1>3. PagesExist'
  <2>1. /\ {header'.root, fileHeader'.root} \subseteq DOMAIN mem' \cup {0}
        /\ \A p \in DOMAIN mem' :
             GoodPage(mem'[p], DOMAIN mem') /\ GoodPage(file'[p], DOMAIN mem')
    BY DEF Safe, PagesExist
  <2>. QED
    BY <1>1, <2>1 DEF PagesExist
<1>. QED
  BY <1>2, <1>3 DEF Safe

LEMMA AllocatedForCollectionIsSafe ==
  ASSUME Safe, NEW t \in Threads, AllocatedForCollection(t)
  PROVE  Safe'
<1>. DEFINE D == DOMAIN mem
            config == [name |-> thread[t].name, pages |-> thread'[t].got]
<1>1. /\ LocalsExist(t) /\ thread[t].seen \in Headers /\ thread[t].page \in Nat
      /\ thread[t].page \in D /\ thread[t].name \in Names
  BY LocalsFacts, AllocatedForCollectionIs DEF LocalsExist, AtPage
<1>2. header' \in Headers /\ header'.root = thread[t].seen.root
  BY <1>1, AllocatedForCollectionIs, CountWritten
<1>3. thread'[t].got \in Seq(PageIds) /\ Range(thread'[t].got) \subseteq D
  <2>1. thread'[t] \in Locals /\ Range(thread'[t].got) = Range(thread[t].got) \cup {thread[t].page}
    BY AllocatedForCollectionIs DEF Moves
  <2>2. thread'[t].got \in Seq(PageIds)
    BY <2>1 DEF Locals
  <2>. QED
    BY <1>1, <2>1, <2>2 DEF LocalsExist
<1>4. LocalsExist(t)'
  BY <1>1, <1>3, AllocatedForCollectionIs DEF LocalsExist, Allocating, AtPage
<1>5. /\ DOMAIN live' \subseteq Names
      /\ \A n \in DOMAIN live' : live'[n] \in ConfigsOn(D) /\ live'[n].name = n
  <2>1. /\ DOMAIN live \subseteq Names
        /\ \A n \in DOMAIN live : live[n] \in ConfigsOn(D) /\ live[n].name = n
    BY DEF Safe, TypeOK, PagesExist
  <2>2. CASE live' = live
    BY <2>1, <2>2
  <2>3. CASE Len(thread'[t].got) = RootPages /\ live' = With(live, thread[t].name, config)
    <3>1. config \in ConfigsOn(D)
      BY <1>1, <1>3, <2>3, NewConfig
    <3>2. config.name = thread[t].name
      OBVIOUS
    <3>3. PICK c, n : c = config /\ n = thread[t].name
      OBVIOUS
    <3>4. /\ DOMAIN live' = DOMAIN live \cup {n} /\ live'[n] = c
          /\ \A m \in DOMAIN live : m # n => live'[m] = live[m]
      <4>1. live' = With(live, n, c)
        BY <2>3, <3>3
      <4>2. /\ DOMAIN With(live, n, c) = DOMAIN live \cup {n} /\ With(live, n, c)[n] = c
            /\ \A m \in DOMAIN live : m # n => With(live, n, c)[m] = live[m]
        BY DEF With
      <4>. QED
        BY <4>1, <4>2
    <3>. HIDE DEF config
    <3>. QED
      BY <1>1, <2>1, <3>1, <3>2, <3>3, <3>4
  <2>. QED
    BY <2>2, <2>3, AllocatedForCollectionIs
<1>. QED
  BY <1>1, <1>2, <1>4, <1>5, AllocatedForCollectionIs, MapMoves DEF LocalsExist

LEMMA WithoutOne ==
  ASSUME NEW f, NEW n
  PROVE  /\ DOMAIN Restrict(f, DOMAIN f \ {n}) = DOMAIN f \ {n}
         /\ \A m \in DOMAIN f : m # n => Restrict(f, DOMAIN f \ {n})[m] = f[m]
BY DEF Restrict

LEMMA DropIsSafe ==
  ASSUME Safe, NEW t \in Threads, NEW n \in Names, Drop(t, n)
  PROVE  Safe'
<1>1. LocalsExist(t) /\ Range(<<>>) = {}
  BY LocalsFacts DEF Range
<1>2. LocalsExist(t)'
  BY <1>1, DropIs DEF LocalsExist, Allocating, AtPage
<1>3. /\ DOMAIN live' = DOMAIN live \ {n}
      /\ \A m \in DOMAIN live : m # n => live'[m] = live[m]
  <2>1. live' = Restrict(live, DOMAIN live \ {n})
    BY DropIs
  <2>2. /\ DOMAIN Restrict(live, DOMAIN live \ {n}) = DOMAIN live \ {n}
        /\ \A m \in DOMAIN live : m # n => Restrict(live, DOMAIN live \ {n})[m] = live[m]
    BY WithoutOne
  <2>. QED
    BY <2>1, <2>2
<1>4. /\ DOMAIN live' \subseteq Names
      /\ \A m \in DOMAIN live' : live'[m] \in ConfigsOn(DOMAIN mem) /\ live'[m].name = m
  BY <1>3 DEF Safe, TypeOK, PagesExist
<1>5. header \in Headers /\ header.root \in DOMAIN mem \cup {0}
  BY DEF Safe, TypeOK, PagesExist
<1>. QED
  BY <1>2, <1>4, <1>5, DropIs, MapMoves

\* What the disk holds may be read back; a process leaves no locals.
LEMMA NoCallsExist ==
  ASSUME thread' = [t \in Threads |-> Idle]
  PROVE  thread' \in [Threads -> Locals] /\ \A t \in Threads : LocalsExist(t)'
<1>1. Idle \in Locals
  BY DEF Idle, Locals, Headers, PageIds
<1>. QED
  BY <1>1, IdleExists

LEMMA CrashIsSafe ==
  ASSUME Safe, Crash
  PROVE  Safe'
<1>1. thread' \in [Threads -> Locals] /\ \A t \in Threads : LocalsExist(t)'
  BY NoCallsExist DEF Crash
<1>2. /\ header' = fileHeader /\ mem' = file /\ live' = <<>> /\ failed' = {}
      /\ phase' = "crashed" /\ UNCHANGED <<fileHeader, file>>
  BY DEF Crash, durable
<1>3. DOMAIN file = DOMAIN mem /\ DOMAIN live' = {}
  BY <1>2 DEF Safe, TypeOK
<1>4. TypeOK'
  BY <1>1, <1>2, <1>3 DEF Safe, TypeOK
<1>5. PagesExist'
  BY <1>1, <1>2, <1>3 DEF Safe, PagesExist
<1>. QED
  BY <1>4, <1>5 DEF Safe

\* Every collection found on a page is on pages that exist.
LEMMA OpenedExist ==
  ASSUME Safe, Open
  PROVE  /\ DOMAIN live' \subseteq Names
         /\ \A n \in DOMAIN live' : live'[n] \in ConfigsOn(DOMAIN mem) /\ live'[n].name = n
<1>1. CASE fileHeader.root = 0
  <2>1. live' = <<>>
    BY <1>1 DEF Open
  <2>. QED
    BY <2>1
<1>2. CASE fileHeader.root # 0
  <2>1. PICK s : s = file[fileHeader.root]
    OBVIOUS
  <2>2. live' = Loaded(s)
    BY <1>2, <2>1 DEF Open
  <2>3. s \in Seq(ConfigsOn(DOMAIN mem))
    BY <1>2, <2>1 DEF Safe, PagesExist, GoodPage
  <2>4. \A c \in Range(s) : c \in ConfigsOn(DOMAIN mem) /\ c.name \in Names
    BY <2>3, SeqOfConfigs, ConfigFacts
  <2>5. /\ DOMAIN Loaded(s) = {c.name : c \in Range(s)}
        /\ \A n \in DOMAIN Loaded(s) : Loaded(s)[n] \in Range(s) /\ Loaded(s)[n].name = n
    BY <2>3, LoadedIs
  <2>. QED
    BY <2>2, <2>4, <2>5
<1>. QED
  BY <1>1, <1>2

LEMMA OpenIsSafe ==
  ASSUME Safe, Open
  PROVE  Safe'
<1>1. /\ header' = fileHeader /\ mem' = file /\ failed' = {}
      /\ phase' = "open" /\ UNCHANGED <<fileHeader, file, thread>>
  BY DEF Open, durable
<1>2. DOMAIN file = DOMAIN mem
  BY DEF Safe, TypeOK
<1>3. \A t \in Threads : LocalsExist(t)'
  BY <1>1, <1>2 DEF Safe, PagesExist, LocalsExist, Allocating
<1>4. TypeOK'
  <2>1. \A n \in DOMAIN live' : live'[n] \in Configs /\ Len(live'[n].pages) = RootPages
    BY OpenedExist, ConfigFacts
  <2>. QED
    BY <1>1, <1>2, <2>1, OpenedExist DEF Safe, TypeOK
<1>5. PagesExist'
  BY <1>1, <1>2, <1>3, OpenedExist DEF Safe, PagesExist
<1>. QED
  BY <1>4, <1>5 DEF Safe

\* What close and the flushes of it write.
LEMMA FlushesAreSafe ==
  ASSUME Safe, FlushHeader \/ (\E p \in DOMAIN mem : FlushOther(p)) \/ Shutdown
  PROVE  Safe'
<1>. DEFINE D == DOMAIN mem
<1>1. /\ DOMAIN file = D /\ failed \subseteq Names /\ phase \in {"open", "closed", "crashed"}
      /\ mem = [p \in D |-> mem[p]] /\ file = [p \in D |-> file[p]]
      /\ \A p \in D : GoodPage(mem[p], D) /\ GoodPage(file[p], D)
      /\ thread \in [Threads -> Locals] /\ \A t \in Threads : LocalsExist(t)
  BY DEF Safe, TypeOK, PagesExist
<1>2. UNCHANGED <<mem, header, live, thread, failed>>
  BY DEF FlushHeader, FlushOther, Shutdown
<1>3. /\ phase' \in {"open", "closed", "crashed"} /\ fileHeader' \in {header, fileHeader}
  BY <1>1 DEF FlushHeader, FlushOther, Shutdown, FlushedHeader
<1>4. /\ DOMAIN file' = D /\ file' = [p \in D |-> file'[p]]
      /\ \A p \in D : GoodPage(file'[p], D)
  <2>1. CASE file' = file
    BY <1>1, <2>1
  <2>2. CASE file' = mem
    BY <1>1, <2>2
  <2>3. ASSUME NEW q \in D, file' = [file EXCEPT ![q] = mem[q]]
        PROVE  /\ DOMAIN file' = D /\ file' = [p \in D |-> file'[p]]
               /\ \A p \in D : GoodPage(file'[p], D)
    BY <1>1, <2>3
  <2>. QED
    BY <2>1, <2>2, <2>3 DEF FlushHeader, FlushOther, Shutdown
<1>5. \A t \in Threads : LocalsExist(t)'
  BY <1>1, <1>2 DEF LocalsExist, Allocating
<1>. QED
  BY <1>1, <1>2, <1>3, <1>4, <1>5, PagesWritten

LEMMA StutterIsSafe ==
  ASSUME Safe, UNCHANGED vars
  PROVE  Safe'
<1>1. TypeOK'
  BY DEF Safe, TypeOK, vars
<1>2. \A t \in Threads : LocalsExist(t)'
  BY DEF Safe, PagesExist, LocalsExist, Allocating, vars
<1>3. PagesExist'
  BY <1>2 DEF Safe, PagesExist, vars
<1>. QED
  BY <1>1, <1>3 DEF Safe

LEMMA InitIsSafe ==
  ASSUME Init
  PROVE  Safe
<1>1. Idle \in Locals /\ [count |-> 1, root |-> 0] \in Headers
  BY DEF Idle, Locals, Headers, PageIds
<1>2. /\ DOMAIN mem = {} /\ mem = file /\ DOMAIN live = {} /\ header = [count |-> 1, root |-> 0]
      /\ fileHeader = header /\ thread = [t \in Threads |-> Idle]
      /\ phase = "open" /\ failed = {}
  BY DEF Init
<1>3. \A t \in Threads : thread[t] = Idle
  BY <1>2
<1>4. Range(<<>>) = {} /\ <<>> \in Seq(ConfigsOn(DOMAIN mem))
  <2>1. Range(<<>>) = {}
    BY DEF Range
  <2>. QED
    BY <2>1
<1>5. ASSUME NEW t \in Threads PROVE LocalsExist(t)
  <2>1. /\ thread[t].pc = "idle" /\ thread[t].for = "none" /\ thread[t].got = <<>>
        /\ thread[t].seen.root = 0 /\ thread[t].configs = <<>>
    BY <1>3 DEF Idle
  <2>. QED
    BY <1>4, <2>1 DEF LocalsExist, Allocating, AtPage
<1>6. TypeOK
  BY <1>1, <1>2 DEF TypeOK
<1>7. PagesExist
  BY <1>2, <1>5 DEF PagesExist
<1>. QED
  BY <1>6, <1>7 DEF Safe

LEMMA NextIsSafe ==
  ASSUME Safe, [Next]_vars
  PROVE  Safe'
<1>1. ASSUME NEW t \in Threads, Step(t) PROVE Safe'
  BY <1>1, TakeIsSafe, StoreIsSafe, AllocatedForCollectionIsSafe, AllocatedForCatalogIsSafe,
     AllocatedForRebuildIsSafe, EnsureFoundIsSafe, EnsureAllocatesIsSafe, ReadRootIsSafe,
     SetRootIsSafe, AppendConfigIsSafe, CatalogFullIsSafe, FlushPageIsSafe, ReadConfigsIsSafe,
     NoCatalogIsSafe, CopyIsSafe DEF Step
<1>2. ASSUME NEW t \in Threads, NEW n \in Names, Create(t, n) PROVE Safe'
  BY <1>2, CreateIsSafe
<1>3. ASSUME NEW t \in Threads, NEW n \in Names, Drop(t, n) PROVE Safe'
  BY <1>3, DropIsSafe
<1>4. ASSUME FlushHeader \/ (\E p \in DOMAIN mem : FlushOther(p)) \/ Shutdown PROVE Safe'
  BY <1>4, FlushesAreSafe
<1>5. CASE Crash
  BY <1>5, CrashIsSafe
<1>6. CASE Open
  BY <1>6, OpenIsSafe
<1>7. CASE UNCHANGED vars
  BY <1>7, StutterIsSafe
<1>. QED
  BY <1>1, <1>2, <1>3, <1>4, <1>5, <1>6, <1>7 DEF Next

\* The maps and the locals of the threads keep their types, whatever overlaps and
\* whenever the process dies; all pages that they name are in the file.
LEMMA SafeHolds == Spec => []Safe
<1>1. Init => Safe
  BY InitIsSafe
<1>2. Safe /\ [Next]_vars => Safe'
  BY NextIsSafe
<1>. QED
  BY <1>1, <1>2, PTL DEF Spec

\* Every variable keeps its type, in particular every collection in the map has
\* as many root pages as new_persistent allocates.
THEOREM TypeCorrect == Spec => []TypeOK
<1>1. Safe => TypeOK
  BY DEF Safe
<1>. QED
  BY <1>1, SafeHolds, PTL

\* Database::open never fails for a page that is missing: with any overlap of
\* calls and a crash at any point, the catalog page that page 0 names and the root
\* pages of every collection on it are in the file.
THEOREM OpensAfterAnyCrash == Spec => []AlwaysOpens
<1>1. Safe => AlwaysOpens
  <2>. SUFFICES ASSUME Safe, fileHeader.root # 0
                PROVE  /\ fileHeader.root \in DOMAIN file
                       /\ \A c \in Range(file[fileHeader.root]) : Range(c.pages) \subseteq DOMAIN file
    BY DEF AlwaysOpens
  <2>1. /\ fileHeader.root \in DOMAIN mem /\ DOMAIN file = DOMAIN mem
        /\ file[fileHeader.root] \in Seq(ConfigsOn(DOMAIN mem))
    BY DEF Safe, TypeOK, PagesExist, GoodPage
  <2>2. \A c \in Range(file[fileHeader.root]) : c \in ConfigsOn(DOMAIN mem)
    BY <2>1, SeqOfConfigs
  <2>. QED
    BY <2>1, <2>2, ConfigFacts
<1>. QED
  BY <1>1, SafeHolds, PTL

-----------------------------------------------------------------------------
(* Without faults: who may be beside whom.                                 *)

\* A thread that drops a collection or makes the catalog page.
Sole(t) == \/ Dropping(t)
           \/ thread[t].for = "catalog" /\ thread[t].pc \notin {"append", "flush"}
NoSole(t) == \A u \in Threads \ {t} : ~Sole(u)

LEMMA SoleIsAlone ==
  ASSUME Safe, OneAtATime, NEW t \in Threads, Sole(t)
  PROVE  Busy(t) /\ Alone(t)
<1>1. LocalsExist(t)
  BY LocalsFacts
<1>2. Busy(t)
  BY <1>1 DEF Sole, Dropping, Busy, LocalsExist
<1>3. Dropping(t) \/ header.root = 0
  BY DEF Sole, OneAtATime
<1>. QED
  BY <1>2, <1>3 DEF OneAtATime

LEMMA NotSole ==
  ASSUME Safe, NEW t \in Threads, ~Sole(t)
  PROVE  /\ ~Removing(t) /\ ~Dropping(t)
         /\ thread[t].pc \notin {"oldRoot", "copy", "readRoot", "setRoot"}
         /\ Allocating(t) => thread[t].for = "collection"
         /\ Busy(t) => Creating(t) \/ Entered(t)
<1>1. LocalsExist(t) /\ thread[t].for \in {"none", "collection", "catalog", "rebuild"}
  BY LocalsFacts DEF Locals
<1>2. ~Dropping(t) /\ ~Removing(t)
  BY DEF Sole, Removing
<1>3. thread[t].pc # "oldRoot" /\ thread[t].for # "rebuild"
  BY <1>2 DEF Dropping
<1>4. thread[t].for = "catalog" => thread[t].pc \in {"append", "flush"}
  BY DEF Sole
<1>5. thread[t].pc \notin {"copy", "readRoot", "setRoot"}
  BY <1>1, <1>3, <1>4 DEF LocalsExist
<1>6. Allocating(t) => thread[t].for = "collection"
  BY <1>1, <1>3, <1>4 DEF LocalsExist, Allocating
<1>7. Busy(t) => thread[t].for \in {"collection", "catalog"}
  BY <1>1, <1>3 DEF LocalsExist, Busy
<1>. QED
  BY <1>2, <1>3, <1>5, <1>6, <1>7 DEF Entered, Creating

LEMMA BesideTheBusy ==
  ASSUME Safe, OneAtATime, NEW t \in Threads, Busy(t)
  PROVE  NoSole(t)
<1>. SUFFICES ASSUME NEW u \in Threads \ {t}, Sole(u) PROVE FALSE
  BY DEF NoSole
<1>1. Alone(u)
  BY SoleIsAlone
<1>. QED
  BY <1>1 DEF Alone

\* A thread that goes on without getting in the way of others.
LEMMA OneAtATimeStays ==
  ASSUME Safe, OneAtATime, NEW t \in Threads, Moves(t), Busy(t),
         header'.root = header.root \/ (Alone(t) /\ header'.root # 0),
         thread'[t].pc = "idle" \/ thread'[t].name = thread[t].name,
         Allocating(t)' => Allocating(t) \/ Alone(t),
         Dropping(t)' => Dropping(t),
         thread'[t].for = "catalog" /\ thread'[t].pc \notin {"append", "flush"} =>
           header'.root = 0
  PROVE  OneAtATime'
<1>1. \A u \in Threads : u # t => thread'[u] = thread[u]
  BY OthersStay DEF Safe
<1>2. NoSole(t)
  BY BesideTheBusy
<1>3. \A u \in Threads : u # t => /\ Busy(u)' = Busy(u) /\ Allocating(u)' = Allocating(u)
                                  /\ Dropping(u)' = Dropping(u)
  BY <1>1 DEF Busy, Allocating, Dropping
<1>4. Alone(t) => Alone(t)'
  BY <1>3 DEF Alone
<1>5. header'.root = 0 => Alone(t)
  BY DEF OneAtATime
<1>6. Dropping(t)' => Alone(t)
  BY DEF OneAtATime
<1>7. \A u \in Threads : u # t => ~Dropping(u) /\ (Alone(t) => ~Busy(u))
  BY <1>2 DEF NoSole, Sole, Alone
<1>8. ASSUME NEW v \in Threads
      PROVE  Dropping(v)' \/ header'.root = 0 => ~Busy(v)' \/ Alone(v)'
  <2>1. CASE v = t
    BY <1>4, <1>5, <1>6, <2>1
  <2>2. CASE v # t
    BY <1>3, <1>5, <1>7, <2>2
  <2>. QED
    BY <2>1, <2>2
<1>9. ASSUME NEW v \in Threads, thread'[v].for = "catalog",
             thread'[v].pc \notin {"append", "flush"}
      PROVE  header'.root = 0
  <2>1. CASE v = t
    BY <1>9, <2>1
  <2>2. CASE v # t
    BY <1>1, <1>2, <1>9, <2>2 DEF NoSole, Sole
  <2>. QED
    BY <2>1, <2>2
<1>10. ASSUME NEW u \in Threads, NEW v \in Threads, u # v
       PROVE  /\ ~(Allocating(u)' /\ Allocating(v)')
              /\ Busy(u)' /\ Busy(v)' => thread'[u].name # thread'[v].name
  <2>1. \A w \in Threads : Allocating(w) => Busy(w)
    BY DEF Allocating, Busy
  <2>2. Busy(t)' => thread'[t].name = thread[t].name
    BY DEF Busy
  <2>3. CASE u # t /\ v # t
    BY <1>1, <1>3, <1>10, <2>3 DEF OneAtATime
  <2>4. CASE u = t
    BY <1>1, <1>3, <1>7, <1>10, <2>1, <2>2, <2>4 DEF OneAtATime
  <2>5. CASE v = t
    BY <1>1, <1>3, <1>7, <1>10, <2>1, <2>2, <2>5 DEF OneAtATime
  <2>. QED
    BY <2>3, <2>4, <2>5
<1>. QED
  BY <1>8, <1>9, <1>10 DEF OneAtATime

LEMMA HeaderStaysSeen ==
  ASSUME Safe, OneAtATime, HeaderIsSeen, NEW t \in Threads, Moves(t), NoSole(t),
         HeaderSeenBy(t)', header' = header \/ Alone(t) \/ Allocating(t)
  PROVE  HeaderIsSeen'
<1>. SUFFICES ASSUME NEW u \in Threads, u # t PROVE HeaderSeenBy(u)'
  BY DEF HeaderIsSeen
<1>1. thread'[u] = thread[u] /\ HeaderSeenBy(u)
  BY OthersStay DEF Safe, HeaderIsSeen
<1>2. CASE header' = header
  BY <1>1, <1>2 DEF HeaderSeenBy
<1>3. CASE Alone(t)
  BY <1>1, <1>3 DEF HeaderSeenBy, Alone, Busy
<1>4. CASE Allocating(t)
  <2>1. ~Allocating(u) /\ thread[u].pc # "setRoot"
    BY <1>4, NotSole DEF OneAtATime, NoSole
  <2>. QED
    BY <1>1, <2>1 DEF HeaderSeenBy, Allocating
<1>. QED
  BY <1>2, <1>3, <1>4

\* A page that is taken stays so when the header only counts on.
LEMMA TakenStays ==
  ASSUME NEW p \in Nat, Taken(p), header.count \in Nat, header'.count \in Nat,
         header'.count >= header.count, header'.root = header.root
  PROVE  Taken(p)'
BY DEF Taken

\* t goes on, the map stays, and the header only counts on.
LEMMA OnePageStays ==
  ASSUME Safe, OneAtATime, OnePageEach, NEW t \in Threads, Moves(t), NoSole(t),
         header'.root = header.root, header'.count \in Nat, header'.count >= header.count,
         live' = live,
         failed' = failed \/ (Busy(t) /\ failed' = failed \cup {thread[t].name}),
         OwnPages(t)'
  PROVE  OnePageEach'
<1>1. header.count \in Nat /\ header.root \in Nat
  BY LocalsFacts DEF PageIds
<1>2. \A n \in DOMAIN live : Range(live[n].pages) \subseteq Nat
  <2>1. \A n \in DOMAIN live : live[n].pages \in Seq(PageIds)
    BY ConfigFacts DEF Safe, PagesExist
  <2>. QED
    BY <2>1 DEF Range, PageIds
<1>3. \A p \in Nat : Taken(p) => Taken(p)'
  BY <1>1, TakenStays
<1>4. \A p \in Nat : Unused(p) => Unused(p)'
  BY <1>3 DEF Unused
<1>5. ASSUME NEW u \in Threads, u # t PROVE OwnPages(u)'
  <2>1. thread'[u] = thread[u] /\ OwnPages(u) /\ ~Sole(u)
    BY <1>5, OthersStay DEF Safe, OnePageEach, NoSole
  <2>2. Creating(u)' = Creating(u) /\ Entered(u)' = Entered(u)
    BY <2>1 DEF Creating, Entered, Allocating
  <2>3. Creating(u) => /\ thread[u].name \notin DOMAIN live
                       /\ IsInjective(thread[u].got)
                       /\ \A p \in Range(thread[u].got) : Unused(p)'
    <3>1. Range(thread[u].got) \subseteq Nat
      BY LocalsFacts DEF Range, PageIds
    <3>. QED
      BY <1>4, <2>1, <3>1 DEF OwnPages
  <2>4. Entered(u) => /\ thread[u].name \in DOMAIN live \ failed'
                      /\ live[thread[u].name].pages = thread[u].got
    <3>1. Entered(u) => Busy(u)
      BY LocalsFacts DEF Entered, Busy, LocalsExist
    <3>2. Entered(u) /\ Busy(t) => thread[u].name # thread[t].name
      BY <1>5, <3>1 DEF OneAtATime
    <3>. QED
      BY <2>1, <3>2 DEF OwnPages
  <2>5. thread[u].pc \notin {"copy", "readRoot", "setRoot"}
    BY <2>1, NotSole
  <2>. QED
    BY <2>1, <2>2, <2>3, <2>4, <2>5 DEF OwnPages
<1>6. \A n \in DOMAIN live : IsInjective(live[n].pages) /\ \A p \in Range(live[n].pages) : Taken(p)'
  BY <1>2, <1>3 DEF OnePageEach
<1>7. header'.root < header'.count
  BY <1>1 DEF OnePageEach
<1>. QED
  BY <1>5, <1>6, <1>7 DEF OnePageEach

LEMMA OthersOnCatalog ==
  ASSUME Safe, CatalogIsListed, NEW t \in Threads, Moves(t), NoSole(t),
         header'.root = header.root \/ Alone(t), NEW u \in Threads, u # t
  PROVE  OnCatalog(u)'
<1>1. thread'[u] = thread[u] /\ OnCatalog(u) /\ ~Sole(u)
  BY OthersStay DEF Safe, CatalogIsListed, NoSole
<1>2. ~Removing(u)'
  BY <1>1, NotSole DEF Removing, Dropping
<1>3. /\ thread[u].pc \notin {"copy", "readRoot", "setRoot"}
      /\ thread[u].pc = "count" => thread[u].for = "collection"
  BY <1>1, NotSole DEF Allocating
<1>4. thread[u].pc = "append" => header'.root # 0 /\ thread[u].page = header'.root
  BY <1>1 DEF OnCatalog, Alone, Busy
<1>. QED
  BY <1>1, <1>2, <1>3, <1>4 DEF OnCatalog

\* What is on the catalog, but for what t is to take off.
RecordedBut(t) == {c \in Recorded : Removing(t) => c.name # thread[t].name}

LEMMA RecordedBefore ==
  ASSUME Safe, CatalogIsListed, NEW t \in Threads, NoSole(t)
  PROVE  RecordedBut(t) = Listed
<1>1. \A u \in Threads : u # t => ~Removing(u)
  BY NotSole DEF NoSole
<1>2. RecordedBut(t) = {c \in Recorded : \A u \in Threads : Removing(u) => c.name # thread[u].name}
  BY <1>1 DEF RecordedBut
<1>. QED
  BY <1>2 DEF CatalogIsListed

LEMMA CatalogStaysListed ==
  ASSUME Safe, CatalogIsListed, NEW t \in Threads, Moves(t), NoSole(t),
         header'.root = header.root \/ Alone(t), failed' \subseteq DOMAIN live',
         RecordedBut(t)' = Listed', OnCatalog(t)'
  PROVE  CatalogIsListed'
<1>1. \A u \in Threads : u # t => ~Removing(u)'
  BY OthersStay, NotSole DEF Safe, NoSole, Removing, Dropping
<1>2. RecordedBut(t)' = {c \in Recorded' : \A u \in Threads : Removing(u)' => c.name # thread'[u].name}
  BY <1>1 DEF RecordedBut
<1>3. \A u \in Threads : OnCatalog(u)'
  BY OthersOnCatalog
<1>. QED
  BY <1>2, <1>3 DEF CatalogIsListed

LEMMA SameListed ==
  ASSUME ToBeListed' = ToBeListed, \A n \in ToBeListed : live'[n] = live[n]
  PROVE  Listed' = Listed
BY DEF Listed

\* The catalog, the map and the part of t in them stay as they are.
LEMMA StillListed ==
  ASSUME Safe, CatalogIsListed, NEW t \in Threads, Moves(t), NoSole(t),
         header'.root = header.root, header.root # 0 => mem'[header.root] = mem[header.root],
         live' = live, failed' = failed,
         Removing(t)' = Removing(t), Pending(t)' = Pending(t),
         thread'[t].name = thread[t].name \/ (~Removing(t) /\ ~Pending(t))
  PROVE  RecordedBut(t)' = Listed' /\ Listed' = Listed
<1>1. \A u \in Threads : u # t => thread'[u] = thread[u]
  BY OthersStay DEF Safe
<1>2. \A u \in Threads : /\ Pending(u)' = Pending(u)
                         /\ Pending(u) => thread'[u].name = thread[u].name
  BY <1>1 DEF Pending, Entered, Creating, Allocating
<1>3. ToBeListed' = ToBeListed
  BY <1>2 DEF ToBeListed
<1>4. Listed' = Listed
  BY <1>3, SameListed
<1>5. Recorded' = Recorded
  BY DEF Recorded
<1>6. RecordedBut(t)' = RecordedBut(t)
  BY <1>5 DEF RecordedBut
<1>. QED
  BY <1>4, <1>6, RecordedBefore

LEMMA StaysOpen ==
  ASSUME ClosedIsOnDisk, NEW t \in Threads, Busy(t), phase' = phase
  PROVE  ClosedIsOnDisk'
BY DEF ClosedIsOnDisk, AllIdle

\* A step of a call that leaves the map alone, and the header but for its count.
LEMMA OrderStays ==
  ASSUME Safe, Order, NEW t \in Threads, Moves(t), Busy(t), phase' = phase, live' = live,
         failed' = failed \/ failed' = failed \cup {thread[t].name},
         failed' \subseteq DOMAIN live,
         \/ header' = header
         \/ /\ Allocating(t) /\ header'.root = header.root
            /\ header'.count \in Nat /\ header'.count >= header.count,
         thread'[t].pc = "idle" \/ thread'[t].name = thread[t].name,
         Allocating(t)' => Allocating(t) \/ Alone(t),
         Dropping(t)' => Dropping(t),
         thread'[t].for = "catalog" /\ thread'[t].pc \notin {"append", "flush"} =>
           header.root = 0,
         HeaderSeenBy(t)', OwnPages(t)', RecordedBut(t)' = Listed', OnCatalog(t)'
  PROVE  Order'
<1>1. /\ OneAtATime /\ HeaderIsSeen /\ OnePageEach /\ CatalogIsListed /\ ClosedIsOnDisk
      /\ header.count \in Nat
  BY LocalsFacts DEF Order, PageIds
<1>2. NoSole(t)
  BY <1>1, BesideTheBusy
<1>3. header'.root = header.root /\ header'.count \in Nat /\ header'.count >= header.count
  BY <1>1
<1>4. OneAtATime'
  BY <1>1, <1>3, OneAtATimeStays
<1>5. HeaderIsSeen'
  BY <1>1, <1>2, HeaderStaysSeen
<1>6. OnePageEach'
  BY <1>1, <1>2, <1>3, OnePageStays
<1>7. CatalogIsListed'
  BY <1>1, <1>2, <1>3, CatalogStaysListed
<1>8. ClosedIsOnDisk'
  BY <1>1, StaysOpen
<1>. QED
  BY <1>4, <1>5, <1>6, <1>7, <1>8 DEF Order

\* What the order says of a thread in a call.
LEMMA OrderFacts ==
  ASSUME Safe, Order, NEW t \in Threads
  PROVE  /\ LocalsExist(t) /\ HeaderSeenBy(t) /\ OwnPages(t) /\ OnCatalog(t)
         /\ failed \subseteq DOMAIN live /\ header.root < header.count
         /\ header.count \in Nat /\ header.count # 0 /\ header.root \in Nat
         /\ Busy(t) => NoSole(t)
         /\ Sole(t) => Alone(t)
         /\ header.root = 0 => ~Busy(t) \/ Alone(t)
BY LocalsFacts, BesideTheBusy, SoleIsAlone
   DEF Order, HeaderIsSeen, OnePageEach, CatalogIsListed, OneAtATime, PageIds

LEMMA TakeKeepsOrder ==
  ASSUME Safe, Order, NEW t \in Threads, Take(t)
  PROVE  Order'
<1>1. /\ thread[t].pc = "take" /\ Moves(t) /\ SameCall(t) /\ Quiet
      /\ thread'[t].pc = "store" /\ thread'[t].page = header.count
  BY TakeIs
<1>2. /\ HeaderSeenBy(t) /\ OwnPages(t) /\ OnCatalog(t) /\ NoSole(t) /\ CatalogIsListed
      /\ failed \subseteq DOMAIN live /\ Busy(t)
      /\ thread[t].for = "catalog" => header.root = 0
  BY <1>1, OrderFacts DEF Busy, Order, OneAtATime
<1>3. /\ Removing(t)' = Removing(t) /\ Pending(t)' = Pending(t) /\ Dropping(t)' = Dropping(t)
      /\ Creating(t)' = Creating(t) /\ Entered(t)' = Entered(t) /\ Allocating(t)
  BY <1>1 DEF Removing, Dropping, Pending, Entered, Creating, Allocating, SameCall
<1>4. RecordedBut(t)' = Listed' /\ Listed' = Listed
  BY <1>1, <1>2, <1>3, StillListed DEF Quiet, SameCall
<1>5. HeaderSeenBy(t)'
  BY <1>1 DEF HeaderSeenBy, Quiet
<1>6. OwnPages(t)'
  BY <1>1, <1>2, <1>3 DEF OwnPages, Quiet, SameCall, Unused, Taken
<1>7. OnCatalog(t)'
  BY <1>1, <1>2, <1>3, <1>4 DEF OnCatalog, Quiet, SameCall
<1>. QED
  BY <1>1, <1>2, <1>3, <1>4, <1>5, <1>6, <1>7, OrderStays DEF Quiet, SameCall

LEMMA StoreKeepsOrder ==
  ASSUME Safe, Order, NEW t \in Threads, Store(t)
  PROVE  Order'
<1>1. /\ thread[t].pc = "store" /\ Moves(t) /\ SameCall(t)
      /\ thread'[t].pc = "count" /\ thread'[t].page = thread[t].page /\ thread'[t].seen = header
      /\ UNCHANGED <<phase, header, live, failed>> /\ mem' = With(mem, thread[t].page, <<>>)
  BY StoreIs
<1>2. /\ HeaderSeenBy(t) /\ OwnPages(t) /\ OnCatalog(t) /\ NoSole(t) /\ CatalogIsListed
      /\ failed \subseteq DOMAIN live /\ Busy(t) /\ header.root < header.count
      /\ thread[t].for = "catalog" => header.root = 0
  BY <1>1, OrderFacts DEF Busy, Order, OneAtATime
<1>3. /\ Removing(t)' = Removing(t) /\ Pending(t)' = Pending(t) /\ Dropping(t)' = Dropping(t)
      /\ Creating(t)' = Creating(t) /\ Entered(t)' = Entered(t) /\ Allocating(t)
  BY <1>1 DEF Removing, Dropping, Pending, Entered, Creating, Allocating, SameCall
<1>4. thread[t].page = header.count /\ thread[t].page # header.root
  BY <1>1, <1>2, LocalsFacts DEF HeaderSeenBy, PageIds
<1>5. /\ mem'[thread[t].page] = <<>>
      /\ header.root # 0 => mem'[header.root] = mem[header.root]
  <2>1. header.root # 0 => header.root \in DOMAIN mem
    BY DEF Safe, PagesExist
  <2>. QED
    BY <1>1, <1>4, <2>1 DEF With
<1>6. RecordedBut(t)' = Listed' /\ Listed' = Listed
  BY <1>1, <1>2, <1>3, <1>5, StillListed DEF SameCall
<1>7. HeaderSeenBy(t)'
  BY <1>1, <1>4 DEF HeaderSeenBy
<1>8. OwnPages(t)'
  BY <1>1, <1>2, <1>3 DEF OwnPages, SameCall, Unused, Taken
<1>9. OnCatalog(t)'
  BY <1>1, <1>2, <1>3, <1>5, <1>6 DEF OnCatalog, SameCall
<1>. QED
  BY <1>1, <1>2, <1>3, <1>6, <1>7, <1>8, <1>9, OrderStays DEF SameCall

\* The page that was allocated is the one page_count named, and now it counts.
LEMMA Counted ==
  ASSUME Safe, Order, NEW t \in Threads, thread[t].pc = "count",
         header' = WithCount(thread[t].seen, thread[t].page)
  PROVE  /\ thread[t].page = header.count /\ header.count \in Nat
         /\ header'.root = header.root /\ header'.count = header.count + 1
         /\ \A p \in Nat : p = header.count => ~Taken(p) /\ Taken(p)'
         /\ \A p \in Nat : Taken(p) => Taken(p)'
         /\ \A n \in DOMAIN live : header.count \notin Range(live[n].pages)
<1>1. /\ thread[t].page = header.count /\ thread[t].seen = header
      /\ header.root < header.count /\ OnePageEach
  BY OrderFacts DEF HeaderSeenBy, Order
<1>2. header \in Headers /\ header.count \in Nat /\ header.root \in Nat
  BY LocalsFacts DEF PageIds
<1>3. header'.root = header.root /\ header'.count = header.count + 1
  <2>1. header'.root = thread[t].seen.root /\ header'.count = thread[t].page + 1
    BY LocalsFacts, CountWritten
  <2>. QED
    BY <1>1, <2>1
<1>4. \A p \in Nat : p = header.count => ~Taken(p) /\ Taken(p)'
  BY <1>1, <1>2, <1>3 DEF Taken
<1>5. \A p \in Nat : Taken(p) => Taken(p)'
  BY <1>2, <1>3 DEF Taken
<1>6. \A n \in DOMAIN live : header.count \notin Range(live[n].pages)
  BY <1>1, <1>2, <1>4 DEF OnePageEach
<1>. QED
  BY <1>1, <1>2, <1>3, <1>4, <1>5, <1>6

LEMMA CountedUnused ==
  ASSUME Safe, Order, NEW t \in Threads, thread[t].pc = "count",
         header' = WithCount(thread[t].seen, thread[t].page), live' = live
  PROVE  /\ \A p \in Nat : p = header.count => ~Unused(p) /\ Unused(p)'
         /\ \A p \in Nat : Unused(p) => Unused(p)'
BY Counted DEF Unused

LEMMA AllocatedForCatalogKeepsOrder ==
  ASSUME Safe, Order, NEW t \in Threads, AllocatedForCatalog(t)
  PROVE  Order'
<1>1. /\ thread[t].pc = "count" /\ thread[t].for = "catalog" /\ Moves(t) /\ SameCall(t)
      /\ header' = WithCount(thread[t].seen, thread[t].page)
      /\ UNCHANGED <<phase, mem, live, failed>>
      /\ thread'[t].pc = "readRoot" /\ thread'[t].page = thread[t].page
  BY AllocatedForCatalogIs
<1>2. /\ OwnPages(t) /\ OnCatalog(t) /\ NoSole(t) /\ CatalogIsListed
      /\ failed \subseteq DOMAIN live /\ Busy(t) /\ header.count \in Nat
      /\ header.root = 0
  BY <1>1, OrderFacts DEF Busy, Order, OneAtATime
<1>3. /\ Removing(t)' = Removing(t) /\ Pending(t)' = Pending(t) /\ Dropping(t)' = Dropping(t)
      /\ ~Creating(t)' /\ Entered(t)' = Entered(t) /\ Allocating(t) /\ ~Allocating(t)'
      /\ ~Removing(t)
  BY <1>1 DEF Removing, Dropping, Pending, Entered, Creating, Allocating, SameCall
<1>4. /\ header'.root = header.root /\ header'.count = header.count + 1
      /\ Unused(thread[t].page)'
  <2>1. /\ header'.root = header.root /\ header'.count = header.count + 1
        /\ thread'[t].page = header.count /\ header.count \in Nat
    BY <1>1, Counted
  <2>2. \A p \in Nat : p = header.count => Unused(p)'
    BY <1>1, CountedUnused
  <2>. QED
    BY <2>1, <2>2
<1>5. RecordedBut(t)' = Listed' /\ Listed' = Listed
  BY <1>1, <1>2, <1>3, <1>4, StillListed DEF SameCall
<1>6. HeaderSeenBy(t)'
  BY <1>1 DEF HeaderSeenBy
<1>7. OwnPages(t)'
  BY <1>1, <1>2, <1>3, <1>4 DEF OwnPages, SameCall
<1>8. OnCatalog(t)'
  <2>1. mem[thread[t].page] = <<>>
    BY <1>1, <1>2 DEF OnCatalog
  <2>2. Range(mem'[thread'[t].page]) = {}
    BY <1>1, <2>1 DEF Range
  <2>. QED
    BY <1>1, <1>3, <2>2 DEF OnCatalog, SameCall
<1>. QED
  BY <1>1, <1>2, <1>3, <1>4, <1>5, <1>6, <1>7, <1>8, OrderStays DEF SameCall

LEMMA AllocatedForRebuildKeepsOrder ==
  ASSUME Safe, Order, NEW t \in Threads, AllocatedForRebuild(t)
  PROVE  Order'
<1>1. /\ thread[t].pc = "count" /\ thread[t].for = "rebuild" /\ Moves(t) /\ SameCall(t)
      /\ header' = WithCount(thread[t].seen, thread[t].page)
      /\ UNCHANGED <<phase, mem, live, failed>>
      /\ thread'[t].pc = "copy" /\ thread'[t].page = thread[t].page
  BY AllocatedForRebuildIs
<1>2. /\ OwnPages(t) /\ OnCatalog(t) /\ NoSole(t) /\ CatalogIsListed
      /\ failed \subseteq DOMAIN live /\ Busy(t) /\ header.count \in Nat
  BY <1>1, OrderFacts DEF Busy, Order, OneAtATime
<1>3. /\ Removing(t)' = Removing(t) /\ Pending(t)' = Pending(t) /\ Dropping(t)' = Dropping(t)
      /\ ~Creating(t)' /\ ~Entered(t)' /\ Allocating(t) /\ ~Allocating(t)'
  BY <1>1 DEF Removing, Dropping, Pending, Entered, Creating, Allocating, SameCall
<1>4. /\ header'.root = header.root /\ header'.count = header.count + 1
      /\ Unused(thread[t].page)'
  <2>1. /\ header'.root = header.root /\ header'.count = header.count + 1
        /\ thread'[t].page = header.count /\ header.count \in Nat
    BY <1>1, Counted
  <2>2. \A p \in Nat : p = header.count => Unused(p)'
    BY <1>1, CountedUnused
  <2>. QED
    BY <2>1, <2>2
<1>5. RecordedBut(t)' = Listed' /\ Listed' = Listed
  BY <1>1, <1>2, <1>3, <1>4, StillListed DEF SameCall
<1>6. HeaderSeenBy(t)'
  BY <1>1 DEF HeaderSeenBy
<1>7. OwnPages(t)'
  BY <1>1, <1>3, <1>4 DEF OwnPages
<1>8. OnCatalog(t)'
  BY <1>1, <1>2, <1>3, <1>5 DEF OnCatalog, SameCall
<1>. QED
  BY <1>1, <1>2, <1>3, <1>4, <1>5, <1>6, <1>7, <1>8, OrderStays DEF SameCall

LEMMA EnsureFoundKeepsOrder ==
  ASSUME Safe, Order, NEW t \in Threads, EnsureFound(t)
  PROVE  Order'
<1>1. /\ thread[t].pc = "ensure" /\ Moves(t) /\ SameCall(t) /\ Quiet
      /\ header.root # 0
      /\ thread'[t].pc = "append" /\ thread'[t].page = header.root
  BY EnsureFoundIs
<1>2. /\ OwnPages(t) /\ OnCatalog(t) /\ NoSole(t) /\ CatalogIsListed /\ LocalsExist(t)
      /\ failed \subseteq DOMAIN live /\ Busy(t)
  BY <1>1, OrderFacts DEF Busy, Order
<1>3. /\ Removing(t)' = Removing(t) /\ Pending(t)' = Pending(t) /\ Dropping(t)' = Dropping(t)
      /\ ~Creating(t)' /\ Entered(t)' = Entered(t) /\ ~Allocating(t)'
      /\ ~Removing(t)
  BY <1>1, <1>2 DEF Removing, Dropping, Pending, Entered, Creating, Allocating, SameCall,
     LocalsExist
<1>4. RecordedBut(t)' = Listed' /\ Listed' = Listed
  BY <1>1, <1>2, <1>3, StillListed DEF Quiet, SameCall
<1>5. HeaderSeenBy(t)'
  BY <1>1 DEF HeaderSeenBy
<1>6. OwnPages(t)'
  BY <1>1, <1>2, <1>3 DEF OwnPages, Quiet, SameCall
<1>7. OnCatalog(t)'
  BY <1>1, <1>3 DEF OnCatalog, Quiet, SameCall
<1>. QED
  BY <1>1, <1>2, <1>3, <1>4, <1>5, <1>6, <1>7, OrderStays DEF Quiet, SameCall

LEMMA EnsureAllocatesKeepsOrder ==
  ASSUME Safe, Order, NEW t \in Threads, EnsureAllocates(t)
  PROVE  Order'
<1>1. /\ thread[t].pc = "ensure" /\ header.root = 0 /\ Moves(t) /\ Quiet
      /\ thread'[t].pc = "take" /\ thread'[t].for = "catalog"
      /\ thread'[t].name = thread[t].name /\ thread'[t].got = thread[t].got
  BY EnsureAllocatesIs
<1>2. /\ OwnPages(t) /\ NoSole(t) /\ CatalogIsListed /\ thread[t].for = "collection"
      /\ failed \subseteq DOMAIN live /\ Busy(t) /\ Alone(t)
  BY <1>1, OrderFacts DEF Busy, Order, LocalsExist
<1>3. /\ ~Removing(t) /\ ~Removing(t)' /\ Pending(t) /\ Pending(t)' /\ ~Dropping(t)'
      /\ ~Creating(t)' /\ Entered(t)' /\ Entered(t)
      /\ Removing(t)' = Removing(t) /\ Pending(t)' = Pending(t)
  BY <1>1, <1>2 DEF Removing, Dropping, Pending, Entered, Creating, Allocating
<1>4. RecordedBut(t)' = Listed' /\ Listed' = Listed
  BY <1>1, <1>2, <1>3, StillListed DEF Quiet
<1>5. HeaderSeenBy(t)'
  BY <1>1 DEF HeaderSeenBy
<1>6. OwnPages(t)'
  BY <1>1, <1>2, <1>3 DEF OwnPages, Quiet
<1>7. OnCatalog(t)'
  BY <1>1, <1>3 DEF OnCatalog
<1>. QED
  BY <1>1, <1>2, <1>3, <1>4, <1>5, <1>6, <1>7, OrderStays DEF Quiet

LEMMA ReadRootKeepsOrder ==
  ASSUME Safe, Order, NEW t \in Threads, ReadRoot(t)
  PROVE  Order'
<1>1. /\ thread[t].pc = "readRoot" /\ Moves(t) /\ SameCall(t) /\ Quiet
      /\ thread'[t].pc = "setRoot" /\ thread'[t].page = thread[t].page
      /\ thread'[t].seen = header
  BY ReadRootIs
<1>2. /\ OwnPages(t) /\ OnCatalog(t) /\ NoSole(t) /\ CatalogIsListed
      /\ failed \subseteq DOMAIN live /\ Busy(t)
      /\ thread[t].for = "catalog" => header.root = 0
  BY <1>1, OrderFacts DEF Busy, Order, OneAtATime
<1>3. /\ Removing(t)' = Removing(t) /\ Pending(t)' = Pending(t) /\ Dropping(t)' = Dropping(t)
      /\ ~Creating(t)' /\ Entered(t)' = Entered(t) /\ ~Allocating(t)'
  BY <1>1 DEF Removing, Dropping, Pending, Entered, Creating, Allocating, SameCall
<1>4. RecordedBut(t)' = Listed' /\ Listed' = Listed
  BY <1>1, <1>2, <1>3, StillListed DEF Quiet, SameCall
<1>5. HeaderSeenBy(t)'
  BY <1>1 DEF HeaderSeenBy, Quiet
<1>6. OwnPages(t)'
  BY <1>1, <1>2, <1>3 DEF OwnPages, Quiet, SameCall, Unused, Taken
<1>7. OnCatalog(t)'
  BY <1>1, <1>2, <1>3, <1>4 DEF OnCatalog, Quiet, SameCall
<1>. QED
  BY <1>1, <1>2, <1>3, <1>4, <1>5, <1>6, <1>7, OrderStays DEF Quiet, SameCall

\* One more root page of the collection that t creates.
LEMMA RootPagesGrow ==
  ASSUME Safe, Order, NEW t \in Threads, AllocatedForCollection(t)
  PROVE  /\ thread[t].pc = "count" /\ Creating(t) /\ OwnPages(t)
         /\ thread[t].name \notin DOMAIN live /\ thread[t].name \notin failed
         /\ IsInjective(thread'[t].got) /\ Range(thread'[t].got) \subseteq Nat
         /\ \A p \in Range(thread'[t].got) :
              Taken(p)' /\ \A n \in DOMAIN live : p \notin Range(live[n].pages)
<1>1. /\ thread[t].pc = "count" /\ thread[t].for = "collection"
      /\ header' = WithCount(thread[t].seen, thread[t].page)
      /\ thread'[t].got = Append(thread[t].got, thread[t].page)
      /\ Range(thread'[t].got) = Range(thread[t].got) \cup {thread[t].page}
  BY AllocatedForCollectionIs
<1>2. Creating(t) /\ OwnPages(t) /\ failed \subseteq DOMAIN live
  BY <1>1, OrderFacts DEF Creating, Allocating
<1>3. /\ thread[t].got \in Seq(PageIds) /\ thread[t].page \in PageIds
      /\ Range(thread[t].got) \subseteq Nat
  <2>1. thread[t].got \in Seq(PageIds)
    BY LocalsFacts
  <2>2. thread[t].page \in DOMAIN mem /\ DOMAIN mem \subseteq PageIds
    BY <1>1, LocalsFacts DEF LocalsExist, AtPage, Safe, TypeOK
  <2>. QED
    BY <2>1, <2>2 DEF Range, PageIds
<1>4. PICK page \in PageIds : page = thread[t].page
  BY <1>3
<1>5. /\ page \in Nat /\ page = header.count /\ ~Taken(page) /\ Taken(page)'
      /\ \A p \in Nat : Taken(p) => Taken(p)'
      /\ \A n \in DOMAIN live : page \notin Range(live[n].pages)
  <2>1. page \in Nat
    BY <1>4 DEF PageIds
  <2>. QED
    BY <1>1, <1>4, <2>1, Counted
<1>6. \A p \in Range(thread[t].got) : Unused(p)
  BY <1>2 DEF OwnPages
<1>7. page \notin Range(thread[t].got)
  BY <1>5, <1>6 DEF Unused
<1>8. IsInjective(thread'[t].got)
  <2>1. IsInjective(Append(thread[t].got, page))
    BY <1>2, <1>3, <1>7, AppendedRange DEF OwnPages
  <2>. QED
    BY <1>1, <1>4, <2>1
<1>9. ASSUME NEW p \in Range(thread'[t].got)
      PROVE  p \in Nat /\ Taken(p)' /\ \A n \in DOMAIN live : p \notin Range(live[n].pages)
  <2>1. CASE p = page
    BY <1>5, <2>1
  <2>2. CASE p # page
    <3>1. p \in Range(thread[t].got)
      BY <1>1, <1>4, <1>9, <2>2
    <3>. QED
      BY <1>3, <1>5, <1>6, <3>1 DEF Unused
  <2>. QED
    BY <2>1, <2>2
<1>. QED
  BY <1>1, <1>2, <1>8, <1>9 DEF OwnPages

LEMMA NextRootPageKeepsOrder ==
  ASSUME Safe, Order, NEW t \in Threads, AllocatedForCollection(t), thread'[t].pc = "take",
         live' = live
  PROVE  Order'
<1>1. /\ thread[t].pc = "count" /\ thread[t].for = "collection" /\ Moves(t)
      /\ header' = WithCount(thread[t].seen, thread[t].page)
      /\ UNCHANGED <<phase, mem, failed>>
      /\ thread'[t].for = "collection" /\ thread'[t].name = thread[t].name
  BY AllocatedForCollectionIs
<1>2. /\ NoSole(t) /\ CatalogIsListed /\ failed \subseteq DOMAIN live /\ Busy(t)
  BY <1>1, OrderFacts DEF Busy, Order
<1>3. /\ ~Removing(t) /\ ~Removing(t)' /\ ~Dropping(t)'
      /\ Removing(t)' = Removing(t) /\ Pending(t)' = Pending(t)
      /\ Creating(t)' /\ ~Entered(t)' /\ Allocating(t)
  BY <1>1 DEF Removing, Dropping, Pending, Entered, Creating, Allocating
<1>4. /\ header'.root = header.root /\ header'.count \in Nat /\ header'.count >= header.count
  BY <1>1, Counted
<1>5. RecordedBut(t)' = Listed' /\ Listed' = Listed
  BY <1>1, <1>2, <1>3, <1>4, StillListed
<1>6. HeaderSeenBy(t)'
  BY DEF HeaderSeenBy
<1>7. OwnPages(t)'
  <2>1. /\ thread[t].name \notin DOMAIN live /\ IsInjective(thread'[t].got)
        /\ \A p \in Range(thread'[t].got) : Unused(p)'
    BY RootPagesGrow DEF Unused
  <2>. QED
    BY <1>1, <1>3, <2>1 DEF OwnPages
<1>8. OnCatalog(t)'
  BY <1>3 DEF OnCatalog
<1>. QED
  BY <1>1, <1>2, <1>3, <1>4, <1>5, <1>6, <1>7, <1>8, OrderStays

\* The collection with all its root pages, in the map.
LEMMA EnteredOnePageEach ==
  ASSUME Safe, Order, NEW t \in Threads, AllocatedForCollection(t), thread'[t].pc = "ensure",
         live' = With(live, thread[t].name, [name |-> thread[t].name, pages |-> thread'[t].got])
  PROVE  OnePageEach'
<1>1. /\ thread[t].pc = "count" /\ thread[t].for = "collection" /\ Moves(t)
      /\ header' = WithCount(thread[t].seen, thread[t].page) /\ failed' = failed
      /\ thread'[t].for = "collection" /\ thread'[t].name = thread[t].name
  BY AllocatedForCollectionIs
<1>2. PICK n, got : n = thread[t].name /\ got = thread'[t].got
  OBVIOUS
<1>3. /\ n \notin DOMAIN live /\ n \notin failed /\ IsInjective(got) /\ Range(got) \subseteq Nat
      /\ \A p \in Range(got) : Taken(p)' /\ \A m \in DOMAIN live : p \notin Range(live[m].pages)
  BY <1>2, RootPagesGrow
<1>4. /\ DOMAIN live' = DOMAIN live \cup {n} /\ live'[n].pages = got
      /\ \A m \in DOMAIN live : m # n => live'[m] = live[m]
  <2>1. PICK c : c = [name |-> n, pages |-> got]
    OBVIOUS
  <2>2. live' = With(live, n, c) /\ c.pages = got
    BY <1>2, <2>1
  <2>. QED
    BY <2>2 DEF With
<1>5. /\ OnePageEach /\ NoSole(t) /\ Busy(t) /\ OneAtATime /\ Allocating(t)
  BY <1>1, OrderFacts DEF Order, Busy, Allocating
<1>6. header'.root < header'.count /\ \A p \in Nat : Taken(p) => Taken(p)'
  <2>1. header.root < header.count /\ header.root \in Nat
    BY <1>5, LocalsFacts DEF OnePageEach
  <2>. QED
    BY <1>1, <2>1, Counted
<1>7. \A m \in DOMAIN live : Range(live[m].pages) \subseteq Nat
  <2>1. \A m \in DOMAIN live : live[m].pages \in Seq(PageIds)
    BY ConfigFacts DEF Safe, PagesExist
  <2>. QED
    BY <2>1 DEF Range, PageIds
<1>8. \A m \in DOMAIN live' : IsInjective(live'[m].pages) /\ \A p \in Range(live'[m].pages) : Taken(p)'
  <2>1. \A m \in DOMAIN live :
          IsInjective(live[m].pages) /\ \A p \in Range(live[m].pages) : Taken(p)'
    BY <1>5, <1>6, <1>7 DEF OnePageEach
  <2>. QED
    BY <1>3, <1>4, <2>1
<1>9. \A l, m \in DOMAIN live' : l # m => Range(live'[l].pages) \cap Range(live'[m].pages) = {}
  <2>1. \A l, m \in DOMAIN live : l # m => Range(live[l].pages) \cap Range(live[m].pages) = {}
    BY <1>5 DEF OnePageEach
  <2>2. \A m \in DOMAIN live : Range(live[m].pages) \cap Range(got) = {}
    BY <1>3
  <2>. QED
    BY <1>3, <1>4, <2>1, <2>2
<1>10. OwnPages(t)'
  <2>1. ~Creating(t)'
    BY <1>1 DEF Creating, Allocating
  <2>2. thread'[t].name \in DOMAIN live' \ failed' /\ live'[thread'[t].name].pages = thread'[t].got
    BY <1>1, <1>2, <1>3, <1>4
  <2>. QED
    BY <2>1, <2>2 DEF OwnPages
<1>11. ASSUME NEW u \in Threads, u # t PROVE OwnPages(u)'
  <2>1. thread'[u] = thread[u] /\ OwnPages(u) /\ ~Sole(u)
    BY <1>1, <1>5, <1>11, OthersStay DEF Safe, OnePageEach, NoSole
  <2>2. ~Creating(u)' /\ Entered(u)' = Entered(u)
    BY <1>5, <1>11, <2>1 DEF Creating, Entered, Allocating, OneAtATime
  <2>3. Entered(u) => Busy(u)
    BY LocalsFacts DEF Entered, Busy, LocalsExist
  <2>4. Entered(u) => thread[u].name # n
    BY <1>2, <1>5, <1>11, <2>3 DEF OneAtATime
  <2>5. Entered(u) => /\ thread[u].name \in DOMAIN live' \ failed'
                      /\ live'[thread[u].name].pages = thread[u].got
    BY <1>1, <1>4, <2>1, <2>4 DEF OwnPages
  <2>6. thread[u].pc \notin {"copy", "readRoot", "setRoot"}
    BY <2>1, NotSole
  <2>. QED
    BY <2>1, <2>2, <2>5, <2>6 DEF OwnPages
<1>. QED
  BY <1>6, <1>8, <1>9, <1>10, <1>11 DEF OnePageEach

LEMMA EnteredKeepsOrder ==
  ASSUME Safe, Order, NEW t \in Threads, AllocatedForCollection(t), thread'[t].pc = "ensure",
         live' = With(live, thread[t].name, [name |-> thread[t].name, pages |-> thread'[t].got])
  PROVE  Order'
<1>1. /\ thread[t].pc = "count" /\ thread[t].for = "collection" /\ Moves(t)
      /\ header' = WithCount(thread[t].seen, thread[t].page)
      /\ UNCHANGED <<phase, mem, failed>>
      /\ thread'[t].for = "collection" /\ thread'[t].name = thread[t].name
  BY AllocatedForCollectionIs
<1>2. /\ NoSole(t) /\ CatalogIsListed /\ failed \subseteq DOMAIN live /\ Busy(t)
      /\ OneAtATime /\ HeaderIsSeen /\ ClosedIsOnDisk
  BY <1>1, OrderFacts DEF Busy, Order
<1>3. /\ ~Removing(t) /\ ~Removing(t)' /\ ~Dropping(t)' /\ ~Pending(t) /\ Pending(t)'
      /\ ~Allocating(t)' /\ Allocating(t)
  BY <1>1 DEF Removing, Dropping, Pending, Entered, Creating, Allocating
<1>4. /\ header'.root = header.root /\ header'.count \in Nat /\ header'.count >= header.count
  BY <1>1, Counted
<1>5. PICK n, c : n = thread[t].name /\ live' = With(live, n, c)
  OBVIOUS
<1>6. /\ DOMAIN live' = DOMAIN live \cup {n} /\ \A m \in DOMAIN live : m # n => live'[m] = live[m]
      /\ n \notin DOMAIN live
  BY <1>5, RootPagesGrow DEF With
<1>7. Listed' = Listed
  <2>1. \A u \in Threads : u # t =>
          Pending(u)' = Pending(u) /\ thread'[u].name = thread[u].name
    BY <1>1, OthersStay DEF Safe, Pending, Entered, Creating, Allocating
  <2>2. ToBeListed' = ToBeListed
    <3>1. ASSUME NEW m PROVE m \in ToBeListed' <=> m \in ToBeListed
      <4>1. CASE m = n
        BY <1>1, <1>3, <1>5, <1>6, <4>1 DEF ToBeListed
      <4>2. CASE m # n
        BY <1>1, <1>3, <1>5, <1>6, <2>1, <4>2 DEF ToBeListed
      <4>. QED
        BY <4>1, <4>2
    <3>. QED
      BY <3>1
  <2>3. \A m \in ToBeListed : live'[m] = live[m]
    BY <1>6 DEF ToBeListed
  <2>. QED
    BY <2>2, <2>3, SameListed
<1>8. RecordedBut(t)' = RecordedBut(t)
  <2>1. Recorded' = Recorded
    BY <1>1, <1>4 DEF Recorded
  <2>. QED
    BY <1>3, <2>1 DEF RecordedBut
<1>9. HeaderSeenBy(t)' /\ OnCatalog(t)'
  BY <1>3 DEF HeaderSeenBy, OnCatalog
<1>10. RecordedBut(t)' = Listed'
  BY <1>2, <1>7, <1>8, RecordedBefore
<1>11. failed' \subseteq DOMAIN live'
  BY <1>1, <1>2, <1>6
<1>12. OneAtATime'
  BY <1>1, <1>2, <1>3, <1>4, OneAtATimeStays
<1>13. HeaderIsSeen'
  BY <1>1, <1>2, <1>3, <1>9, HeaderStaysSeen
<1>14. CatalogIsListed'
  BY <1>1, <1>2, <1>4, <1>9, <1>10, <1>11, CatalogStaysListed
<1>15. OnePageEach' /\ ClosedIsOnDisk'
  BY <1>1, <1>2, EnteredOnePageEach, StaysOpen
<1>. QED
  BY <1>12, <1>13, <1>14, <1>15 DEF Order

LEMMA AllocatedForCollectionKeepsOrder ==
  ASSUME Safe, Order, NEW t \in Threads, AllocatedForCollection(t)
  PROVE  Order'
BY AllocatedForCollectionIs, NextRootPageKeepsOrder, EnteredKeepsOrder

\* The configuration of t, once appended, is one to be listed.
LEMMA ListedWithOwn ==
  ASSUME Safe, Order, NEW t \in Threads, thread[t].pc = "append", Moves(t),
         thread'[t].pc = "flush", thread'[t].for = thread[t].for,
         live' = live, failed' = failed
  PROVE  Listed' = Listed \cup {[name |-> thread[t].name, pages |-> thread[t].got]}
<1>1. /\ LocalsExist(t) /\ OwnPages(t) /\ Busy(t) /\ OneAtATime
      /\ thread[t].for \in {"none", "collection", "catalog", "rebuild"}
  BY OrderFacts, LocalsFacts DEF Busy, Order, Locals
<1>2. Entered(t) /\ Pending(t) /\ ~Pending(t)'
  BY <1>1 DEF Pending, Entered, Creating, Allocating, LocalsExist
<1>3. PICK n, c : n = thread[t].name /\ c = [name |-> thread[t].name, pages |-> thread[t].got]
  OBVIOUS
<1>4. n \in DOMAIN live \ failed /\ live[n] = c
  <2>1. n \in DOMAIN live \ failed /\ live[n].pages = thread[t].got
    BY <1>1, <1>2, <1>3 DEF OwnPages
  <2>2. live[n] \in Configs /\ live[n].name = n
    BY <2>1, ConfigFacts DEF Safe, PagesExist
  <2>. QED
    BY <1>3, <2>1, <2>2 DEF Configs
<1>5. \A u \in Threads : u # t =>
        Pending(u)' = Pending(u) /\ thread'[u].name = thread[u].name
  BY OthersStay DEF Safe, Pending, Entered, Creating, Allocating
<1>6. \A u \in Threads : u # t => (Pending(u) => thread[u].name # n)
  <2>1. \A u \in Threads : Pending(u) => Busy(u)
    BY LocalsFacts DEF Pending, Entered, Busy, LocalsExist
  <2>. QED
    BY <1>1, <1>3, <2>1 DEF OneAtATime
<1>7. ToBeListed' = ToBeListed \cup {n}
  <2>1. ASSUME NEW m PROVE m \in ToBeListed' <=> m \in ToBeListed \cup {n}
    <3>1. CASE m = n
      BY <1>2, <1>4, <1>5, <1>6, <3>1 DEF ToBeListed
    <3>2. CASE m # n
      BY <1>2, <1>3, <1>5, <3>2 DEF ToBeListed
    <3>. QED
      BY <3>1, <3>2
  <2>. QED
    BY <2>1
<1>. QED
  BY <1>3, <1>4, <1>7 DEF Listed

LEMMA AppendConfigKeepsOrder ==
  ASSUME Safe, Order, NEW t \in Threads, AppendConfig(t)
  PROVE  Order'
<1>1. /\ thread[t].pc = "append" /\ Moves(t) /\ SameCall(t)
      /\ mem' = [mem EXCEPT ![thread[t].page] =
                   Append(@, [name |-> thread[t].name, pages |-> thread[t].got])]
      /\ UNCHANGED <<phase, header, live, failed>>
      /\ thread'[t].pc = "flush" /\ thread'[t].page = thread[t].page
  BY AppendConfigIs
<1>2. /\ LocalsExist(t) /\ OwnPages(t) /\ OnCatalog(t) /\ NoSole(t) /\ CatalogIsListed
      /\ failed \subseteq DOMAIN live /\ Busy(t)
  BY <1>1, OrderFacts DEF Busy, Order
<1>3. /\ ~Removing(t) /\ ~Removing(t)' /\ ~Dropping(t) /\ ~Dropping(t)'
      /\ ~Creating(t)' /\ Entered(t)' = Entered(t) /\ ~Allocating(t)'
  BY <1>1, <1>2 DEF Removing, Dropping, Entered, Creating, Allocating, SameCall, LocalsExist
<1>4. PICK c \in ConfigsOn(DOMAIN mem) : c = [name |-> thread[t].name, pages |-> thread[t].got]
  BY <1>1, OwnConfig
<1>5. /\ header.root # 0 /\ thread[t].page = header.root /\ header.root \in DOMAIN mem
  BY <1>1, <1>2 DEF OnCatalog, LocalsExist, AtPage
<1>6. Recorded' = Recorded \cup {c}
  <2>1. PICK s : s = mem[header.root]
    OBVIOUS
  <2>2. s \in Seq(ConfigsOn(DOMAIN mem))
    BY <1>5, <2>1 DEF Safe, PagesExist, GoodPage
  <2>3. mem'[header.root] = Append(s, c)
    BY <1>1, <1>4, <1>5, <2>1
  <2>4. Range(Append(s, c)) = Range(s) \cup {c}
    BY <1>4, <2>2, AppendedRange
  <2>. QED
    BY <1>1, <1>5, <2>1, <2>3, <2>4 DEF Recorded
<1>7. Listed' = Listed \cup {c}
  BY <1>1, <1>4, ListedWithOwn DEF SameCall
<1>8. RecordedBut(t)' = Listed'
  <2>1. RecordedBut(t) = Listed
    BY <1>2, RecordedBefore
  <2>2. RecordedBut(t) = Recorded /\ RecordedBut(t)' = Recorded'
    BY <1>3 DEF RecordedBut
  <2>. QED
    BY <1>6, <1>7, <2>1, <2>2
<1>9. HeaderSeenBy(t)'
  BY <1>1 DEF HeaderSeenBy
<1>10. OwnPages(t)'
  BY <1>1, <1>2, <1>3 DEF OwnPages, SameCall
<1>11. OnCatalog(t)'
  BY <1>1, <1>3 DEF OnCatalog
<1>. QED
  BY <1>1, <1>2, <1>3, <1>8, <1>9, <1>10, <1>11, OrderStays DEF SameCall

\* A call that has ended asks nothing.
LEMMA EndedIsInOrder ==
  ASSUME NEW t \in Threads, thread'[t].pc = "idle", thread'[t].for = "none"
  PROVE  /\ ~Allocating(t)' /\ ~Dropping(t)' /\ ~Removing(t)' /\ ~Pending(t)'
         /\ HeaderSeenBy(t)' /\ OwnPages(t)' /\ OnCatalog(t)'
BY DEF Allocating, Dropping, Removing, Pending, Entered, Creating, HeaderSeenBy, OwnPages,
   OnCatalog

LEMMA CatalogFullKeepsOrder ==
  ASSUME Safe, Order, NEW t \in Threads, CatalogFull(t)
  PROVE  Order'
<1>1. /\ thread[t].pc = "append" /\ Moves(t)
      /\ thread'[t].pc = "idle" /\ thread'[t].for = "none"
      /\ failed' = failed \cup {thread[t].name}
      /\ UNCHANGED <<phase, header, mem, live>>
  BY ReturnIs DEF CatalogFull
<1>2. /\ LocalsExist(t) /\ OwnPages(t) /\ NoSole(t) /\ CatalogIsListed
      /\ failed \subseteq DOMAIN live /\ Busy(t)
      /\ thread[t].for \in {"none", "collection", "catalog", "rebuild"}
  BY <1>1, OrderFacts, LocalsFacts DEF Busy, Order, Locals
<1>3. Entered(t) /\ Pending(t) /\ ~Removing(t)
  BY <1>1, <1>2 DEF Removing, Dropping, Pending, Entered, Creating, Allocating, LocalsExist
<1>4. thread[t].name \in DOMAIN live
  BY <1>2, <1>3 DEF OwnPages
<1>5. Listed' = Listed
  <2>1. \A u \in Threads : u # t =>
          Pending(u)' = Pending(u) /\ thread'[u].name = thread[u].name
    BY <1>1, OthersStay DEF Safe, Pending, Entered, Creating, Allocating
  <2>2. ~Pending(t)'
    BY <1>1, EndedIsInOrder
  <2>3. ASSUME NEW m PROVE m \in ToBeListed' <=> m \in ToBeListed
    <3>1. CASE m = thread[t].name
      BY <1>1, <1>3, <3>1 DEF ToBeListed
    <3>2. CASE m # thread[t].name
      BY <1>1, <2>1, <2>2, <3>2 DEF ToBeListed
    <3>. QED
      BY <3>1, <3>2
  <2>4. ToBeListed' = ToBeListed
    BY <2>3
  <2>. QED
    BY <1>1, <2>4, SameListed
<1>6. RecordedBut(t)' = Listed'
  <2>1. Recorded' = Recorded /\ RecordedBut(t) = Listed
    BY <1>1, <1>2, RecordedBefore DEF Recorded
  <2>2. RecordedBut(t) = Recorded /\ RecordedBut(t)' = Recorded'
    BY <1>1, <1>3, EndedIsInOrder DEF RecordedBut
  <2>. QED
    BY <1>5, <2>1, <2>2
<1>7. failed' \subseteq DOMAIN live
  BY <1>1, <1>2, <1>4
<1>. QED
  BY <1>1, <1>2, <1>6, <1>7, EndedIsInOrder, OrderStays

LEMMA FlushPageKeepsOrder ==
  ASSUME Safe, Order, NEW t \in Threads, FlushPage(t)
  PROVE  Order'
<1>1. /\ thread[t].pc = "flush" /\ Moves(t)
      /\ thread'[t].pc = "idle" /\ thread'[t].for = "none"
      /\ UNCHANGED <<phase, header, mem, live, failed>>
  BY ReturnIs DEF FlushPage
<1>2. /\ NoSole(t) /\ CatalogIsListed /\ failed \subseteq DOMAIN live /\ Busy(t)
  BY <1>1, OrderFacts DEF Busy, Order
<1>3. /\ ~Removing(t) /\ ~Pending(t)
  BY <1>1 DEF Removing, Pending
<1>4. Removing(t)' = Removing(t) /\ Pending(t)' = Pending(t)
  BY <1>1, <1>3, EndedIsInOrder DEF Removing, Pending
<1>5. RecordedBut(t)' = Listed'
  BY <1>1, <1>2, <1>3, <1>4, StillListed
<1>. QED
  BY <1>1, <1>2, <1>5, EndedIsInOrder, OrderStays

\* Without a catalog page nothing is listed, so nothing has to be taken off.
LEMMA NoCatalogKeepsOrder ==
  ASSUME Safe, Order, NEW t \in Threads, NoCatalog(t)
  PROVE  Order'
<1>1. /\ thread[t].pc = "oldRoot" /\ header.root = 0 /\ Moves(t)
      /\ thread'[t].pc = "idle" /\ thread'[t].for = "none"
      /\ UNCHANGED <<phase, header, mem, live, failed>>
  BY ReturnIs DEF NoCatalog
<1>2. /\ LocalsExist(t) /\ NoSole(t) /\ CatalogIsListed /\ failed \subseteq DOMAIN live
      /\ Busy(t)
  BY <1>1, OrderFacts DEF Busy, Order
<1>3. ~Pending(t)
  BY <1>1, <1>2 DEF Pending, Entered, LocalsExist
<1>4. ~Pending(t)' /\ ~Removing(t)'
  BY <1>1, EndedIsInOrder
<1>5. Listed' = Listed
  <2>1. \A u \in Threads : Pending(u)' = Pending(u) /\ (Pending(u) => thread'[u].name = thread[u].name)
    BY <1>1, <1>3, <1>4, OthersStay DEF Safe, Pending, Entered, Creating, Allocating
  <2>2. ToBeListed' = ToBeListed
    BY <1>1, <2>1 DEF ToBeListed
  <2>. QED
    BY <1>1, <2>2, SameListed
<1>6. RecordedBut(t)' = Listed'
  <2>1. Recorded = {} /\ Recorded' = {}
    BY <1>1 DEF Recorded
  <2>2. RecordedBut(t) = Listed /\ RecordedBut(t) = {} /\ RecordedBut(t)' = {}
    BY <1>2, <2>1, RecordedBefore DEF RecordedBut
  <2>. QED
    BY <1>5, <2>2
<1>. QED
  BY <1>1, <1>2, <1>6, EndedIsInOrder, OrderStays

\* What is left of the old catalog page is what should be listed.
LEMMA ReadConfigsKeepsOrder ==
  ASSUME Safe, Order, NEW t \in Threads, ReadConfigs(t)
  PROVE  Order'
<1>1. /\ thread[t].pc = "oldRoot" /\ header.root # 0 /\ Moves(t) /\ Quiet
      /\ header.root \in DOMAIN mem /\ GoodPage(mem[header.root], DOMAIN mem)
      /\ thread'[t].pc = "take" /\ thread'[t].for = "rebuild"
      /\ thread'[t].configs = Remaining(mem[header.root], thread[t].name)
      /\ thread'[t].name = thread[t].name
  BY ReadConfigsIs
<1>2. /\ LocalsExist(t) /\ NoSole(t) /\ CatalogIsListed /\ failed \subseteq DOMAIN live
      /\ Busy(t) /\ Dropping(t) /\ Alone(t) /\ OnCatalog(t)
  BY <1>1, OrderFacts DEF Busy, Order, Dropping, Sole
<1>3. /\ ~Pending(t) /\ ~Pending(t)' /\ Removing(t) /\ Removing(t)' /\ ~Creating(t)' /\ ~Entered(t)'
  BY <1>1, <1>2 DEF Removing, Dropping, Pending, Entered, Creating, LocalsExist
<1>4. RecordedBut(t)' = Listed' /\ Listed' = Listed
  BY <1>1, <1>2, <1>3, StillListed DEF Quiet, Removing, Dropping, Pending, Entered, Creating
<1>5. Range(thread'[t].configs) = Listed /\ Len(thread'[t].configs) <= CatalogCells
  <2>1. PICK s : s = mem[header.root]
    OBVIOUS
  <2>2. s \in Seq(ConfigsOn(DOMAIN mem)) /\ Len(s) <= CatalogCells /\ Len(s) \in Nat
    BY <1>1, <2>1, SeqOfConfigs DEF GoodPage
  <2>3. PICK r : r = Remaining(s, thread[t].name)
    OBVIOUS
  <2>4. /\ r \in Seq(ConfigsOn(DOMAIN mem)) /\ Len(r) <= Len(s)
        /\ Range(r) = {c \in Range(s) : c.name # thread[t].name}
    BY <2>2, <2>3, RemainingIs
  <2>5. Range(r) = Listed
    <3>1. RecordedBut(t) = Listed
      BY <1>2, RecordedBefore
    <3>. QED
      BY <1>1, <1>3, <2>1, <2>4, <3>1 DEF RecordedBut, Recorded
  <2>6. Len(r) <= CatalogCells
    BY <2>2, <2>4, SeqOfConfigs, CatalogConstants
  <2>. QED
    BY <1>1, <2>1, <2>3, <2>5, <2>6
<1>6. HeaderSeenBy(t)'
  BY <1>1 DEF HeaderSeenBy
<1>7. OwnPages(t)'
  BY <1>1, <1>3 DEF OwnPages
<1>8. OnCatalog(t)'
  BY <1>1, <1>2, <1>3, <1>4, <1>5 DEF OnCatalog, Quiet
<1>. QED
  BY <1>1, <1>2, <1>4, <1>6, <1>7, <1>8, OrderStays DEF Quiet

LEMMA CopyKeepsOrder ==
  ASSUME Safe, Order, NEW t \in Threads, Copy(t)
  PROVE  Order'
<1>1. /\ thread[t].pc = "copy" /\ Moves(t)
      /\ UNCHANGED <<phase, header, live, failed>>
      /\ \A p \in DOMAIN mem : p # thread[t].page => mem'[p] = mem[p]
  BY CopyIs
<1>2. /\ LocalsExist(t) /\ NoSole(t) /\ CatalogIsListed /\ failed \subseteq DOMAIN live
      /\ Busy(t) /\ OnCatalog(t) /\ OwnPages(t) /\ thread[t].for = "rebuild"
  BY <1>1, OrderFacts DEF Busy, Order, LocalsExist
<1>3. Removing(t) /\ Dropping(t) /\ ~Pending(t) /\ ~Creating(t) /\ ~Entered(t)
  BY <1>1, <1>2 DEF Removing, Dropping, Pending, Entered, Creating
<1>4. /\ mem[thread[t].page] = <<>> /\ Range(thread[t].configs) = Listed
      /\ Len(thread[t].configs) <= CatalogCells
  BY <1>1, <1>2, <1>3 DEF OnCatalog
<1>5. /\ SameCall(t) /\ thread'[t].pc = "readRoot" /\ thread'[t].page = thread[t].page
      /\ mem'[thread[t].page] = thread[t].configs
  BY <1>4, CopyIs
<1>6. /\ Removing(t)' = Removing(t) /\ Pending(t)' = Pending(t) /\ Dropping(t)' = Dropping(t)
      /\ ~Creating(t)' /\ ~Entered(t)' /\ ~Allocating(t)'
  BY <1>1, <1>2, <1>3, <1>5 DEF Removing, Dropping, Pending, Entered, Creating, Allocating,
     SameCall
<1>7. header.root # 0 => mem'[header.root] = mem[header.root]
  <2>1. thread[t].page # header.root
    BY <1>1, <1>2 DEF OwnPages, Unused, Taken
  <2>. QED
    BY <1>1, <2>1 DEF Safe, PagesExist
<1>8. RecordedBut(t)' = Listed' /\ Listed' = Listed
  BY <1>1, <1>2, <1>3, <1>5, <1>6, <1>7, StillListed DEF SameCall
<1>9. HeaderSeenBy(t)'
  BY <1>5 DEF HeaderSeenBy
<1>10. OwnPages(t)'
  BY <1>1, <1>2, <1>5, <1>6 DEF OwnPages, Unused, Taken
<1>11. OnCatalog(t)'
  BY <1>1, <1>2, <1>3, <1>4, <1>5, <1>6, <1>8 DEF OnCatalog, SameCall
<1>. QED
  BY <1>1, <1>2, <1>3, <1>5, <1>6, <1>8, <1>9, <1>10, <1>11, OrderStays DEF SameCall

\* The new catalog page becomes the catalog, when no other thread is in a call.
LEMMA NewRoot ==
  ASSUME Safe, Order, NEW t \in Threads, SetRoot(t)
  PROVE  /\ Sole(t) /\ Alone(t) /\ Busy(t)
         /\ header'.root = thread[t].page /\ header'.count = header.count
         /\ thread[t].page # 0 /\ thread[t].page \in Nat /\ Unused(thread[t].page)
<1>1. /\ thread[t].pc = "setRoot" /\ header' = WithRoot(thread[t].seen, thread[t].page)
  BY SetRootIs
<1>2. /\ LocalsExist(t) /\ HeaderSeenBy(t) /\ OwnPages(t)
      /\ thread[t].for \in {"none", "collection", "catalog", "rebuild"}
      /\ header \in Headers
  BY OrderFacts, LocalsFacts DEF Locals
<1>3. Sole(t)
  BY <1>1, <1>2 DEF Sole, Dropping, LocalsExist
<1>4. thread[t].page # 0 /\ thread[t].page \in Nat
  BY <1>1, <1>2 DEF LocalsExist, AtPage, Safe, TypeOK, PageIds
<1>5. header'.root = thread[t].page /\ header'.count = header.count
  <2>1. header'.root = thread[t].page /\ header'.count = thread[t].seen.count
    BY <1>1, LocalsFacts, RootWritten
  <2>. QED
    BY <1>1, <1>2, <2>1 DEF HeaderSeenBy
<1>. QED
  BY <1>1, <1>2, <1>3, <1>4, <1>5, OrderFacts DEF OwnPages, Busy

LEMMA SetRootKeepsOrder ==
  ASSUME Safe, Order, NEW t \in Threads, SetRoot(t)
  PROVE  Order'
<1>1. /\ thread[t].pc = "setRoot" /\ Moves(t) /\ SameCall(t)
      /\ UNCHANGED <<phase, mem, live, failed>>
      /\ thread'[t].pc = IF thread[t].for = "catalog" THEN "append" ELSE "flush"
      /\ thread'[t].page = thread[t].page
  BY SetRootIs
<1>2. /\ OneAtATime /\ HeaderIsSeen /\ OnePageEach /\ CatalogIsListed /\ ClosedIsOnDisk
      /\ OwnPages(t) /\ OnCatalog(t) /\ NoSole(t) /\ LocalsExist(t)
      /\ failed \subseteq DOMAIN live /\ header.count \in Nat
  BY NewRoot, OrderFacts DEF Order
<1>3. PICK page \in Nat : page = thread[t].page
  BY NewRoot
<1>4. /\ Sole(t) /\ Alone(t) /\ Busy(t) /\ header'.root = page /\ header'.count = header.count
      /\ page # 0 /\ Unused(page)
  BY <1>3, NewRoot
<1>5. /\ ~Allocating(t)' /\ Dropping(t)' = Dropping(t) /\ Entered(t)' = Entered(t)
      /\ ~Creating(t)' /\ Pending(t)' = Pending(t) /\ ~Removing(t)'
      /\ Removing(t) <=> thread[t].for = "rebuild"
  BY <1>1, <1>2 DEF Allocating, Dropping, Entered, Creating, Pending, Removing, SameCall,
     LocalsExist
<1>6. OneAtATime'
  BY <1>1, <1>2, <1>4, <1>5, OneAtATimeStays DEF SameCall
<1>7. HeaderIsSeen'
  <2>1. HeaderSeenBy(t)'
    BY <1>1 DEF HeaderSeenBy
  <2>. QED
    BY <1>1, <1>2, <1>4, <2>1, HeaderStaysSeen
<1>8. OnePageEach'
  <2>1. header'.root < header'.count
    BY <1>4 DEF Unused, Taken
  <2>2. \A n \in DOMAIN live : IsInjective(live[n].pages) /\ \A p \in Range(live[n].pages) : Taken(p)'
    BY <1>2, <1>4 DEF OnePageEach, Unused, Taken
  <2>3. OwnPages(t)'
    BY <1>1, <1>2, <1>5 DEF OwnPages, SameCall
  <2>4. ASSUME NEW u \in Threads, u # t PROVE OwnPages(u)'
    <3>1. thread'[u] = thread[u] /\ thread[u].pc = "idle" /\ LocalsExist(u)
      BY <1>1, <1>4, <2>4, OthersStay, LocalsFacts DEF Safe, Alone, Busy
    <3>. QED
      BY <3>1 DEF OwnPages, Creating, Entered, Allocating, LocalsExist
  <2>. QED
    BY <1>1, <1>2, <2>1, <2>2, <2>3, <2>4 DEF OnePageEach
<1>9. Listed' = Listed
  <2>1. \A u \in Threads : Pending(u)' = Pending(u) /\ thread'[u].name = thread[u].name
    BY <1>1, <1>5, OthersStay DEF Safe, Pending, Entered, Creating, Allocating, SameCall
  <2>2. ToBeListed' = ToBeListed
    BY <1>1, <2>1 DEF ToBeListed
  <2>. QED
    BY <1>1, <2>2, SameListed
<1>10. RecordedBut(t)' = Listed'
  <2>1. Recorded' = Range(mem[page]) /\ RecordedBut(t)' = Recorded'
    BY <1>1, <1>4, <1>5 DEF Recorded, RecordedBut
  <2>2. CASE thread[t].for = "rebuild"
    BY <1>1, <1>2, <1>3, <1>9, <2>1, <2>2 DEF OnCatalog
  <2>3. CASE thread[t].for # "rebuild"
    <3>1. thread[t].for = "catalog"
      BY <1>1, <1>4, <2>3 DEF Sole, Dropping
    <3>2. Recorded = {}
      BY <1>1, <1>2, <3>1 DEF OneAtATime, Recorded
    <3>3. Listed = {}
      BY <1>2, <3>2, RecordedBefore DEF RecordedBut
    <3>4. Range(mem[page]) = {}
      BY <1>1, <1>2, <1>3, <2>3 DEF OnCatalog
    <3>. QED
      BY <1>9, <2>1, <3>3, <3>4
  <2>. QED
    BY <2>2, <2>3
<1>11. OnCatalog(t)'
  BY <1>1, <1>3, <1>4, <1>5 DEF OnCatalog
<1>12. CatalogIsListed'
  BY <1>1, <1>2, <1>4, <1>10, <1>11, CatalogStaysListed
<1>13. ClosedIsOnDisk'
  BY <1>1, <1>2, <1>4, StaysOpen
<1>. QED
  BY <1>6, <1>7, <1>8, <1>12, <1>13 DEF Order

\* A thread outside of a call is in nobody's way.
LEMMA IdleFacts ==
  ASSUME Safe, NEW t \in Threads, thread[t].pc = "idle"
  PROVE  /\ ~Busy(t) /\ ~Sole(t) /\ ~Removing(t) /\ ~Pending(t) /\ ~Dropping(t)
         /\ ~Allocating(t) /\ ~Creating(t) /\ ~Entered(t)
<1>1. LocalsExist(t) /\ thread[t].for = "none"
  BY LocalsFacts DEF LocalsExist
<1>. QED
  BY <1>1 DEF Busy, Sole, Removing, Pending, Dropping, Allocating, Creating, Entered

LEMMA CreateKeepsOrder ==
  ASSUME Orderly, Safe, Order, NEW t \in Threads, NEW n \in Names, Create(t, n)
  PROVE  Order'
<1>1. /\ thread[t].pc = "idle" /\ Moves(t) /\ Quiet /\ phase = "open"
      /\ n \notin DOMAIN live /\ MayStart(TRUE) /\ ~CollectionsLocked
      /\ thread'[t].pc = "take" /\ thread'[t].for = "collection"
      /\ thread'[t].name = n /\ thread'[t].got = <<>>
  BY CreateIs
<1>2. /\ OneAtATime /\ HeaderIsSeen /\ OnePageEach /\ CatalogIsListed /\ ClosedIsOnDisk
      /\ failed \subseteq DOMAIN live /\ header.count \in Nat
  BY OrderFacts DEF Order
<1>3. AllIdle \/ (header.root # 0 /\ \A u \in Threads : ~Dropping(u))
  BY <1>1 DEF MayStart, Orderly
<1>4. NoSole(t)
  <2>1. CASE AllIdle
    BY <2>1, IdleFacts DEF AllIdle, Busy, NoSole
  <2>2. CASE header.root # 0 /\ \A u \in Threads : ~Dropping(u)
    BY <1>2, <2>2 DEF NoSole, Sole, OneAtATime
  <2>. QED
    BY <1>3, <2>1, <2>2
<1>5. /\ Allocating(t)' /\ ~Dropping(t)' /\ Creating(t)' /\ ~Entered(t)' /\ ~Pending(t)'
      /\ ~Removing(t)' /\ ~Removing(t) /\ ~Pending(t)
      /\ Removing(t)' = Removing(t) /\ Pending(t)' = Pending(t)
  BY <1>1, IdleFacts DEF Allocating, Dropping, Creating, Entered, Pending, Removing
<1>6. \A u \in Threads : u # t =>
        /\ thread'[u] = thread[u] /\ Busy(u)' = Busy(u) /\ Allocating(u)' = Allocating(u)
        /\ Dropping(u)' = Dropping(u)
  BY <1>1, OthersStay DEF Safe, Busy, Allocating, Dropping
<1>7. \A u \in Threads : u # t =>
        ~Allocating(u) /\ ~Dropping(u) /\ (Busy(u) => thread[u].name # n)
  <2>. SUFFICES ASSUME NEW u \in Threads, u # t
                PROVE  ~Allocating(u) /\ ~Dropping(u) /\ (Busy(u) => thread[u].name # n)
    OBVIOUS
  <2>1. ~Sole(u) /\ OwnPages(u)
    BY <1>2, <1>4 DEF NoSole, OnePageEach
  <2>2. ~Allocating(u) /\ ~Creating(u)
    BY <1>1, <2>1, NotSole DEF CollectionsLocked, Creating
  <2>3. Busy(u) => Entered(u)
    BY <2>1, <2>2, NotSole
  <2>. QED
    BY <1>1, <2>1, <2>2, <2>3, NotSole DEF OwnPages
<1>8. OneAtATime'
  <2>1. ASSUME NEW v \in Threads
        PROVE  Dropping(v)' \/ header'.root = 0 => ~Busy(v)' \/ Alone(v)'
    <3>1. ~Dropping(v)'
      BY <1>5, <1>6, <1>7
    <3>2. CASE header.root # 0
      BY <1>1, <3>1, <3>2 DEF Quiet
    <3>3. CASE header.root = 0
      <4>1. \A u \in Threads : u # t => ~Busy(u)'
        BY <1>3, <1>6, <3>3 DEF AllIdle
      <4>. QED
        BY <4>1 DEF Alone
    <3>. QED
      BY <3>2, <3>3
  <2>2. ASSUME NEW v \in Threads, thread'[v].for = "catalog",
               thread'[v].pc \notin {"append", "flush"}
        PROVE  header'.root = 0
    BY <1>1, <1>4, <1>6, <2>2 DEF NoSole, Sole
  <2>3. ASSUME NEW u \in Threads, NEW v \in Threads, u # v
        PROVE  /\ ~(Allocating(u)' /\ Allocating(v)')
               /\ Busy(u)' /\ Busy(v)' => thread'[u].name # thread'[v].name
    <3>1. CASE u # t /\ v # t
      BY <1>2, <1>6, <2>3, <3>1 DEF OneAtATime
    <3>2. CASE u = t
      BY <1>1, <1>6, <1>7, <2>3, <3>2
    <3>3. CASE v = t
      BY <1>1, <1>6, <1>7, <2>3, <3>3
    <3>. QED
      BY <3>1, <3>2, <3>3
  <2>. QED
    BY <2>1, <2>2, <2>3 DEF OneAtATime
<1>9. HeaderIsSeen'
  <2>1. HeaderSeenBy(t)'
    BY <1>1 DEF HeaderSeenBy
  <2>. QED
    BY <1>1, <1>2, <1>4, <2>1, HeaderStaysSeen DEF Quiet
<1>10. OnePageEach'
  <2>1. IsInjective(<<>>) /\ Range(<<>>) = {}
    BY DEF IsInjective, Range
  <2>2. OwnPages(t)'
    BY <1>1, <1>5, <2>1 DEF OwnPages, Quiet
  <2>. QED
    BY <1>1, <1>2, <1>4, <2>2, OnePageStays DEF Quiet
<1>11. CatalogIsListed'
  <2>1. RecordedBut(t)' = Listed'
    BY <1>1, <1>2, <1>4, <1>5, StillListed DEF Quiet
  <2>2. OnCatalog(t)'
    BY <1>1, <1>5 DEF OnCatalog
  <2>. QED
    BY <1>1, <1>2, <1>4, <2>1, <2>2, CatalogStaysListed DEF Quiet
<1>12. ClosedIsOnDisk'
  BY <1>1 DEF ClosedIsOnDisk, Quiet
<1>. QED
  BY <1>8, <1>9, <1>10, <1>11, <1>12 DEF Order

\* When no thread is in a call, every collection but those that failed is listed.
LEMMA ListedWhenIdle ==
  ASSUME Safe, CatalogIsListed, AllIdle
  PROVE  /\ ToBeListed = DOMAIN live \ failed /\ Recorded = Listed
         /\ \A t \in Threads : NoSole(t)
<1>1. \A t \in Threads : ~Pending(t) /\ ~Removing(t) /\ ~Sole(t)
  BY IdleFacts DEF AllIdle, Busy
<1>2. ToBeListed = DOMAIN live \ failed
  BY <1>1 DEF ToBeListed
<1>3. Recorded = Listed
  BY <1>1 DEF CatalogIsListed
<1>. QED
  BY <1>1, <1>2, <1>3 DEF NoSole

LEMMA DropKeepsOrder ==
  ASSUME Orderly, Safe, Order, NEW t \in Threads, NEW n \in Names, Drop(t, n)
  PROVE  Order'
<1>1. /\ thread[t].pc = "idle" /\ Moves(t) /\ UNCHANGED <<phase, header, mem>>
      /\ live' = Restrict(live, DOMAIN live \ {n}) /\ failed' = failed \ {n}
      /\ phase = "open" /\ n \in DOMAIN live /\ MayStart(FALSE)
      /\ thread'[t].pc = "oldRoot" /\ thread'[t].for = "none" /\ thread'[t].name = n
  BY DropIs
<1>2. /\ OnePageEach /\ CatalogIsListed /\ failed \subseteq DOMAIN live
  BY OrderFacts DEF Order
<1>3. AllIdle
  BY <1>1 DEF MayStart, Orderly
<1>4. /\ DOMAIN live' = DOMAIN live \ {n}
      /\ \A m \in DOMAIN live : m # n => live'[m] = live[m]
  BY <1>1 DEF Restrict
<1>5. /\ ~Allocating(t)' /\ ~Creating(t)' /\ ~Entered(t)' /\ ~Pending(t)' /\ Removing(t)'
  BY <1>1 DEF Allocating, Creating, Entered, Pending, Removing, Dropping
<1>6. \A u \in Threads : u # t =>
        /\ ~Busy(u)' /\ ~Allocating(u)' /\ ~Dropping(u)' /\ ~Creating(u)' /\ ~Entered(u)'
        /\ ~Pending(u)' /\ thread'[u].pc = "idle" /\ thread'[u].for = "none"
  <2>. SUFFICES ASSUME NEW u \in Threads, u # t
                PROVE  /\ ~Busy(u)' /\ ~Allocating(u)' /\ ~Dropping(u)' /\ ~Creating(u)'
                       /\ ~Entered(u)' /\ ~Pending(u)'
                       /\ thread'[u].pc = "idle" /\ thread'[u].for = "none"
    OBVIOUS
  <2>1. thread'[u] = thread[u] /\ thread[u].pc = "idle" /\ thread[u].for = "none"
    BY <1>1, <1>3, OthersStay, LocalsFacts DEF Safe, AllIdle, Busy, LocalsExist
  <2>. QED
    BY <2>1 DEF Busy, Allocating, Dropping, Creating, Entered, Pending
<1>7. OneAtATime'
  <2>1. Alone(t)'
    BY <1>6 DEF Alone
  <2>2. ASSUME NEW v \in Threads
        PROVE  /\ ~Busy(v)' \/ Alone(v)'
               /\ ~(thread'[v].for = "catalog" /\ thread'[v].pc \notin {"append", "flush"})
    BY <1>1, <1>6, <2>1
  <2>3. ASSUME NEW u \in Threads, NEW v \in Threads, u # v
        PROVE  ~(Allocating(u)' /\ Allocating(v)') /\ ~(Busy(u)' /\ Busy(v)')
    BY <1>6, <2>3
  <2>. QED
    BY <2>2, <2>3 DEF OneAtATime
<1>8. HeaderIsSeen'
  BY <1>1, <1>6 DEF HeaderIsSeen, HeaderSeenBy
<1>9. OnePageEach'
  <2>1. \A u \in Threads : OwnPages(u)'
    BY <1>1, <1>5, <1>6 DEF OwnPages
  <2>2. \A m \in DOMAIN live' : m \in DOMAIN live /\ live'[m] = live[m]
    BY <1>4
  <2>3. \A m \in DOMAIN live' :
          IsInjective(live'[m].pages) /\ \A p \in Range(live'[m].pages) : Taken(p)'
    BY <1>1, <1>2, <2>2 DEF OnePageEach, Taken
  <2>4. \A l, m \in DOMAIN live' : l # m => Range(live'[l].pages) \cap Range(live'[m].pages) = {}
    BY <1>2, <2>2 DEF OnePageEach
  <2>5. header'.root < header'.count
    BY <1>1, <1>2 DEF OnePageEach
  <2>. QED
    BY <2>1, <2>3, <2>4, <2>5 DEF OnePageEach
<1>10. RecordedBut(t)' = Listed'
  <2>1. Recorded = Listed /\ ToBeListed = DOMAIN live \ failed
    BY <1>2, <1>3, ListedWhenIdle
  <2>2. ToBeListed' = ToBeListed \ {n}
    <3>1. ToBeListed' = DOMAIN live' \ failed'
      BY <1>5, <1>6 DEF ToBeListed
    <3>. QED
      BY <1>1, <1>4, <2>1, <3>1
  <2>3. \A m \in ToBeListed : live[m].name = m
    BY <2>1 DEF Safe, PagesExist
  <2>4. Listed' = {live[m] : m \in ToBeListed \ {n}}
    BY <1>4, <2>1, <2>2 DEF Listed
  <2>5. Recorded' = Recorded
    BY <1>1 DEF Recorded
  <2>6. RecordedBut(t)' = {c \in Recorded : c.name # n}
    BY <1>1, <1>5, <2>5 DEF RecordedBut
  <2>7. Recorded = {live[m] : m \in ToBeListed}
    BY <2>1 DEF Listed
  <2>. QED
    BY <2>3, <2>4, <2>6, <2>7
<1>11. OnCatalog(t)'
  BY <1>1, <1>4, <1>5 DEF OnCatalog
<1>12. CatalogIsListed'
  <2>1. NoSole(t)
    BY <1>2, <1>3, ListedWhenIdle
  <2>2. failed' \subseteq DOMAIN live'
    BY <1>1, <1>2, <1>4
  <2>. QED
    BY <1>1, <1>2, <1>10, <1>11, <2>1, <2>2, CatalogStaysListed
<1>13. ClosedIsOnDisk'
  BY <1>1 DEF ClosedIsOnDisk
<1>. QED
  BY <1>7, <1>8, <1>9, <1>12, <1>13 DEF Order

\* A step that only writes to the file, or closes the database.
LEMMA FileStepKeepsOrder ==
  ASSUME Order, UNCHANGED <<header, mem, live, thread, failed>>, ClosedIsOnDisk'
  PROVE  Order'
<1>1. OneAtATime'
  BY DEF Order, OneAtATime, Dropping, Busy, Alone, Allocating
<1>2. HeaderIsSeen'
  BY DEF Order, HeaderIsSeen, HeaderSeenBy
<1>3. \A t \in Threads : OwnPages(t)'
  BY DEF Order, OnePageEach, OwnPages, Creating, Entered, Allocating, Unused, Taken
<1>4. OnePageEach'
  BY <1>3 DEF Order, OnePageEach, Taken
<1>5. Listed' = Listed
  <2>1. ToBeListed' = ToBeListed
    BY DEF ToBeListed, Pending, Entered, Creating, Allocating
  <2>. QED
    BY <2>1, SameListed
<1>6. \A t \in Threads : Removing(t)' = Removing(t) /\ OnCatalog(t)'
  <2>. SUFFICES ASSUME NEW t \in Threads PROVE Removing(t)' = Removing(t) /\ OnCatalog(t)'
    OBVIOUS
  <2>1. Removing(t)' = Removing(t) /\ Allocating(t)' = Allocating(t)
    BY DEF Removing, Dropping, Allocating
  <2>2. OnCatalog(t)
    BY DEF Order, CatalogIsListed
  <2>. QED
    BY <1>5, <2>1, <2>2 DEF OnCatalog
<1>7. CatalogIsListed'
  <2>1. Recorded' = Recorded
    BY DEF Recorded
  <2>. QED
    BY <1>5, <1>6, <2>1 DEF Order, CatalogIsListed
<1>. QED
  BY <1>1, <1>2, <1>4, <1>7 DEF Order

LEMMA FlushesKeepOrder ==
  ASSUME Order, FlushHeader \/ (\E p \in DOMAIN mem : FlushOther(p)) \/ Shutdown
  PROVE  Order'
<1>1. UNCHANGED <<header, mem, live, thread, failed>>
  BY DEF FlushHeader, FlushOther, Shutdown
<1>2. ClosedIsOnDisk'
  <2>1. CASE FlushHeader \/ \E p \in DOMAIN mem : FlushOther(p)
    BY <2>1 DEF FlushHeader, FlushOther, ClosedIsOnDisk
  <2>2. CASE Shutdown
    BY <2>2 DEF Shutdown, FlushedHeader, ClosedIsOnDisk, AllIdle, Busy
  <2>. QED
    BY <2>1, <2>2
<1>. QED
  BY <1>1, <1>2, FileStepKeepsOrder

LEMMA StutterKeepsOrder ==
  ASSUME Order, UNCHANGED vars
  PROVE  Order'
<1>1. ClosedIsOnDisk'
  BY DEF Order, ClosedIsOnDisk, AllIdle, Busy, vars
<1>. QED
  BY <1>1, FileStepKeepsOrder DEF vars

\* A clean restart finds the collections of before, but for those that failed.
LEMMA Reopened ==
  ASSUME Safe, Order, Open
  PROVE  /\ AllIdle /\ header' = header /\ mem' = mem
         /\ DOMAIN live' = DOMAIN live \ failed
         /\ \A n \in DOMAIN live' : live'[n] = live[n]
<1>1. AllIdle /\ file = mem /\ fileHeader = header
  BY DEF Open, Order, ClosedIsOnDisk
<1>2. Recorded = {live[n] : n \in DOMAIN live \ failed}
  <2>1. Recorded = Listed /\ ToBeListed = DOMAIN live \ failed
    BY <1>1, ListedWhenIdle DEF Order
  <2>. QED
    BY <2>1 DEF Listed
<1>3. \A n \in DOMAIN live : live[n].name = n
  BY DEF Safe, PagesExist
<1>4. DOMAIN live' = DOMAIN live \ failed /\ \A n \in DOMAIN live' : live'[n] = live[n]
  <2>1. CASE header.root = 0
    <3>1. live' = <<>>
      BY <1>1, <2>1 DEF Open
    <3>2. Recorded = {}
      BY <2>1 DEF Recorded
    <3>. QED
      BY <1>2, <3>1, <3>2
  <2>2. CASE header.root # 0
    <3>1. PICK s : s = mem[header.root]
      OBVIOUS
    <3>2. live' = Loaded(s) /\ Recorded = Range(s)
      BY <1>1, <2>2, <3>1 DEF Open, Recorded
    <3>3. s \in Seq(ConfigsOn(DOMAIN mem))
      BY <2>2, <3>1 DEF Safe, PagesExist, GoodPage
    <3>4. /\ DOMAIN live' = {c.name : c \in Recorded}
          /\ \A n \in DOMAIN live' : live'[n] \in Recorded /\ live'[n].name = n
      BY <3>2, <3>3, LoadedIs
    <3>5. DOMAIN live' = DOMAIN live \ failed
      BY <1>2, <1>3, <3>4
    <3>6. \A n \in DOMAIN live' : live'[n] = live[n]
      BY <1>2, <1>3, <3>4
    <3>. QED
      BY <3>5, <3>6
  <2>. QED
    BY <2>1, <2>2
<1>. QED
  BY <1>1, <1>4 DEF Open

LEMMA OpenKeepsOrder ==
  ASSUME Safe, Order, Open
  PROVE  Order'
<1>1. /\ AllIdle /\ header' = header /\ mem' = mem /\ thread' = thread /\ failed' = {}
      /\ DOMAIN live' = DOMAIN live \ failed /\ \A n \in DOMAIN live' : live'[n] = live[n]
      /\ phase' = "open"
  BY Reopened DEF Open
<1>2. \A t \in Threads : thread[t].pc = "idle" /\ thread[t].for = "none"
  BY <1>1, LocalsFacts DEF AllIdle, Busy, LocalsExist
<1>3. /\ OneAtATime' /\ HeaderIsSeen'
  <2>1. OneAtATime'
    BY <1>1, <1>2 DEF OneAtATime, Busy, Alone, Allocating
  <2>. QED
    BY <1>1, <1>2, <2>1 DEF HeaderIsSeen, HeaderSeenBy
<1>4. OnePageEach'
  <2>1. \A t \in Threads : OwnPages(t)'
    BY <1>1, <1>2 DEF OwnPages, Creating, Entered, Allocating
  <2>. QED
    BY <1>1, <2>1 DEF Order, OnePageEach, Taken
<1>5. CatalogIsListed'
  <2>1. \A t \in Threads : ~Pending(t)' /\ ~Removing(t)'
    BY <1>1, <1>2 DEF Pending, Entered, Removing, Dropping
  <2>2. \A t \in Threads : OnCatalog(t)'
    BY <1>1, <1>2, <2>1 DEF OnCatalog
  <2>3. ToBeListed' = DOMAIN live'
    BY <1>1, <2>1 DEF ToBeListed
  <2>4. ToBeListed = DOMAIN live \ failed /\ Recorded = Listed
    BY <1>1, ListedWhenIdle DEF Order
  <2>5. Listed' = Listed
    BY <1>1, <2>3, <2>4 DEF Listed
  <2>6. Recorded' = Recorded
    BY <1>1 DEF Recorded
  <2>. QED
    BY <1>1, <2>1, <2>2, <2>4, <2>5, <2>6 DEF CatalogIsListed
<1>6. ClosedIsOnDisk'
  BY <1>1 DEF ClosedIsOnDisk
<1>. QED
  BY <1>3, <1>4, <1>5, <1>6 DEF Order

LEMMA InitIsInOrder ==
  ASSUME Init
  PROVE  Order
<1>1. /\ DOMAIN live = {} /\ header.root = 0 /\ header.count = 1
      /\ \A t \in Threads : thread[t] = Idle
      /\ phase = "open" /\ failed = {}
  BY DEF Init
<1>2. \A t \in Threads : thread[t].pc = "idle" /\ thread[t].for = "none"
  BY <1>1 DEF Idle
<1>3. OneAtATime
  BY <1>2 DEF OneAtATime, Busy, Alone, Allocating
<1>4. HeaderIsSeen
  BY <1>2 DEF HeaderIsSeen, HeaderSeenBy
<1>5. OnePageEach
  <2>1. \A t \in Threads : OwnPages(t)
    BY <1>2 DEF OwnPages, Creating, Entered, Allocating
  <2>. QED
    BY <1>1, <2>1 DEF OnePageEach
<1>6. CatalogIsListed
  <2>1. \A t \in Threads : OnCatalog(t)
    BY <1>2 DEF OnCatalog, Removing, Dropping
  <2>2. Recorded = {} /\ Listed = {}
    BY <1>1 DEF Recorded, Listed, ToBeListed
  <2>. QED
    BY <1>1, <2>1, <2>2 DEF CatalogIsListed
<1>7. ClosedIsOnDisk
  BY <1>1 DEF ClosedIsOnDisk
<1>. QED
  BY <1>3, <1>4, <1>5, <1>6, <1>7 DEF Order

LEMMA NextKeepsOrder ==
  ASSUME Orderly, Safe, Order, [Next]_vars
  PROVE  Order'
<1>1. ASSUME NEW t \in Threads, Step(t) PROVE Order'
  BY <1>1, TakeKeepsOrder, StoreKeepsOrder, AllocatedForCollectionKeepsOrder,
     AllocatedForCatalogKeepsOrder, AllocatedForRebuildKeepsOrder, EnsureFoundKeepsOrder,
     EnsureAllocatesKeepsOrder, ReadRootKeepsOrder, SetRootKeepsOrder,
     AppendConfigKeepsOrder, CatalogFullKeepsOrder, FlushPageKeepsOrder,
     ReadConfigsKeepsOrder, NoCatalogKeepsOrder, CopyKeepsOrder DEF Step
<1>2. ASSUME NEW t \in Threads, NEW n \in Names, Create(t, n) PROVE Order'
  BY <1>2, CreateKeepsOrder
<1>3. ASSUME NEW t \in Threads, NEW n \in Names, Drop(t, n) PROVE Order'
  BY <1>3, DropKeepsOrder
<1>4. ASSUME FlushHeader \/ (\E p \in DOMAIN mem : FlushOther(p)) \/ Shutdown PROVE Order'
  BY <1>4, FlushesKeepOrder
<1>5. CASE Crash
  BY <1>5 DEF Crash, Orderly
<1>6. CASE Open
  BY <1>6, OpenKeepsOrder
<1>7. CASE UNCHANGED vars
  BY <1>7, StutterKeepsOrder
<1>. QED
  BY <1>1, <1>2, <1>3, <1>4, <1>5, <1>6, <1>7 DEF Next

LEMMA InvariantHolds == Spec => []IndInv
<1>1. Init => IndInv
  BY InitIsSafe, InitIsInOrder DEF IndInv
<1>2. IndInv /\ [Next]_vars => IndInv'
  BY NextIsSafe, NextKeepsOrder DEF IndInv
<1>. QED
  BY <1>1, <1>2, PTL DEF Spec

\* When no drop and no first create overlaps another call, and nobody crashes, no
\* page is handed out twice by allocate_page: the root pages of all collections and
\* the catalog page are different and page_count is beyond them, whatever creates
\* overlap once there is a catalog page.
THEOREM NoPageTwice == Orderly => (Spec => []PagesNotShared)
<1>. SUFFICES ASSUME Orderly PROVE Spec => []PagesNotShared
  OBVIOUS
<1>1. IndInv => PagesNotShared
  BY DEF IndInv, Order, OnePageEach, PagesNotShared, Taken
<1>. QED
  BY <1>1, InvariantHolds, PTL

\* Under the same condition, between calls the catalog page holds exactly the
\* collections in the map, but for those whose create_collection failed on a full
\* page: drops one at a time, and creates that overlap once there is a catalog page,
\* leave both in step.
THEOREM CatalogIsInStep == Orderly => (Spec => []CatalogMatches)
<1>. SUFFICES ASSUME Orderly PROVE Spec => []CatalogMatches
  OBVIOUS
<1>1. IndInv => CatalogMatches
  <2>. SUFFICES ASSUME IndInv, AllIdle
                PROVE  Recorded = {live[n] : n \in DOMAIN live \ failed}
    BY DEF CatalogMatches
  <2>1. ToBeListed = DOMAIN live \ failed /\ Recorded = Listed
    BY ListedWhenIdle DEF IndInv, Order
  <2>. QED
    BY <2>1 DEF Listed
<1>. QED
  BY <1>1, InvariantHolds, PTL

\* Under the same condition, Database::open after a clean shutdown finds the
\* collections of before on the same pages, but for those whose create_collection
\* failed.
THEOREM RestartsKeepCollections == Orderly => (Spec => RestartKeepsCollections)
<1>. SUFFICES ASSUME Orderly PROVE Spec => RestartKeepsCollections
  OBVIOUS
<1>. DEFINE Kept == phase = "closed" /\ phase' = "open" =>
                      live' = Restrict(live, DOMAIN live \ failed)
<1>1. IndInv /\ [Next]_vars => [Kept]_vars
  <2>. SUFFICES ASSUME IndInv, Next, phase = "closed", phase' = "open"
                PROVE  live' = Restrict(live, DOMAIN live \ failed)
    OBVIOUS
  <2>1. Safe /\ Order /\ AllIdle
    BY DEF IndInv, Order, ClosedIsOnDisk
  <2>2. Open
    <3>1. \A t \in Threads : ~Step(t)
      BY <2>1 DEF AllIdle, Busy, Step, Take, Store, AllocatedForCollection,
         AllocatedForCatalog, AllocatedForRebuild, SetCount, EnsureFound, EnsureAllocates,
         ReadRoot, SetRoot, AppendConfig, CatalogFull, FlushPage, ReadConfigs, NoCatalog, Copy
    <3>2. /\ \A t \in Threads, n \in Names : ~Create(t, n) /\ ~Drop(t, n)
          /\ ~FlushHeader /\ ~Shutdown /\ ~Crash /\ \A p : ~FlushOther(p)
      BY DEF Create, Drop, FlushHeader, Shutdown, Crash, FlushOther
    <3>. QED
      BY <3>1, <3>2 DEF Next
  <2>3. DOMAIN live' = DOMAIN live \ failed /\ \A n \in DOMAIN live' : live'[n] = live[n]
    BY <2>1, <2>2, Reopened
  <2>4. live' = [n \in DOMAIN live' |-> live'[n]]
    <3>1. CASE live' = <<>>
      BY <3>1
    <3>2. ASSUME NEW s, live' = Loaded(s) PROVE live' = [n \in DOMAIN live' |-> live'[n]]
      BY <3>2 DEF Loaded
    <3>. QED
      BY <2>2, <3>1, <3>2 DEF Open
  <2>. QED
    BY <2>3, <2>4 DEF Restrict
<1>. QED
  BY <1>1, InvariantHolds, PTL DEF Spec, RestartKeepsCollections
=============================================================================

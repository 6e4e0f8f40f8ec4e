--------------------------- MODULE PageCacheProofs --------------------------
(***************************************************************************)
(* Theorems about the page cache, for every set of threads, every size of  *)
(* the cache and of a page, and every number of inserts.                   *)
(***************************************************************************)
EXTENDS PageCache, FiniteSetTheorems, FunctionTheorems, TLAPS

-----------------------------------------------------------------------------
(* The inductive invariant.                                                *)

AtPage == {"lookup", "read", "insert", "write"}
AtNewPage == {"zero", "cache", "count"}

\* What holds of every thread, whatever overlaps: the pages it uses are in the
\* file, and the cell it inserts has a number.
PagesExist ==
  \A t \in Threads :
    /\ chain[t] # <<>> /\ Range(chain[t]) \subseteq DOMAIN disk
    /\ thread[t].pc \in AtPage \cup {"cache", "count"} => thread[t].page \in DOMAIN disk
    /\ thread[t].pc = "zero" => thread[t].page # 0
    /\ thread[t].pc # "idle" => thread[t].inserts # 0
    /\ thread[t].pc = "write" => thread[t].object # 0

\* flush_all visits pages that stay cached until it returns.
FlushInOrder ==
  /\ flush.active => flush.todo \ {0} \subseteq DOMAIN cached
  /\ flush.done => ~flush.active

\* The pages of a thread's collection, and the one it works on.
Owned(t) ==
  Range(chain[t]) \cup
    (IF thread[t].pc \in AtPage \cup AtNewPage THEN {thread[t].page} ELSE {})

\* A thread works on the last page of its collection, or on a new one, which is
\* the page that page_count names until the thread has raised it.
WorksOn(t) ==
  /\ IsInjective(chain[t])
  /\ \A p \in Range(chain[t]) : p < count
  /\ thread[t].pc \in AtPage =>
       /\ thread[t].page < count
       /\ (thread[t].page \in Range(chain[t])) = ~thread[t].new
  /\ thread[t].pc \in AtNewPage =>
       /\ thread[t].page = count /\ thread[t].new
  /\ thread[t].pc \in {"read", "insert", "zero", "cache"} =>
       thread[t].page \notin DOMAIN cached
  /\ thread[t].pc = "insert" => thread[t].image = disk[thread[t].page]
  /\ thread[t].pc = "cache" => disk[thread[t].page] = {}
  /\ thread[t].pc \in {"idle", "allocate"} => ~thread[t].new

\* One allocation at a time, and nobody's pages are another's.
OnePageEach ==
  /\ \A t \in Threads : WorksOn(t)
  /\ \A t, u \in Threads : t # u =>
       /\ Owned(t) \cap Owned(u) = {}
       /\ ~(thread[t].pc \in AtNewPage /\ thread[u].pc \in AtNewPage)
  /\ \A p \in DOMAIN cached :
       p < count \/ \E t \in Threads : thread[t].pc = "count" /\ thread[t].page = p

\* The cells of a page as get_page would return it.
Now(p) == IF p \in DOMAIN cached THEN heap[cached[p]].cells ELSE disk[p]

\* A cell stays on a page of its collection, in the cache or the file; while
\* flush_all runs, in the file or on a page that it has yet to visit.
Kept(c) ==
  \E p \in Range(chain[c[1]]) : c \in Now(p)

Flushed(c) ==
  \E p \in Range(chain[c[1]]) :
    /\ (p \in flush.todo /\ c \in Now(p)) \/ c \in disk[p]
    /\ 0 \notin flush.todo => p < onDisk

NothingLost ==
  /\ \A p \in DOMAIN cached : disk[p] \subseteq heap[cached[p]].cells
  /\ \A t \in Threads : thread[t].pc = "write" =>
       thread[t].page \in DOMAIN cached /\ cached[thread[t].page] = thread[t].object
  /\ \A c \in acked : Kept(c)
  /\ flush.active => \A c \in flush.due : Flushed(c)
  /\ FlushCompletes

IndInv ==
  /\ TypeOK /\ PagesExist /\ FlushInOrder /\ GrowsByDirtyPages
  /\ count # 0 /\ flush.due \subseteq acked
  /\ ~overlapped => OnePageEach /\ CleanIsOnDisk
  /\ ~overlapped /\ ~orphaned => NothingLost

-----------------------------------------------------------------------------
(* Functions and objects.                                                  *)

LEMMA Joined ==
  ASSUME NEW f, NEW x, NEW y
  PROVE  /\ DOMAIN With(f, x, y) = DOMAIN f \cup {x}
         /\ With(f, x, y)[x] = y
         /\ \A z \in DOMAIN f : z # x => With(f, x, y)[z] = f[z]
  BY DEF With

\* So many numbers always include one that nobody uses.
LEMMA LiveIsFinite ==
  ASSUME IsFiniteSet(DOMAIN cached), cached \in [DOMAIN cached -> DOMAIN heap]
  PROVE  IsFiniteSet(Live) /\ Cardinality(Live) \in Nat
<1>. DEFINE S == {t \in Threads : thread[t].pc = "write"}
            f == [t \in S |-> thread[t].object]
<1>1. IsFiniteSet(Range(cached))
  BY Fun_RangeProperties, FS_Surjection
<1>2. IsFiniteSet(S)
  <2>1. S \subseteq Threads
    OBVIOUS
  <2>. QED
    BY <2>1, PageCacheConstants, FS_Subset
<1>3. f \in Surjection(S, Held)
  <2>1. f \in [S -> Held] /\ \A o \in Held : \E t \in S : f[t] = o
    BY DEF Held
  <2>. QED
    BY <2>1, Fun_IsSurj
<1>4. IsFiniteSet(Held)
  BY <1>2, <1>3, FS_Surjection
<1>5. IsFiniteSet(Live)
  BY <1>1, <1>4, FS_Union DEF Live
<1>. QED
  BY <1>5, FS_CardinalityType

LEMMA FreshIsFree ==
  ASSUME TypeOK
  PROVE  Fresh \in Objects /\ Fresh \notin Range(cached) /\ Fresh \notin Held
<1>. DEFINE n == Cardinality(Live) + 1
<1>1. IsFiniteSet(Live) /\ Cardinality(Live) \in Nat
  BY LiveIsFinite DEF TypeOK
<1>2. \E o \in 1..n : o \notin Live
  <2>. SUFFICES ASSUME 1..n \subseteq Live PROVE FALSE
    OBVIOUS
  <2>1. Cardinality(1..n) = n
    BY <1>1, FS_Interval
  <2>2. Cardinality(1..n) <= Cardinality(Live)
    BY <1>1, FS_Subset
  <2>. QED
    BY <1>1, <2>1, <2>2
<1>3. Fresh \in 1..n /\ Fresh \notin Live
  BY <1>2 DEF Fresh
<1>. QED
  BY <1>1, <1>3 DEF Live, Objects

\* What put_page does: E is the page evicted, if any, and o the new object.
PagePut(p, cells, o, E) ==
  /\ o = Fresh /\ o \notin Range(cached) /\ o \notin Held
  /\ DOMAIN heap' = DOMAIN heap \cup {o}
  /\ heap'[o] = [cells |-> cells, dirty |-> FALSE]
  /\ \A x \in DOMAIN heap : x # o => heap'[x] = heap[x]
  /\ DOMAIN cached' = (DOMAIN cached \ E) \cup {p}
  /\ cached'[p] = o
  /\ \A q \in DOMAIN cached \ E : q # p => cached'[q] = cached[q]
  /\ cached' = [q \in DOMAIN cached' |-> cached'[q]]
  /\ heap' = [x \in DOMAIN heap' |-> heap'[x]]
  /\ IsFiniteSet(DOMAIN cached') /\ IsFiniteSet(E)
  /\ E = {} \/ Cardinality(E) = 1
  /\ (E = {}) = ~(Full /\ Victims # {})
  /\ orphaned' = (orphaned \/ \E v \in E : cached[v] \in Held)

LEMMA PutPageDoes ==
  ASSUME TypeOK, NEW p \in DOMAIN disk, NEW cells \in SUBSET Cells, PutPage(p, cells)
  PROVE  \E o \in Objects, E \in SUBSET Victims : PagePut(p, cells, o, E)
<1>1. Fresh \in Objects /\ Fresh \notin Range(cached) /\ Fresh \notin Held
  BY FreshIsFree
<1>2. /\ DOMAIN heap' = DOMAIN heap \cup {Fresh}
      /\ heap'[Fresh] = [cells |-> cells, dirty |-> FALSE]
      /\ \A x \in DOMAIN heap : x # Fresh => heap'[x] = heap[x]
      /\ heap' = [x \in DOMAIN heap' |-> heap'[x]]
  BY DEF PutPage, With
<1>3. IsFiniteSet(DOMAIN cached) /\ DOMAIN cached \subseteq DOMAIN disk
  BY DEF TypeOK
<1>4. CASE ~(Full /\ Victims # {})
  <2>1. cached' = With(cached, p, Fresh) /\ orphaned' = orphaned /\ orphaned \in BOOLEAN
    BY <1>4 DEF PutPage, TypeOK
  <2>2. /\ DOMAIN cached' = DOMAIN cached \cup {p} /\ cached'[p] = Fresh
        /\ \A q \in DOMAIN cached : q # p => cached'[q] = cached[q]
        /\ cached' = [q \in DOMAIN cached' |-> cached'[q]]
    BY <2>1 DEF With
  <2>3. IsFiniteSet(DOMAIN cached')
    BY <1>3, <2>2, FS_AddElement
  <2>4. PagePut(p, cells, Fresh, {})
    BY <1>1, <1>2, <1>4, <2>1, <2>2, <2>3, FS_EmptySet DEF PagePut
  <2>. QED
    BY <1>1, <2>4
<1>5. CASE Full /\ Victims # {}
  <2>1. PICK v \in Victims :
          /\ cached' = With(Restrict(cached, DOMAIN cached \ {v}), p, Fresh)
          /\ orphaned' = (orphaned \/ cached[v] \in Held)
    BY <1>5 DEF PutPage
  <2>3. /\ DOMAIN cached' = (DOMAIN cached \ {v}) \cup {p} /\ cached'[p] = Fresh
        /\ \A q \in DOMAIN cached \ {v} : q # p => cached'[q] = cached[q]
        /\ cached' = [q \in DOMAIN cached' |-> cached'[q]]
    BY <2>1 DEF With, Restrict
  <2>4. IsFiniteSet(DOMAIN cached')
    <3>1. IsFiniteSet(DOMAIN cached \ {v})
      BY <1>3, FS_RemoveElement
    <3>2. IsFiniteSet((DOMAIN cached \ {v}) \cup {p})
      BY <3>1, FS_AddElement
    <3>. QED
      BY <2>3, <3>2
  <2>5. IsFiniteSet({v}) /\ Cardinality({v}) = 1 /\ {v} # {} /\ {v} \in SUBSET Victims
    BY FS_Singleton
  <2>6. orphaned' = (orphaned \/ \E w \in {v} : cached[w] \in Held)
    BY <2>1
  <2>7. ({v} = {}) = ~(Full /\ Victims # {})
    BY <1>5
  <2>8. PagePut(p, cells, Fresh, {v})
    BY <1>1, <1>2, <2>3, <2>4, <2>5, <2>6, <2>7 DEF PagePut
  <2>. QED
    BY <1>1, <2>5, <2>8
<1>. QED
  BY <1>4, <1>5

LEMMA CachedIsTyped ==
  ASSUME TypeOK
  PROVE  /\ \A p \in DOMAIN cached : cached[p] \in DOMAIN heap /\ heap[cached[p]] \in Pages
         /\ DOMAIN cached \subseteq DOMAIN disk /\ DOMAIN disk \subseteq PageIds
         /\ \A p \in DOMAIN disk : disk[p] \in SUBSET Cells
         /\ \A o \in DOMAIN heap : heap[o] \in Pages
         /\ \A p \in DOMAIN cached : cached[p] \in Range(cached)
         /\ IsFiniteSet(DOMAIN cached) /\ Cardinality(DOMAIN cached) \in Nat
         /\ IsFiniteSet(Victims) /\ Cardinality(Victims) \in Nat
<1>1. IsFiniteSet(Victims) /\ Cardinality(Victims) \in Nat
  <2>1. Victims \subseteq DOMAIN cached
    BY DEF Victims
  <2>. QED
    BY <2>1, FS_Subset, FS_CardinalityType DEF TypeOK
<1>2. IsFiniteSet(DOMAIN cached) /\ Cardinality(DOMAIN cached) \in Nat
  BY FS_CardinalityType DEF TypeOK
<1>. QED
  BY <1>1, <1>2 DEF TypeOK, Range

LEMMA PutIsTyped ==
  ASSUME TypeOK, NEW p \in DOMAIN disk, NEW cells \in SUBSET Cells,
         NEW o \in Objects, NEW E \in SUBSET Victims, PagePut(p, cells, o, E)
  PROVE  /\ DOMAIN cached' \subseteq DOMAIN disk
         /\ IsFiniteSet(DOMAIN cached')
         /\ cached' \in [DOMAIN cached' -> DOMAIN heap']
         /\ DOMAIN heap' \subseteq Objects /\ heap' \in [DOMAIN heap' -> Pages]
         /\ Held \subseteq DOMAIN heap' /\ o \in DOMAIN heap'
<1>1. \A q \in DOMAIN cached' : cached'[q] \in DOMAIN heap'
  BY CachedIsTyped DEF PagePut
<1>2. \A x \in DOMAIN heap' : heap'[x] \in Pages
  <2>1. [cells |-> cells, dirty |-> FALSE] \in Pages
    BY DEF Pages
  <2>. QED
    BY <2>1, CachedIsTyped DEF PagePut
<1>3. DOMAIN cached' \subseteq DOMAIN disk /\ DOMAIN heap' \subseteq Objects
      /\ IsFiniteSet(DOMAIN cached')
  BY CachedIsTyped DEF PagePut, TypeOK
<1>4. /\ cached' \in [DOMAIN cached' -> DOMAIN heap']
      /\ heap' \in [DOMAIN heap' -> Pages]
  BY <1>1, <1>2 DEF PagePut
<1>5. Held \subseteq DOMAIN heap' /\ o \in DOMAIN heap'
  BY DEF PagePut, TypeOK
<1>. QED
  BY <1>3, <1>4, <1>5

\* The bound on the map.
LEMMA FewerVictims ==
  ASSUME TypeOK, GrowsByDirtyPages, DOMAIN cached' = DOMAIN cached,
         Victims' \subseteq Victims
  PROVE  GrowsByDirtyPages'
<1>1. /\ IsFiniteSet(Victims) /\ Cardinality(Victims) \in Nat
      /\ Cardinality(Victims') <= Cardinality(Victims)
      /\ Cardinality(Victims') \in Nat
  BY CachedIsTyped, FS_Subset, FS_CardinalityType
<1>. QED
  BY <1>1 DEF GrowsByDirtyPages

LEMMA OneMore ==
  ASSUME NEW S, IsFiniteSet(S), NEW x
  PROVE  /\ IsFiniteSet(S \cup {x}) /\ Cardinality(S \cup {x}) \in Nat
         /\ Cardinality(S) \in Nat /\ Cardinality(S \cup {x}) <= Cardinality(S) + 1
<1>. DEFINE T == S \cup {x}
<1>1. IsFiniteSet(T) /\ Cardinality(T) = IF x \in S THEN Cardinality(S) ELSE Cardinality(S) + 1
  BY FS_AddElement
<1>. HIDE DEF T
<1>2. Cardinality(S) \in Nat /\ Cardinality(T) \in Nat
  BY <1>1, FS_CardinalityType
<1>3. Cardinality(T) <= Cardinality(S) + 1
  BY <1>1, <1>2
<1>. QED
  BY <1>1, <1>2, <1>3 DEF T

LEMMA PutKeepsBound ==
  ASSUME TypeOK, GrowsByDirtyPages, NEW p \in DOMAIN disk, NEW cells \in SUBSET Cells,
         NEW o \in Objects, NEW E \in SUBSET Victims, PagePut(p, cells, o, E)
  PROVE  GrowsByDirtyPages'
<1>. DEFINE D == DOMAIN cached
<1>1. /\ IsFiniteSet(D) /\ Cardinality(D) \in Nat /\ CachePages \in Nat
      /\ IsFiniteSet(Victims) /\ Cardinality(Victims) \in Nat
  BY CachedIsTyped, PageCacheConstants
<1>2. Victims' \subseteq (Victims \ E) \cup {p}
  BY CachedIsTyped DEF Victims, PagePut
<1>3. IsFiniteSet({p}) /\ Cardinality({p}) = 1
  BY FS_Singleton
<1>4. D' = (D \ E) \cup {p} /\ IsFiniteSet(E) /\ E \subseteq D
  BY DEF PagePut, Victims
<1>5. CASE E = {}
  <2>1. Cardinality(D') <= Cardinality(D) + 1 /\ Cardinality(D') \in Nat
    <3>1. D' = D \cup {p}
      BY <1>4, <1>5
    <3>. QED
      BY <1>1, <3>1, OneMore
  <2>2. CASE Victims = {}
    <3>1. Victims' \subseteq {p}
      BY <1>2, <2>2
    <3>2. Cardinality(Victims') <= 1
      BY <1>3, <3>1, FS_Subset
    <3>. QED
      BY <3>2 DEF GrowsByDirtyPages
  <2>3. CASE ~Full
    BY <1>1, <2>1, <2>3 DEF Full, GrowsByDirtyPages
  <2>. QED
    BY <1>5, <2>2, <2>3 DEF PagePut
<1>6. CASE E # {}
  <2>1. Cardinality(E) = 1 /\ Full
    BY <1>6 DEF PagePut
  <2>2. Cardinality(D') <= Cardinality(D) /\ Cardinality(D') \in Nat
    <3>1. PICK v : E = {v}
      BY <1>4, <2>1, FS_Singleton
    <3>2. IsFiniteSet(D \ {v}) /\ Cardinality(D \ {v}) = Cardinality(D) - 1
      BY <1>1, <1>4, <3>1, FS_RemoveElement
    <3>3. /\ IsFiniteSet((D \ {v}) \cup {p})
          /\ Cardinality((D \ {v}) \cup {p}) <= Cardinality(D \ {v}) + 1
      BY <3>2, OneMore
    <3>4. Cardinality((D \ {v}) \cup {p}) \in Nat
      BY <3>3, FS_CardinalityType
    <3>. QED
      BY <1>1, <1>4, <3>1, <3>2, <3>3, <3>4
  <2>3. CASE Cardinality(D) + 1 > CachePages
    <3>1. Cardinality(Victims) <= 1
      BY <2>3 DEF GrowsByDirtyPages
    <3>2. Victims = E
      <4>1. Cardinality(Victims) = 1
        <5>1. Cardinality(E) <= Cardinality(Victims)
          BY <1>1, FS_Subset
        <5>. QED
          BY <1>1, <2>1, <3>1, <5>1
      <4>. QED
        BY <1>1, <2>1, <4>1, FS_Subset
    <3>3. Victims' \subseteq {p}
      BY <1>2, <3>2
    <3>4. Cardinality(Victims') <= 1
      BY <1>3, <3>3, FS_Subset
    <3>. QED
      BY <3>4 DEF GrowsByDirtyPages
  <2>4. CASE ~(Cardinality(D) + 1 > CachePages)
    <3>1. ~(Cardinality(D') + 1 > CachePages)
      BY <1>1, <2>2, <2>4
    <3>. QED
      BY <3>1 DEF GrowsByDirtyPages
  <2>. QED
    BY <2>3, <2>4
<1>. QED
  BY <1>5, <1>6

-----------------------------------------------------------------------------
(* What a step of one thread may do to the pages.                          *)

\* Thread t goes on with the locals e; its pages stay its own.
LEMMA OneMoves ==
  ASSUME TypeOK, PagesExist, OnePageEach, NEW t \in Threads, NEW e \in Locals,
         thread' = [thread EXCEPT ![t] = e],
         \A u \in Threads : u # t => chain'[u] = chain[u],
         count \in Nat, count' \in Nat, count' >= count,
         count' # count => thread[t].pc \in AtNewPage,
         DOMAIN cached' \subseteq DOMAIN cached \cup Owned(t),
         \A p \in DOMAIN disk :
           p \notin Owned(t) /\ p \notin DOMAIN cached => disk'[p] = disk[p],
         \A u \in Threads : u # t => Owned(t)' \cap Owned(u) = {},
         e.pc \in AtNewPage => thread[t].pc \in AtNewPage \/ Allocating = {},
         WorksOn(t)',
         \A p \in DOMAIN cached' :
           p < count' \/ \E u \in Threads : thread'[u].pc = "count" /\ thread'[u].page = p
  PROVE  OnePageEach'
<1>1. thread'[t] = e /\ \A u \in Threads : u # t => thread'[u] = thread[u]
  BY DEF TypeOK
<1>2. ASSUME NEW u \in Threads, u # t PROVE Owned(u)' = Owned(u)
  BY <1>1, <1>2 DEF Owned
<1>3. ASSUME NEW u \in Threads, u # t PROVE WorksOn(u)'
  <2>1. WorksOn(u) /\ Owned(t) \cap Owned(u) = {} /\ chain'[u] = chain[u]
        /\ thread'[u] = thread[u]
        /\ ~(thread[t].pc \in AtNewPage /\ thread[u].pc \in AtNewPage)
    BY <1>1, <1>3 DEF OnePageEach
  <2>2. thread[u].page \in Nat /\ \A p \in Range(chain[u]) : p \in Nat
    <3>1. thread[u] \in Locals /\ chain[u] \in Seq(PageIds)
      BY DEF TypeOK
    <3>2. thread[u].page \in Nat
      BY <3>1 DEF Locals, PageIds
    <3>. QED
      BY <3>1, <3>2 DEF PageIds, Range
  <2>3. IsInjective(chain'[u]) /\ \A p \in Range(chain'[u]) : p < count'
    BY <2>1, <2>2 DEF WorksOn
  <2>4. thread[u].pc \in AtPage =>
          /\ thread[u].page < count'
          /\ (thread[u].page \in Range(chain'[u])) = ~thread[u].new
    BY <2>1, <2>2 DEF WorksOn
  <2>5. thread[u].pc \in AtNewPage => thread[u].page = count' /\ thread[u].new
    BY <2>1 DEF WorksOn
  <2>6. ASSUME thread[u].pc \in {"read", "insert", "zero", "cache"}
        PROVE  /\ thread[u].page \notin DOMAIN cached'
               /\ thread[u].pc # "zero" => disk'[thread[u].page] = disk[thread[u].page]
    <3>1. thread[u].page \in Owned(u)
      BY <2>6 DEF Owned, AtPage, AtNewPage
    <3>2. thread[u].page \notin DOMAIN cached
      BY <2>1, <2>6 DEF WorksOn
    <3>3. thread[u].pc # "zero" => thread[u].page \in DOMAIN disk
      BY <2>6 DEF PagesExist, AtPage
    <3>. QED
      BY <2>1, <3>1, <3>2, <3>3
  <2>. QED
    BY <2>1, <2>3, <2>4, <2>5, <2>6 DEF WorksOn
<1>4. ASSUME NEW u \in Threads, NEW v \in Threads, u # v
      PROVE  /\ Owned(u)' \cap Owned(v)' = {}
             /\ ~(thread'[u].pc \in AtNewPage /\ thread'[v].pc \in AtNewPage)
  <2>1. Owned(u) \cap Owned(v) = {} /\ ~(thread[u].pc \in AtNewPage /\ thread[v].pc \in AtNewPage)
    BY <1>4 DEF OnePageEach
  <2>2. CASE u # t /\ v # t
    BY <1>1, <1>2, <2>1, <2>2
  <2>3. CASE u = t
    BY <1>1, <1>2, <1>4, <2>1, <2>3 DEF Allocating, AtNewPage
  <2>4. CASE v = t
    BY <1>1, <1>2, <1>4, <2>1, <2>4 DEF Allocating, AtNewPage
  <2>. QED
    BY <2>2, <2>3, <2>4
<1>. QED
  BY <1>3, <1>4 DEF OnePageEach

\* A step that changes only the locals of t, and page_count perhaps.
LEMMA ThreadStep ==
  ASSUME IndInv, NEW t \in Threads, NEW e \in Locals,
         thread' = [thread EXCEPT ![t] = e],
         UNCHANGED <<disk, onDisk, cached, heap, chain, acked, flush, orphaned>>,
         count' \in Nat, count' # 0,
         overlapped' \in BOOLEAN, overlapped => overlapped',
         e.pc \in AtPage \cup {"cache", "count"} => e.page \in DOMAIN disk,
         e.pc = "zero" => e.page # 0, e.pc # "idle" => e.inserts # 0,
         e.pc = "write" => e.page \in DOMAIN cached /\ e.object = cached[e.page],
         ~overlapped' => OnePageEach'
  PROVE  IndInv'
<1>1. thread'[t] = e /\ \A u \in Threads : u # t => thread'[u] = thread[u]
  BY DEF IndInv, TypeOK
<1>2. e.pc = "write" => e.object \in DOMAIN heap /\ e.object # 0
  BY CachedIsTyped DEF IndInv, TypeOK, Objects
<1>3. TypeOK'
  <2>1. Held' \subseteq DOMAIN heap'
    <3>1. ASSUME NEW u \in Threads, thread'[u].pc = "write"
          PROVE  thread'[u].object \in DOMAIN heap
      BY <1>1, <1>2, <3>1 DEF IndInv, TypeOK, Held
    <3>. QED
      BY <3>1 DEF Held
  <2>2. thread' \in [Threads -> Locals]
    BY DEF IndInv, TypeOK
  <2>. QED
    BY <2>1, <2>2 DEF IndInv, TypeOK
<1>4. PagesExist'
  BY <1>1, <1>2 DEF IndInv, PagesExist
<1>5. FlushInOrder' /\ GrowsByDirtyPages' /\ (flush.due \subseteq acked)'
  BY DEF IndInv, FlushInOrder, GrowsByDirtyPages, Victims
<1>6. ~overlapped' => CleanIsOnDisk'
  BY DEF IndInv, CleanIsOnDisk
<1>7. ASSUME ~overlapped', ~orphaned' PROVE NothingLost'
  <2>1. NothingLost
    BY <1>7 DEF IndInv
  <2>2. \A u \in Threads : thread'[u].pc = "write" =>
          thread'[u].page \in DOMAIN cached /\ cached[thread'[u].page] = thread'[u].object
    BY <1>1, <2>1 DEF NothingLost
  <2>3. /\ \A c \in acked : Kept(c)'
        /\ flush.active => \A c \in flush.due : Flushed(c)'
    BY <2>1 DEF NothingLost, Kept, Flushed, Now
  <2>4. FlushCompletes'
    BY <2>1 DEF NothingLost, FlushCompletes
  <2>. QED
    BY <2>1, <2>2, <2>3, <2>4 DEF NothingLost
<1>. QED
  BY <1>3, <1>4, <1>5, <1>6, <1>7 DEF IndInv

\* A step of t that leaves the pages of all threads as they were.
LEMMA OneStays ==
  ASSUME TypeOK, PagesExist, OnePageEach, NEW t \in Threads, NEW e \in Locals,
         thread' = [thread EXCEPT ![t] = e],
         UNCHANGED <<disk, count, cached, chain>>,
         e.pc \in AtPage \cup AtNewPage => e.page \in Owned(t),
         e.pc \in AtNewPage => thread[t].pc \in AtNewPage,
         thread[t].pc # "count", WorksOn(t)'
  PROVE  OnePageEach'
<1>1. thread'[t] = e /\ \A u \in Threads : u # t => thread'[u] = thread[u]
  BY DEF TypeOK
<1>2. Owned(t)' \subseteq Owned(t)
  BY <1>1 DEF Owned
<1>3. \A p \in DOMAIN cached' :
        p < count' \/ \E u \in Threads : thread'[u].pc = "count" /\ thread'[u].page = p
  BY <1>1 DEF OnePageEach
<1>4. count \in Nat /\ count' >= count
  BY DEF TypeOK
<1>5. \A u \in Threads : u # t => Owned(t)' \cap Owned(u) = {}
  BY <1>2 DEF OnePageEach
<1>. QED
  BY <1>3, <1>4, <1>5, OneMoves

LEMMA LastIsIn ==
  ASSUME NEW S, NEW s \in Seq(S), s # <<>>
  PROVE  Last(s) \in Range(s)
<1>1. Len(s) \in DOMAIN s
  OBVIOUS
<1>. QED
  BY <1>1 DEF Last, Range

LEMMA StartInsertKeeps ==
  ASSUME IndInv, NEW t \in Threads, StartInsert(t)
  PROVE  IndInv'
<1>1. /\ thread[t] \in Locals /\ thread[t].pc = "idle" /\ thread[t].inserts < MaxInserts
      /\ chain[t] \in Seq(PageIds) /\ chain[t] # <<>> /\ Range(chain[t]) \subseteq DOMAIN disk
      /\ DOMAIN disk \subseteq PageIds
      /\ UNCHANGED <<disk, count, onDisk, cached, heap, chain, acked, flush, history>>
  BY DEF StartInsert, IndInv, TypeOK, PagesExist
<1>2. Last(chain[t]) \in Range(chain[t]) /\ Last(chain[t]) \in DOMAIN disk
  BY <1>1, LastIsIn
<1>3. thread[t].inserts + 1 \in 0..MaxInserts /\ thread[t].inserts + 1 # 0
  BY <1>1, PageCacheConstants DEF Locals
<1>4. PICK e \in Locals :
        /\ thread' = [thread EXCEPT ![t] = e]
        /\ e.pc = "lookup" /\ e.page = Last(chain[t]) /\ e.new = thread[t].new
        /\ e.inserts # 0
  <2>. DEFINE e == [thread[t] EXCEPT !.pc = "lookup", !.page = Last(chain[t]),
                                     !.inserts = @ + 1]
  <2>1. e \in Locals
    BY <1>1, <1>2, <1>3 DEF Locals
  <2>2. thread' = [thread EXCEPT ![t] = e]
    BY DEF StartInsert
  <2>3. /\ e.pc = "lookup" /\ e.page = Last(chain[t]) /\ e.new = thread[t].new
        /\ e.inserts # 0
    BY <1>1, <1>3 DEF Locals
  <2>. HIDE DEF e
  <2>. QED
    BY <2>1, <2>2, <2>3
<1>5. thread'[t] = e
  BY <1>4 DEF IndInv, TypeOK
<1>6. ASSUME ~overlapped' PROVE OnePageEach'
  <2>1. OnePageEach /\ WorksOn(t)
    BY <1>1, <1>6 DEF IndInv, OnePageEach, history
  <2>2. WorksOn(t)'
    BY <1>1, <1>2, <1>4, <1>5, <2>1 DEF WorksOn, AtPage, AtNewPage
  <2>3. e.page \in Owned(t)
    BY <1>2, <1>4 DEF Owned
  <2>. QED
    BY <1>1, <1>4, <2>1, <2>2, <2>3, OneStays DEF IndInv, AtNewPage
<1>. QED
  BY <1>1, <1>2, <1>4, <1>6, ThreadStep DEF IndInv, TypeOK, history

\* A step in which t stays at its page, or at its new page.
LEMMA GoesOnAtPage ==
  ASSUME IndInv, NEW t \in Threads, NEW e \in Locals,
         thread' = [thread EXCEPT ![t] = e],
         UNCHANGED <<disk, count, onDisk, cached, heap, chain, acked, flush, history>>,
         thread[t].pc \in AtPage, e.pc \in AtPage,
         e.page = thread[t].page, e.new = thread[t].new, e.inserts = thread[t].inserts,
         e.pc = "write" => e.page \in DOMAIN cached /\ e.object = cached[e.page],
         e.pc \in {"read", "insert"} =>
           thread[t].pc = "read" \/ e.page \notin DOMAIN cached,
         e.pc = "insert" => e.image = disk[e.page]
  PROVE  IndInv'
<1>1. e.page \in DOMAIN disk /\ e.inserts # 0
  BY DEF IndInv, PagesExist, AtPage
<1>2. thread'[t] = e
  BY DEF IndInv, TypeOK
<1>3. ASSUME ~overlapped' PROVE OnePageEach'
  <2>1. OnePageEach /\ WorksOn(t)
    BY <1>3 DEF IndInv, OnePageEach, history
  <2>2. WorksOn(t)'
    BY <1>2, <2>1 DEF WorksOn, AtPage, AtNewPage
  <2>3. e.page \in Owned(t)
    BY DEF Owned
  <2>. QED
    BY <2>1, <2>2, <2>3, OneStays DEF IndInv, AtNewPage, AtPage
<1>. QED
  BY <1>1, <1>3, ThreadStep DEF IndInv, TypeOK, history, AtPage

LEMMA HitKeeps ==
  ASSUME IndInv, NEW t \in Threads, Hit(t)
  PROVE  IndInv'
<1>1. /\ thread[t] \in Locals /\ thread[t].pc = "lookup"
      /\ thread[t].page \in DOMAIN cached /\ cached[thread[t].page] \in Objects
      /\ UNCHANGED <<disk, count, onDisk, cached, heap, chain, acked, flush, history>>
  BY DEF Hit, IndInv, TypeOK
<1>2. PICK e \in Locals :
        /\ thread' = [thread EXCEPT ![t] = e] /\ e.pc = "write"
        /\ e.page = thread[t].page /\ e.new = thread[t].new
        /\ e.inserts = thread[t].inserts /\ e.object = cached[thread[t].page]
  <2>. DEFINE e == [thread[t] EXCEPT !.pc = "write", !.object = cached[thread[t].page]]
  <2>1. e \in Locals
    BY <1>1 DEF Locals
  <2>2. thread' = [thread EXCEPT ![t] = e]
    BY DEF Hit
  <2>3. /\ e.pc = "write" /\ e.page = thread[t].page /\ e.new = thread[t].new
        /\ e.inserts = thread[t].inserts /\ e.object = cached[thread[t].page]
    BY <1>1 DEF Locals
  <2>. HIDE DEF e
  <2>. QED
    BY <2>1, <2>2, <2>3
<1>. QED
  BY <1>1, <1>2, GoesOnAtPage DEF AtPage

LEMMA MissKeeps ==
  ASSUME IndInv, NEW t \in Threads, Miss(t)
  PROVE  IndInv'
<1>1. /\ thread[t] \in Locals /\ thread[t].pc = "lookup"
      /\ thread[t].page \notin DOMAIN cached
      /\ UNCHANGED <<disk, count, onDisk, cached, heap, chain, acked, flush, history>>
  BY DEF Miss, IndInv, TypeOK
<1>2. PICK e \in Locals :
        /\ thread' = [thread EXCEPT ![t] = e] /\ e.pc = "read"
        /\ e.page = thread[t].page /\ e.new = thread[t].new
        /\ e.inserts = thread[t].inserts
  <2>. DEFINE e == [thread[t] EXCEPT !.pc = "read"]
  <2>1. e \in Locals
    BY <1>1 DEF Locals
  <2>2. thread' = [thread EXCEPT ![t] = e]
    BY DEF Miss, Goto
  <2>3. /\ e.pc = "read" /\ e.page = thread[t].page /\ e.new = thread[t].new
        /\ e.inserts = thread[t].inserts
    BY <1>1 DEF Locals
  <2>. HIDE DEF e
  <2>. QED
    BY <2>1, <2>2, <2>3
<1>. QED
  BY <1>1, <1>2, GoesOnAtPage DEF AtPage

LEMMA ReadFromDiskKeeps ==
  ASSUME IndInv, NEW t \in Threads, ReadFromDisk(t)
  PROVE  IndInv'
<1>1. /\ thread[t] \in Locals /\ thread[t].pc = "read"
      /\ UNCHANGED <<disk, count, onDisk, cached, heap, chain, acked, flush, history>>
  BY DEF ReadFromDisk, IndInv, TypeOK
<1>2. disk[thread[t].page] \in SUBSET Cells
  <2>1. thread[t].page \in DOMAIN disk
    BY <1>1 DEF IndInv, PagesExist, AtPage
  <2>. QED
    BY <2>1, CachedIsTyped DEF IndInv
<1>3. PICK e \in Locals :
        /\ thread' = [thread EXCEPT ![t] = e] /\ e.pc = "insert"
        /\ e.page = thread[t].page /\ e.new = thread[t].new
        /\ e.inserts = thread[t].inserts /\ e.image = disk[thread[t].page]
  <2>. DEFINE e == [thread[t] EXCEPT !.pc = "insert", !.image = disk[thread[t].page]]
  <2>1. e \in Locals
    BY <1>1, <1>2 DEF Locals
  <2>2. thread' = [thread EXCEPT ![t] = e]
    BY DEF ReadFromDisk
  <2>3. /\ e.pc = "insert" /\ e.page = thread[t].page /\ e.new = thread[t].new
        /\ e.inserts = thread[t].inserts /\ e.image = disk[thread[t].page]
    BY <1>1 DEF Locals
  <2>. HIDE DEF e
  <2>. QED
    BY <2>1, <2>2, <2>3
<1>. QED
  BY <1>1, <1>3, GoesOnAtPage DEF AtPage

LEMMA PageFullKeeps ==
  ASSUME IndInv, NEW t \in Threads, PageFull(t)
  PROVE  IndInv'
<1>1. /\ thread[t] \in Locals /\ thread[t].pc = "write" /\ thread[t].inserts # 0
      /\ UNCHANGED <<disk, count, onDisk, cached, heap, chain, acked, flush, history>>
  BY DEF PageFull, IndInv, TypeOK, PagesExist
<1>2. PICK e \in Locals :
        /\ thread' = [thread EXCEPT ![t] = e]
        /\ e.pc \in {"idle", "allocate"} /\ ~e.new /\ e.inserts # 0
  <2>1. CASE thread[t].new
    <3>. DEFINE e == Resting(thread[t].inserts)
    <3>1. e \in Locals
      BY <1>1 DEF Locals, Resting
    <3>2. thread' = [thread EXCEPT ![t] = e]
      BY <2>1 DEF PageFull
    <3>3. e.pc = "idle" /\ ~e.new /\ e.inserts # 0
      BY <1>1 DEF Resting
    <3>. HIDE DEF e
    <3>. QED
      BY <3>1, <3>2, <3>3
  <2>2. CASE ~thread[t].new
    <3>. DEFINE e == [thread[t] EXCEPT !.pc = "allocate", !.page = 0, !.object = 0]
    <3>1. e \in Locals
      BY <1>1 DEF Locals
    <3>2. thread' = [thread EXCEPT ![t] = e]
      BY <2>2 DEF PageFull
    <3>3. e.pc = "allocate" /\ ~e.new /\ e.inserts # 0
      BY <1>1, <2>2 DEF Locals
    <3>. HIDE DEF e
    <3>. QED
      BY <3>1, <3>2, <3>3
  <2>. QED
    BY <2>1, <2>2
<1>3. thread'[t] = e
  BY <1>2 DEF IndInv, TypeOK
<1>4. ASSUME ~overlapped' PROVE OnePageEach'
  <2>1. OnePageEach /\ WorksOn(t)
    BY <1>1, <1>4 DEF IndInv, OnePageEach, history
  <2>2. WorksOn(t)'
    BY <1>1, <1>2, <1>3, <2>1 DEF WorksOn, AtPage, AtNewPage
  <2>. QED
    BY <1>1, <1>2, <2>1, <2>2, OneStays DEF IndInv, AtPage, AtNewPage
<1>. QED
  BY <1>1, <1>2, <1>4, ThreadStep DEF IndInv, TypeOK, history, AtPage

LEMMA TakeIdKeeps ==
  ASSUME IndInv, NEW t \in Threads, TakeId(t)
  PROVE  IndInv'
<1>1. /\ thread[t] \in Locals /\ thread[t].pc = "allocate" /\ thread[t].inserts # 0
      /\ UNCHANGED <<disk, count, onDisk, cached, heap, chain, acked, flush, orphaned>>
      /\ overlapped' = (overlapped \/ Allocating # {})
      /\ count \in Nat /\ count # 0
  BY DEF TakeId, IndInv, TypeOK, PagesExist
<1>2. PICK e \in Locals :
        /\ thread' = [thread EXCEPT ![t] = e]
        /\ e.pc = "zero" /\ e.page = count /\ e.new /\ e.inserts = thread[t].inserts
  <2>. DEFINE e == [thread[t] EXCEPT !.pc = "zero", !.page = count, !.new = TRUE]
  <2>1. e \in Locals
    BY <1>1 DEF Locals, PageIds
  <2>2. thread' = [thread EXCEPT ![t] = e]
    BY DEF TakeId, NextPageId
  <2>3. e.pc = "zero" /\ e.page = count /\ e.new /\ e.inserts = thread[t].inserts
    BY <1>1 DEF Locals
  <2>. HIDE DEF e
  <2>. QED
    BY <2>1, <2>2, <2>3
<1>3. thread'[t] = e /\ \A u \in Threads : u # t => thread'[u] = thread[u]
  BY <1>2 DEF IndInv, TypeOK
<1>4. ASSUME ~overlapped' PROVE OnePageEach'
  <2>1. OnePageEach /\ WorksOn(t) /\ Allocating = {}
    BY <1>1, <1>4 DEF IndInv, OnePageEach, TypeOK
  <2>2. \A p \in DOMAIN cached : p < count
    BY <2>1 DEF OnePageEach, Allocating
  <2>3. count \notin DOMAIN cached
    BY <1>1, <2>2
  <2>4. WorksOn(t)'
    BY <1>1, <1>2, <1>3, <2>1, <2>3 DEF WorksOn, AtPage, AtNewPage
  <2>5. ASSUME NEW u \in Threads, u # t PROVE Owned(t)' \cap Owned(u) = {}
    <3>1. WorksOn(u) /\ thread[u].pc \notin AtNewPage /\ Owned(t) \cap Owned(u) = {}
      BY <2>1, <2>5 DEF OnePageEach, Allocating, AtNewPage
    <3>2. count \notin Owned(u)
      BY <1>1, <3>1 DEF WorksOn, Owned
    <3>3. Owned(t)' \subseteq Owned(t) \cup {count}
      BY <1>1, <1>2, <1>3 DEF Owned
    <3>. QED
      BY <3>1, <3>2, <3>3
  <2>6. \A p \in DOMAIN cached' : p < count'
    BY <1>1, <2>2
  <2>7. count' = count /\ count' >= count /\ count' \in Nat
    BY <1>1
  <2>8. DOMAIN cached' = DOMAIN cached /\ disk' = disk /\ chain' = chain
    BY <1>1
  <2>. QED
    BY <1>2, <2>1, <2>4, <2>5, <2>6, <2>7, <2>8, OneMoves DEF IndInv
<1>5. overlapped' \in BOOLEAN /\ (overlapped => overlapped')
  BY <1>1
<1>. QED
  BY <1>1, <1>2, <1>4, <1>5, ThreadStep DEF AtPage

LEMMA SetCountKeeps ==
  ASSUME IndInv, NEW t \in Threads, SetCount(t)
  PROVE  IndInv'
<1>1. /\ thread[t] \in Locals /\ thread[t].pc = "count" /\ thread[t].inserts # 0
      /\ UNCHANGED <<disk, onDisk, cached, heap, chain, acked, flush, history>>
      /\ count' = thread[t].page + 1 /\ count \in Nat
      /\ thread[t].page \in DOMAIN disk /\ DOMAIN disk \subseteq PageIds
  BY DEF SetCount, IndInv, TypeOK, PagesExist
<1>2. count' \in Nat /\ count' # 0
  BY <1>1 DEF PageIds
<1>3. PICK e \in Locals :
        /\ thread' = [thread EXCEPT ![t] = e]
        /\ e.pc = "lookup" /\ e.page = thread[t].page /\ e.new = thread[t].new
        /\ e.inserts = thread[t].inserts
  <2>. DEFINE e == [thread[t] EXCEPT !.pc = "lookup"]
  <2>1. e \in Locals
    BY <1>1 DEF Locals
  <2>2. thread' = [thread EXCEPT ![t] = e]
    BY DEF SetCount, Goto
  <2>3. /\ e.pc = "lookup" /\ e.page = thread[t].page /\ e.new = thread[t].new
        /\ e.inserts = thread[t].inserts
    BY <1>1 DEF Locals
  <2>. HIDE DEF e
  <2>. QED
    BY <2>1, <2>2, <2>3
<1>4. thread'[t] = e /\ \A u \in Threads : u # t => thread'[u] = thread[u]
  BY <1>3 DEF IndInv, TypeOK
<1>5. ASSUME ~overlapped' PROVE OnePageEach'
  <2>1. OnePageEach /\ WorksOn(t)
    BY <1>1, <1>5 DEF IndInv, OnePageEach, history
  <2>2. thread[t].page = count /\ count' = count + 1 /\ thread[t].new
    BY <1>1, <2>1 DEF WorksOn, AtNewPage
  <2>3. \A p \in Range(chain[t]) : p \in Nat
    <3>1. chain[t] \in Seq(PageIds)
      BY DEF IndInv, TypeOK
    <3>. QED
      BY <3>1 DEF PageIds, Range
  <2>4. WorksOn(t)'
    <3>1. \A p \in Range(chain[t]) : p < count' /\ p # count
      BY <1>1, <2>1, <2>2, <2>3 DEF WorksOn
    <3>2. e.page = count /\ e.page < count' /\ e.page \notin Range(chain[t])
      BY <1>1, <1>3, <2>2, <3>1
    <3>3. IsInjective(chain[t])' /\ chain' = chain
      BY <1>1, <2>1 DEF WorksOn
    <3>4. (e.page \in Range(chain'[t])) = ~e.new
      BY <1>3, <2>2, <3>2, <3>3
    <3>5. e.pc = "lookup"
      BY <1>3
    <3>6. (\A p \in Range(chain[t]) : p < count)'
      BY <3>1, <3>3
    <3>. QED
      BY <1>4, <3>2, <3>3, <3>4, <3>5, <3>6 DEF WorksOn, AtPage, AtNewPage
  <2>5. Owned(t)' = Owned(t)
    BY <1>1, <1>3, <1>4 DEF Owned, AtPage, AtNewPage
  <2>6. \A p \in DOMAIN cached : p < count'
    <3>. TAKE p \in DOMAIN cached
    <3>1. p \in Nat
      BY <1>1, CachedIsTyped DEF IndInv, PageIds
    <3>2. p < count \/ p = count
      <4>1. CASE \E u \in Threads : thread[u].pc = "count" /\ thread[u].page = p
        BY <2>1, <4>1 DEF OnePageEach, WorksOn, AtNewPage
      <4>. QED
        BY <2>1, <4>1 DEF OnePageEach
    <3>. QED
      BY <1>1, <2>2, <3>1, <3>2
  <2>7. \A u \in Threads : u # t => Owned(t)' \cap Owned(u) = {}
    BY <2>1, <2>5 DEF OnePageEach
  <2>8. count' >= count
    BY <1>1, <2>2
  <2>9. thread[t].pc \in AtNewPage /\ e.pc \notin AtNewPage
    BY <1>1, <1>3 DEF AtNewPage
  <2>. QED
    BY <1>1, <1>2, <1>3, <2>1, <2>4, <2>6, <2>7, <2>8, <2>9, OneMoves DEF IndInv
<1>. QED
  BY <1>1, <1>2, <1>3, <1>5, ThreadStep DEF IndInv, TypeOK, history, AtPage

\* A thread puts the page it works on into the map, perhaps for another one.
LEMMA PutKeeps ==
  ASSUME IndInv, ~flush.active, NEW t \in Threads, NEW e \in Locals,
         NEW cells \in SUBSET Cells, NEW o \in Objects, NEW E \in SUBSET Victims,
         PagePut(thread[t].page, cells, o, E),
         UNCHANGED <<disk, count, onDisk, chain, acked, flush, overlapped>>,
         thread' = [thread EXCEPT ![t] = e],
         e.page = thread[t].page, e.new = thread[t].new, e.inserts = thread[t].inserts,
         \/ thread[t].pc = "insert" /\ e.pc = "write" /\ e.object = o
         \/ thread[t].pc = "cache" /\ e.pc = "count",
         ~overlapped => cells = disk[thread[t].page]
  PROVE  IndInv'
<1>. DEFINE page == thread[t].page
<1>1. thread'[t] = e /\ \A u \in Threads : u # t => thread'[u] = thread[u]
  BY DEF IndInv, TypeOK
<1>2. page \in DOMAIN disk /\ thread[t].pc \in {"insert", "cache"} /\ thread[t].inserts # 0
  BY DEF IndInv, PagesExist, AtPage
<1>. HIDE DEF page
<1>3. PagePut(page, cells, o, E)
  BY DEF page
<1>4. \A p \in DOMAIN cached \ E : p # page =>
        /\ p \in DOMAIN cached' /\ cached'[p] = cached[p]
        /\ heap'[cached[p]] = heap[cached[p]]
  BY <1>3, CachedIsTyped DEF PagePut, IndInv
<1>5. page \in DOMAIN cached' /\ cached'[page] = o /\ heap'[o] = [cells |-> cells, dirty |-> FALSE]
  BY <1>3 DEF PagePut
<1>6. \A p \in DOMAIN cached' : p = page \/ p \in DOMAIN cached \ E
  BY <1>3 DEF PagePut
<1>7. TypeOK'
  <2>1. /\ DOMAIN cached' \subseteq DOMAIN disk /\ IsFiniteSet(DOMAIN cached')
        /\ cached' \in [DOMAIN cached' -> DOMAIN heap']
        /\ DOMAIN heap' \subseteq Objects /\ heap' \in [DOMAIN heap' -> Pages]
        /\ Held \subseteq DOMAIN heap' /\ o \in DOMAIN heap'
    BY <1>2, <1>3, PutIsTyped DEF IndInv
  <2>2. Held' \subseteq DOMAIN heap'
    <3>1. ASSUME NEW u \in Threads, thread'[u].pc = "write"
          PROVE  thread'[u].object \in DOMAIN heap'
      BY <1>1, <2>1, <3>1 DEF Held
    <3>. QED
      BY <3>1 DEF Held
  <2>3. thread' \in [Threads -> Locals]
    BY DEF IndInv, TypeOK
  <2>4. orphaned' \in BOOLEAN
    BY <1>3 DEF PagePut
  <2>. QED
    BY <2>1, <2>2, <2>3, <2>4 DEF IndInv, TypeOK
<1>8. PagesExist'
  BY <1>1, <1>2 DEF IndInv, PagesExist, page, Objects
<1>9. FlushInOrder' /\ (flush.due \subseteq acked)' /\ count' # 0
  BY DEF IndInv, FlushInOrder
<1>10. GrowsByDirtyPages'
  BY <1>2, <1>3, PutKeepsBound DEF IndInv
<1>11. ASSUME ~overlapped'
       PROVE  /\ OnePageEach /\ WorksOn(t) /\ CleanIsOnDisk
              /\ page \notin DOMAIN cached /\ cells = disk[page]
  BY <1>2, <1>11 DEF IndInv, OnePageEach, WorksOn, page
<1>12. ASSUME ~overlapped' PROVE OnePageEach'
  <2>1. Owned(t)' = Owned(t) /\ page \in Owned(t)
    BY <1>1, <1>2 DEF Owned, AtPage, AtNewPage, page
  <2>2. WorksOn(t)'
    BY <1>1, <1>2, <1>11, <1>12 DEF WorksOn, AtPage, AtNewPage
  <2>3. ASSUME NEW p \in DOMAIN cached'
        PROVE  p < count' \/ \E u \in Threads : thread'[u].pc = "count" /\ thread'[u].page = p
    <3>1. CASE p = page
      BY <1>1, <1>2, <1>11, <1>12, <3>1 DEF WorksOn, AtPage, page
    <3>2. CASE p # page
      <4>1. p < count \/ \E u \in Threads : thread[u].pc = "count" /\ thread[u].page = p
        BY <1>6, <1>11, <1>12, <3>2 DEF OnePageEach
      <4>. QED
        BY <1>1, <1>2, <4>1
    <3>. QED
      BY <3>1, <3>2
  <2>4. DOMAIN cached' \subseteq DOMAIN cached \cup Owned(t)
    BY <1>6, <2>1
  <2>5. \A u \in Threads : u # t => Owned(t)' \cap Owned(u) = {}
    BY <1>11, <1>12, <2>1 DEF OnePageEach
  <2>6. e.pc \in AtNewPage => thread[t].pc \in AtNewPage
    BY <1>2 DEF AtNewPage
  <2>7. count \in Nat /\ count' = count /\ count' >= count
    BY DEF IndInv, TypeOK
  <2>. QED
    BY <1>11, <1>12, <2>2, <2>3, <2>4, <2>5, <2>6, <2>7, OneMoves DEF IndInv
<1>13. ASSUME ~overlapped' PROVE CleanIsOnDisk'
  <2>1. ASSUME NEW p \in DOMAIN cached', ~heap'[cached'[p]].dirty
        PROVE  heap'[cached'[p]].cells = disk[p]
    <3>1. CASE p = page
      BY <1>5, <1>11, <1>13, <3>1
    <3>2. CASE p # page
      BY <1>4, <1>6, <1>11, <1>13, <2>1, <3>2 DEF CleanIsOnDisk
    <3>. QED
      BY <3>1, <3>2
  <2>. QED
    BY <2>1 DEF CleanIsOnDisk
<1>14. ASSUME ~overlapped', ~orphaned' PROVE NothingLost'
  <2>1. NothingLost /\ \A v \in E : cached[v] \notin Held
    BY <1>3, <1>14 DEF IndInv, PagePut
  <2>2. ASSUME NEW p \in DOMAIN cached' PROVE disk'[p] \subseteq heap'[cached'[p]].cells
    <3>1. CASE p = page
      BY <1>5, <1>11, <1>14, <3>1
    <3>2. CASE p # page
      BY <1>4, <1>6, <2>1, <3>2 DEF NothingLost
    <3>. QED
      BY <3>1, <3>2
  <2>3. ASSUME NEW u \in Threads, thread'[u].pc = "write"
        PROVE  thread'[u].page \in DOMAIN cached' /\ cached'[thread'[u].page] = thread'[u].object
    <3>1. CASE u = t
      BY <1>1, <1>5, <2>3, <3>1 DEF page
    <3>2. CASE u # t
      <4>1. /\ thread'[u] = thread[u] /\ thread[u].pc = "write"
            /\ thread[u].page \in DOMAIN cached /\ cached[thread[u].page] = thread[u].object
        BY <1>1, <2>1, <2>3, <3>2 DEF NothingLost
      <4>2. thread[u].page \notin E
        BY <2>1, <4>1 DEF Held
      <4>3. thread[u].page # page
        BY <1>11, <1>14, <4>1
      <4>. QED
        BY <1>4, <4>1, <4>2, <4>3
    <3>. QED
      BY <3>1, <3>2
  <2>4. ASSUME NEW p PROVE Now(p)' = Now(p)
    <3>1. CASE p = page
      BY <1>5, <1>11, <1>14, <3>1 DEF Now
    <3>2. CASE p # page /\ p \in E
      <4>1. p \in DOMAIN cached /\ ~heap[cached[p]].dirty
        BY <3>2 DEF Victims
      <4>2. heap[cached[p]].cells = disk[p]
        BY <1>11, <1>14, <4>1 DEF CleanIsOnDisk
      <4>. QED
        BY <1>6, <3>2, <4>1, <4>2 DEF Now
    <3>3. CASE p # page /\ p \notin E /\ p \in DOMAIN cached
      BY <1>4, <3>3 DEF Now
    <3>4. CASE p # page /\ p \notin DOMAIN cached
      BY <1>6, <3>4 DEF Now
    <3>. QED
      BY <3>1, <3>2, <3>3, <3>4
  <2>5. ASSUME NEW c \in acked PROVE Kept(c)'
    BY <2>1, <2>4 DEF NothingLost, Kept
  <2>6. FlushCompletes'
    BY <2>1 DEF NothingLost, FlushCompletes
  <2>. QED
    BY <2>2, <2>3, <2>5, <2>6 DEF NothingLost
<1>. QED
  BY <1>7, <1>8, <1>9, <1>10, <1>12, <1>13, <1>14 DEF IndInv

LEMMA InsertPageKeeps ==
  ASSUME IndInv, NEW t \in Threads, InsertPage(t)
  PROVE  IndInv'
<1>1. /\ thread[t] \in Locals /\ thread[t].pc = "insert"
      /\ PutPage(thread[t].page, thread[t].image)
      /\ UNCHANGED <<disk, count, onDisk, chain, acked, flush, overlapped>>
      /\ thread[t].page \in DOMAIN disk
  BY DEF InsertPage, IndInv, TypeOK, PagesExist, AtPage
<1>2. thread[t].image \in SUBSET Cells /\ ~flush.active
  BY <1>1 DEF Locals, PutPage
<1>3. PICK o \in Objects, E \in SUBSET Victims :
        PagePut(thread[t].page, thread[t].image, o, E)
  BY <1>1, <1>2, PutPageDoes DEF IndInv
<1>4. PICK e \in Locals :
        /\ thread' = [thread EXCEPT ![t] = e] /\ e.pc = "write" /\ e.object = o
        /\ e.page = thread[t].page /\ e.new = thread[t].new
        /\ e.inserts = thread[t].inserts
  <2>. DEFINE e == [thread[t] EXCEPT !.pc = "write", !.object = o, !.image = {}]
  <2>1. e \in Locals
    BY <1>1 DEF Locals
  <2>2. thread' = [thread EXCEPT ![t] = e]
    BY <1>3 DEF InsertPage, PagePut
  <2>3. /\ e.pc = "write" /\ e.object = o
        /\ e.page = thread[t].page /\ e.new = thread[t].new
        /\ e.inserts = thread[t].inserts
    BY <1>1 DEF Locals
  <2>. HIDE DEF e
  <2>. QED
    BY <2>1, <2>2, <2>3
<1>5. ~overlapped => thread[t].image = disk[thread[t].page]
  BY <1>1 DEF IndInv, OnePageEach, WorksOn
<1>. QED
  BY <1>1, <1>2, <1>3, <1>4, <1>5, PutKeeps

LEMMA CacheNewPageKeeps ==
  ASSUME IndInv, NEW t \in Threads, CacheNewPage(t)
  PROVE  IndInv'
<1>1. /\ thread[t] \in Locals /\ thread[t].pc = "cache"
      /\ PutPage(thread[t].page, {}) /\ ~flush.active
      /\ UNCHANGED <<disk, count, onDisk, chain, acked, flush, overlapped>>
      /\ thread[t].page \in DOMAIN disk
  BY DEF CacheNewPage, PutPage, IndInv, TypeOK, PagesExist
<1>2. {} \in SUBSET Cells
  OBVIOUS
<1>3. PICK o \in Objects, E \in SUBSET Victims : PagePut(thread[t].page, {}, o, E)
  BY <1>1, <1>2, PutPageDoes DEF IndInv
<1>4. PICK e \in Locals :
        /\ thread' = [thread EXCEPT ![t] = e] /\ e.pc = "count"
        /\ e.page = thread[t].page /\ e.new = thread[t].new
        /\ e.inserts = thread[t].inserts
  <2>. DEFINE e == [thread[t] EXCEPT !.pc = "count"]
  <2>1. e \in Locals
    BY <1>1 DEF Locals
  <2>2. thread' = [thread EXCEPT ![t] = e]
    BY DEF CacheNewPage, Goto
  <2>3. /\ e.pc = "count" /\ e.page = thread[t].page /\ e.new = thread[t].new
        /\ e.inserts = thread[t].inserts
    BY <1>1 DEF Locals
  <2>. HIDE DEF e
  <2>. QED
    BY <2>1, <2>2, <2>3
<1>5. ~overlapped => disk[thread[t].page] = {}
  BY <1>1 DEF IndInv, OnePageEach, WorksOn
<1>. QED
  BY <1>1, <1>2, <1>3, <1>4, <1>5, PutKeeps

\* A cell is written to the page; a new page joins the collection with it.
LEMMA AppendedRange ==
  ASSUME NEW S, NEW s \in Seq(S), NEW x \in S
  PROVE  /\ Append(s, x) \in Seq(S) /\ Append(s, x) # <<>>
         /\ Range(Append(s, x)) = Range(s) \cup {x}
         /\ IsInjective(s) /\ x \notin Range(s) => IsInjective(Append(s, x))
<1>. DEFINE r == Append(s, x)
<1>1. /\ r \in Seq(S) /\ Len(r) = Len(s) + 1 /\ r[Len(r)] = x /\ Len(s) \in Nat
      /\ DOMAIN s = 1..Len(s) /\ DOMAIN r = 1..Len(r)
      /\ \A i \in 1..Len(s) : r[i] = s[i]
  OBVIOUS
<1>. HIDE DEF r
<1>2. \A i \in DOMAIN r : (i \in DOMAIN s /\ r[i] = s[i]) \/ (i = Len(r) /\ r[i] = x)
  <2>1. \A i \in 1..(Len(s) + 1) : i \in 1..Len(s) \/ i = Len(s) + 1
    BY <1>1
  <2>. QED
    BY <1>1, <2>1
<1>3. r # <<>> /\ Len(r) \in DOMAIN r /\ DOMAIN s \subseteq DOMAIN r
  BY <1>1
<1>4. Range(r) = Range(s) \cup {x}
  BY <1>1, <1>2, <1>3 DEF Range
<1>5. IsInjective(s) /\ x \notin Range(s) => IsInjective(r)
  BY <1>1, <1>2, <1>3 DEF IsInjective, Range
<1>. QED
  BY <1>1, <1>3, <1>4, <1>5 DEF r

LEMMA WriteKeeps ==
  ASSUME IndInv, NEW t \in Threads, Write(t)
  PROVE  IndInv'
<1>0. PICK page, o : page = thread[t].page /\ o = thread[t].object
  OBVIOUS
<1>1. /\ thread[t] \in Locals /\ thread[t].pc = "write" /\ thread[t].inserts # 0
      /\ UNCHANGED <<disk, count, onDisk, cached, flush, history>>
      /\ acked' = acked \cup {Cell(t)}
      /\ page \in DOMAIN disk /\ DOMAIN disk \subseteq PageIds
      /\ chain \in [Threads -> Seq(PageIds)]
  BY <1>0 DEF Write, IndInv, TypeOK, PagesExist, AtPage
<1>2. PICK w \in Cells : w = Cell(t) /\ w[1] = t
  <2>1. thread[t].inserts \in 1..MaxInserts
    BY <1>1, PageCacheConstants DEF Locals
  <2>2. Cell(t) \in Cells /\ Cell(t)[1] = t
    BY <2>1 DEF Cell, CellsOf, Cells
  <2>. QED
    BY <2>2
<1>3. o \in Held /\ o \in DOMAIN heap /\ heap[o] \in Pages
  BY <1>0, <1>1, CachedIsTyped DEF Held, IndInv, TypeOK
<1>4. /\ DOMAIN heap' = DOMAIN heap /\ heap' = [x \in DOMAIN heap |-> heap'[x]]
      /\ heap'[o] = [cells |-> heap[o].cells \cup {w}, dirty |-> TRUE]
      /\ \A x \in DOMAIN heap : x # o => heap'[x] = heap[x]
  BY <1>0, <1>2, <1>3 DEF Write, CellAdded, IndInv, TypeOK
<1>5. PICK e \in Locals : thread' = [thread EXCEPT ![t] = e] /\ e.pc = "idle" /\ ~e.new
  <2>. DEFINE e == Resting(thread[t].inserts)
  <2>1. e \in Locals
    BY <1>1 DEF Locals, Resting
  <2>2. thread' = [thread EXCEPT ![t] = e]
    BY DEF Write
  <2>3. e.pc = "idle" /\ ~e.new
    BY DEF Resting
  <2>. HIDE DEF e
  <2>. QED
    BY <2>1, <2>2, <2>3
<1>6. thread'[t] = e /\ \A u \in Threads : u # t => thread'[u] = thread[u]
  BY <1>5 DEF IndInv, TypeOK
<1>7. /\ chain' \in [Threads -> Seq(PageIds)] /\ chain'[t] # <<>>
      /\ \A u \in Threads : u # t => chain'[u] = chain[u]
      /\ Range(chain'[t]) = Range(chain[t]) \cup (IF thread[t].new THEN {page} ELSE {})
      /\ IsInjective(chain[t]) /\ (thread[t].new => page \notin Range(chain[t]))
           => IsInjective(chain'[t])
  <2>1. chain[t] \in Seq(PageIds) /\ chain[t] # <<>> /\ page \in PageIds
    BY <1>1 DEF IndInv, PagesExist
  <2>2. CASE thread[t].new
    <3>1. chain' = [chain EXCEPT ![t] = Append(chain[t], page)]
      BY <1>0, <2>2 DEF Write
    <3>2. chain'[t] = Append(chain[t], page)
      BY <1>1, <3>1
    <3>3. chain' \in [Threads -> Seq(PageIds)] /\ \A u \in Threads : u # t => chain'[u] = chain[u]
      BY <1>1, <2>1, <3>1, AppendedRange
    <3>. QED
      BY <2>1, <2>2, <3>2, <3>3, AppendedRange
  <2>3. CASE ~thread[t].new
    BY <1>1, <2>1, <2>3 DEF Write
  <2>. QED
    BY <2>2, <2>3
<1>8. \A x \in DOMAIN heap :
        /\ heap'[x] \in Pages /\ heap[x].cells \subseteq heap'[x].cells
        /\ ~heap'[x].dirty => x # o /\ heap'[x] = heap[x]
  <2>. TAKE x \in DOMAIN heap
  <2>1. heap[x] \in Pages
    BY CachedIsTyped DEF IndInv
  <2>2. CASE x = o
    <3>1. heap'[x] = [cells |-> heap[x].cells \cup {w}, dirty |-> TRUE]
      BY <1>4, <2>2
    <3>2. heap'[x].dirty /\ heap'[x].cells = heap[x].cells \cup {w}
      BY <3>1
    <3>3. heap'[x] \in Pages
      BY <1>2, <2>1, <3>1 DEF Pages
    <3>. QED
      BY <3>2, <3>3
  <2>3. CASE x # o
    BY <1>4, <2>1, <2>3
  <2>. QED
    BY <2>2, <2>3
<1>9. \A p \in DOMAIN cached : cached[p] \in DOMAIN heap
  BY CachedIsTyped DEF IndInv
<1>10. TypeOK'
  <2>1. Held' \subseteq Held
    BY <1>1, <1>5, <1>6 DEF Held
  <2>2. heap' \in [DOMAIN heap' -> Pages]
    BY <1>4, <1>8
  <2>3. thread' \in [Threads -> Locals]
    BY <1>5 DEF IndInv, TypeOK
  <2>4. Held' \subseteq DOMAIN heap' /\ DOMAIN heap' \subseteq Objects
        /\ cached' \in [DOMAIN cached' -> DOMAIN heap']
    BY <1>1, <1>4, <2>1 DEF IndInv, TypeOK
  <2>5. acked' \subseteq Cells
    BY <1>1, <1>2 DEF IndInv, TypeOK
  <2>. QED
    BY <1>1, <1>7, <2>2, <2>3, <2>4, <2>5 DEF IndInv, TypeOK, history
<1>11. PagesExist'
  BY <1>0, <1>1, <1>5, <1>6, <1>7 DEF IndInv, PagesExist, AtPage
<1>12. FlushInOrder' /\ (flush.due \subseteq acked)' /\ count' # 0
  BY <1>1 DEF IndInv, FlushInOrder
<1>13. GrowsByDirtyPages'
  <2>1. Victims' \subseteq Victims
    BY <1>1, <1>8, <1>9 DEF Victims
  <2>. QED
    BY <1>1, <2>1, FewerVictims DEF IndInv
<1>14. ASSUME ~overlapped' PROVE OnePageEach /\ CleanIsOnDisk /\ WorksOn(t)
  BY <1>1, <1>14 DEF IndInv, OnePageEach, history
<1>15. ASSUME ~overlapped' PROVE OnePageEach'
  <2>1. /\ IsInjective(chain[t]) /\ (page \in Range(chain[t])) = ~thread[t].new
        /\ page < count /\ \A p \in Range(chain[t]) : p < count
    BY <1>0, <1>1, <1>14, <1>15 DEF WorksOn, AtPage
  <2>2. IsInjective(chain'[t]) /\ \A p \in Range(chain'[t]) : p < count'
    BY <1>1, <1>7, <2>1
  <2>3. WorksOn(t)'
    BY <1>5, <1>6, <2>2 DEF WorksOn, AtPage, AtNewPage
  <2>4. Owned(t)' \subseteq Owned(t)
    BY <1>0, <1>1, <1>5, <1>6, <1>7 DEF Owned, AtPage, AtNewPage
  <2>5. \A p \in DOMAIN cached' :
          p < count' \/ \E u \in Threads : thread'[u].pc = "count" /\ thread'[u].page = p
    <3>1. \A p \in DOMAIN cached :
            p < count \/ \E u \in Threads : thread[u].pc = "count" /\ thread[u].page = p
      BY <1>14, <1>15 DEF OnePageEach
    <3>. QED
      BY <1>1, <1>6, <3>1
  <2>6. \A u \in Threads : u # t => Owned(t)' \cap Owned(u) = {}
    BY <1>14, <1>15, <2>4 DEF OnePageEach
  <2>7. /\ count' = count /\ count \in Nat /\ count >= count
        /\ DOMAIN cached' = DOMAIN cached /\ disk' = disk /\ e.pc \notin AtNewPage
    BY <1>1, <1>5 DEF IndInv, TypeOK, AtNewPage
  <2>. QED
    BY <1>5, <1>7, <1>14, <1>15, <2>3, <2>5, <2>6, <2>7, OneMoves DEF IndInv
<1>16. ASSUME ~overlapped' PROVE CleanIsOnDisk'
  <2>1. ASSUME NEW p \in DOMAIN cached, ~heap'[cached[p]].dirty
        PROVE  heap'[cached[p]].cells = disk[p]
    <3>1. heap'[cached[p]] = heap[cached[p]]
      BY <1>8, <1>9, <2>1
    <3>2. ~heap[cached[p]].dirty
      BY <2>1, <3>1
    <3>3. heap[cached[p]].cells = disk[p]
      BY <1>1, <1>14, <1>16, <3>2 DEF CleanIsOnDisk, history
    <3>. QED
      BY <3>1, <3>3
  <2>. QED
    BY <1>1, <2>1 DEF CleanIsOnDisk
<1>17. ASSUME ~overlapped', ~orphaned' PROVE NothingLost'
  <2>1. NothingLost /\ page \in DOMAIN cached /\ cached[page] = o
    BY <1>0, <1>1, <1>17 DEF IndInv, NothingLost, history
  <2>2. \A p \in DOMAIN cached : disk[p] \subseteq heap'[cached[p]].cells
    BY <1>8, <1>9, <2>1 DEF NothingLost
  <2>3. \A u \in Threads : thread'[u].pc = "write" =>
          thread'[u].page \in DOMAIN cached /\ cached[thread'[u].page] = thread'[u].object
    BY <1>5, <1>6, <2>1 DEF NothingLost
  <2>4. \A p : Now(p) \subseteq Now(p)'
    BY <1>1, <1>8, <1>9 DEF Now
  <2>5. \A u \in Threads : Range(chain[u]) \subseteq Range(chain'[u])
    BY <1>7
  <2>6. \A c \in acked : c[1] \in Threads
    BY DEF IndInv, TypeOK, Cells, CellsOf
  <2>7. \A c \in acked : Kept(c)'
    BY <2>1, <2>4, <2>5, <2>6 DEF NothingLost, Kept
  <2>8. Kept(w)'
    <3>1. page \in Range(chain'[t])
      BY <1>0, <1>1, <1>7, <1>14, <1>17 DEF WorksOn, AtPage
    <3>2. w \in Now(page)'
      BY <1>1, <1>4, <2>1 DEF Now
    <3>. QED
      BY <1>2, <3>1, <3>2 DEF Kept
  <2>9. ASSUME flush.active, NEW c \in flush.due PROVE Flushed(c)'
    <3>1. c \in acked /\ Flushed(c)
      BY <2>1, <2>9 DEF NothingLost, IndInv
    <3>. QED
      BY <1>1, <2>4, <2>5, <2>6, <3>1 DEF Flushed
  <2>10. FlushCompletes'
    BY <1>1, <2>1, <2>5, <2>6 DEF NothingLost, FlushCompletes, IndInv
  <2>11. \A c \in acked' : Kept(c)'
    BY <1>1, <1>2, <2>7, <2>8
  <2>. QED
    BY <1>1, <2>2, <2>3, <2>9, <2>10, <2>11 DEF NothingLost
<1>. QED
  BY <1>10, <1>11, <1>12, <1>13, <1>15, <1>16, <1>17 DEF IndInv

LEMMA ZeroOnDiskKeeps ==
  ASSUME IndInv, NEW t \in Threads, ZeroOnDisk(t)
  PROVE  IndInv'
<1>0. PICK page : page = thread[t].page
  OBVIOUS
<1>1. /\ thread[t] \in Locals /\ thread[t].pc = "zero" /\ thread[t].inserts # 0
      /\ UNCHANGED <<count, onDisk, cached, heap, chain, acked, flush, history>>
      /\ disk' = With(disk, page, {}) /\ page \in PageIds
  BY <1>0 DEF ZeroOnDisk, IndInv, TypeOK, PagesExist, Locals
<1>2. PICK e \in Locals :
        /\ thread' = [thread EXCEPT ![t] = e] /\ e.pc = "cache"
        /\ e.page = thread[t].page /\ e.new = thread[t].new
        /\ e.inserts = thread[t].inserts
  <2>. DEFINE e == [thread[t] EXCEPT !.pc = "cache"]
  <2>1. e \in Locals
    BY <1>1 DEF Locals
  <2>2. thread' = [thread EXCEPT ![t] = e]
    BY DEF ZeroOnDisk, Goto
  <2>3. /\ e.pc = "cache" /\ e.page = thread[t].page /\ e.new = thread[t].new
        /\ e.inserts = thread[t].inserts
    BY <1>1 DEF Locals
  <2>. HIDE DEF e
  <2>. QED
    BY <2>1, <2>2, <2>3
<1>3. thread'[t] = e /\ \A u \in Threads : u # t => thread'[u] = thread[u]
  BY <1>2 DEF IndInv, TypeOK
<1>4. /\ DOMAIN disk' = DOMAIN disk \cup {page} /\ disk'[page] = {}
      /\ \A p \in DOMAIN disk : p # page => disk'[p] = disk[p]
      /\ disk' = [p \in DOMAIN disk' |-> disk'[p]]
  BY <1>1 DEF With
<1>5. TypeOK'
  <2>1. DOMAIN disk' \subseteq PageIds /\ disk' \in [DOMAIN disk' -> SUBSET Cells]
    <3>1. \A p \in DOMAIN disk' : disk'[p] \in SUBSET Cells
      BY <1>4, CachedIsTyped DEF IndInv
    <3>. QED
      BY <1>1, <1>4, <3>1, CachedIsTyped DEF IndInv
  <2>2. DOMAIN cached' \subseteq DOMAIN disk' /\ IsFiniteSet(DOMAIN cached')
    BY <1>1, <1>4 DEF IndInv, TypeOK
  <2>3. Held' \subseteq Held
    BY <1>1, <1>2, <1>3 DEF Held
  <2>4. thread' \in [Threads -> Locals]
    BY <1>2 DEF IndInv, TypeOK
  <2>. QED
    BY <1>1, <2>1, <2>2, <2>3, <2>4 DEF IndInv, TypeOK, history
<1>6. PagesExist'
  BY <1>0, <1>1, <1>2, <1>3, <1>4 DEF IndInv, PagesExist
<1>7. FlushInOrder' /\ (flush.due \subseteq acked)' /\ count' # 0 /\ GrowsByDirtyPages'
  BY <1>1 DEF IndInv, FlushInOrder, GrowsByDirtyPages, Victims
<1>8. ASSUME ~overlapped'
      PROVE  /\ ~overlapped /\ OnePageEach /\ CleanIsOnDisk /\ WorksOn(t)
             /\ page = count /\ page \notin DOMAIN cached
  BY <1>0, <1>1, <1>8 DEF IndInv, OnePageEach, WorksOn, AtNewPage, history
<1>9. ASSUME ~overlapped' PROVE OnePageEach'
  <2>1. Owned(t)' = Owned(t) /\ page \in Owned(t)
    BY <1>0, <1>1, <1>2, <1>3 DEF Owned, AtPage, AtNewPage
  <2>2. WorksOn(t)'
    BY <1>0, <1>1, <1>2, <1>3, <1>4, <1>8, <1>9 DEF WorksOn, AtPage, AtNewPage
  <2>3. \A p \in DOMAIN cached' :
          p < count' \/ \E u \in Threads : thread'[u].pc = "count" /\ thread'[u].page = p
    <3>1. \A p \in DOMAIN cached :
            p < count \/ \E u \in Threads : thread[u].pc = "count" /\ thread[u].page = p
      BY <1>8, <1>9 DEF OnePageEach
    <3>. QED
      BY <1>1, <1>3, <3>1
  <2>4. \A u \in Threads : u # t => Owned(t)' \cap Owned(u) = {}
    BY <1>8, <1>9, <2>1 DEF OnePageEach
  <2>5. \A p \in DOMAIN disk : p \notin Owned(t) /\ p \notin DOMAIN cached => disk'[p] = disk[p]
    BY <1>4, <2>1
  <2>6. /\ count' = count /\ count \in Nat /\ count >= count
        /\ DOMAIN cached' = DOMAIN cached /\ chain' = chain /\ thread[t].pc \in AtNewPage
    BY <1>1 DEF IndInv, TypeOK, AtNewPage
  <2>. QED
    BY <1>2, <1>8, <1>9, <2>2, <2>3, <2>4, <2>5, <2>6, OneMoves DEF IndInv
<1>10. ASSUME ~overlapped', NEW p \in DOMAIN cached PROVE disk'[p] = disk[p]
  BY <1>4, <1>8, <1>10 DEF IndInv, TypeOK
<1>11. ASSUME ~overlapped' PROVE CleanIsOnDisk'
  <2>1. \A p \in DOMAIN cached : ~heap[cached[p]].dirty => heap[cached[p]].cells = disk'[p]
    BY <1>8, <1>10, <1>11 DEF CleanIsOnDisk
  <2>. QED
    BY <1>1, <2>1 DEF CleanIsOnDisk
<1>12. ASSUME ~overlapped', ~orphaned' PROVE NothingLost'
  <2>1. NothingLost
    BY <1>1, <1>8, <1>12 DEF IndInv, history
  <2>2. ASSUME NEW u \in Threads, NEW p \in Range(chain[u]) PROVE disk'[p] = disk[p]
    <3>1. p < count /\ p \in DOMAIN disk
      BY <1>8, <1>12 DEF OnePageEach, WorksOn, IndInv, PagesExist
    <3>2. p # page
      BY <1>8, <1>12, <3>1 DEF IndInv, TypeOK
    <3>. QED
      BY <1>4, <3>1, <3>2
  <2>3. \A p \in DOMAIN cached : disk'[p] \subseteq heap[cached[p]].cells
    BY <1>10, <1>12, <2>1 DEF NothingLost
  <2>4. \A u \in Threads : thread'[u].pc = "write" =>
          thread'[u].page \in DOMAIN cached /\ cached[thread'[u].page] = thread'[u].object
    BY <1>2, <1>3, <2>1 DEF NothingLost
  <2>5. \A c \in acked : c[1] \in Threads
    BY DEF IndInv, TypeOK, Cells, CellsOf
  <2>6. \A u \in Threads : \A p \in Range(chain[u]) : Now(p)' = Now(p)
    BY <1>1, <2>2 DEF Now
  <2>7. \A c \in acked : Kept(c)'
    BY <1>1, <2>1, <2>5, <2>6 DEF NothingLost, Kept
  <2>8. ASSUME flush.active, NEW c \in flush.due PROVE Flushed(c)'
    <3>1. c \in acked /\ Flushed(c)
      BY <2>1, <2>8 DEF NothingLost, IndInv
    <3>. QED
      BY <1>1, <2>2, <2>5, <2>6, <3>1 DEF Flushed
  <2>9. FlushCompletes'
    BY <1>1, <1>4, <2>1, <2>2, <2>5 DEF NothingLost, FlushCompletes, IndInv
  <2>. QED
    BY <1>1, <2>3, <2>4, <2>7, <2>8, <2>9 DEF NothingLost
<1>. QED
  BY <1>5, <1>6, <1>7, <1>9, <1>11, <1>12 DEF IndInv

-----------------------------------------------------------------------------
(* flush_all.                                                              *)

\* A step of flush_all, which writes cached pages at most.
LEMMA FlushKeeps ==
  ASSUME IndInv,
         UNCHANGED <<count, cached, heap, thread, chain, acked, history>>,
         disk' \in [DOMAIN disk -> SUBSET Cells], onDisk' \in Nat,
         \A p \in DOMAIN disk \ DOMAIN cached : disk'[p] = disk[p],
         flush' \in [active : BOOLEAN, done : BOOLEAN,
                     todo : SUBSET (PageIds \cup {0}), due : SUBSET Cells],
         FlushInOrder', flush'.due \subseteq acked,
         ~overlapped => CleanIsOnDisk',
         ASSUME ~overlapped, ~orphaned, NothingLost
         PROVE  /\ \A p \in DOMAIN cached : disk'[p] \subseteq heap[cached[p]].cells
                /\ flush'.active => \A c \in flush'.due : Flushed(c)'
                /\ FlushCompletes'
  PROVE  IndInv'
<1>1. DOMAIN disk' = DOMAIN disk /\ overlapped' = overlapped /\ orphaned' = orphaned
  BY DEF history
<1>2. TypeOK'
  BY <1>1 DEF IndInv, TypeOK, Held
<1>3. PagesExist'
  BY <1>1 DEF IndInv, PagesExist
<1>4. (flush.due \subseteq acked)' /\ count' # 0 /\ GrowsByDirtyPages'
  BY DEF IndInv, GrowsByDirtyPages, Victims
<1>5. ASSUME ~overlapped PROVE OnePageEach'
  <2>1. OnePageEach
    BY <1>5 DEF IndInv
  <2>2. ASSUME NEW u \in Threads PROVE WorksOn(u)'
    <3>1. WorksOn(u)
      BY <2>1 DEF OnePageEach
    <3>2. thread[u].pc \in {"insert", "cache"} => disk'[thread[u].page] = disk[thread[u].page]
      <4>1. thread[u].pc \in {"insert", "cache"} =>
              thread[u].page \in DOMAIN disk /\ thread[u].page \notin DOMAIN cached
        BY <3>1 DEF IndInv, PagesExist, WorksOn, AtPage
      <4>. QED
        BY <4>1
    <3>. QED
      BY <3>1, <3>2 DEF WorksOn
  <2>. QED
    BY <2>1, <2>2 DEF OnePageEach, Owned
<1>6. ASSUME ~overlapped, ~orphaned PROVE NothingLost'
  <2>1. NothingLost
    BY <1>6 DEF IndInv
  <2>2. /\ \A p \in DOMAIN cached : disk'[p] \subseteq heap[cached[p]].cells
        /\ flush'.active => \A c \in flush'.due : Flushed(c)'
        /\ FlushCompletes'
    BY <1>6, <2>1
  <2>3. \A p \in DOMAIN disk : Now(p)' = Now(p)
    BY DEF Now
  <2>4. ASSUME NEW c \in acked PROVE Kept(c)'
    <3>1. c[1] \in Threads /\ Kept(c)
      BY <2>1 DEF NothingLost, IndInv, TypeOK, Cells, CellsOf
    <3>2. Range(chain[c[1]]) \subseteq DOMAIN disk
      BY <3>1 DEF IndInv, PagesExist
    <3>. QED
      BY <2>3, <3>1, <3>2 DEF Kept
  <2>. QED
    BY <2>1, <2>2, <2>4 DEF NothingLost
<1>. QED
  BY <1>1, <1>2, <1>3, <1>4, <1>5, <1>6 DEF IndInv

LEMMA FlushBeginKeeps ==
  ASSUME IndInv, FlushBegin
  PROVE  IndInv'
<1>1. /\ UNCHANGED <<disk, count, onDisk, cached, heap, thread, chain, acked, history>>
      /\ ~flush.active /\ ~flush.done
  BY DEF FlushBegin
<1>2. /\ flush'.active /\ ~flush'.done /\ flush'.todo = {0} \cup DOMAIN cached
      /\ flush'.due = acked
      /\ flush' = [active |-> flush'.active, done |-> flush'.done,
                   todo |-> flush'.todo, due |-> flush'.due]
  BY DEF FlushBegin
<1>3. flush' \in [active : BOOLEAN, done : BOOLEAN,
                  todo : SUBSET (PageIds \cup {0}), due : SUBSET Cells]
  BY DEF FlushBegin, IndInv, TypeOK
<1>4. disk' \in [DOMAIN disk -> SUBSET Cells] /\ onDisk' \in Nat
  BY <1>1 DEF IndInv, TypeOK
<1>5. FlushInOrder'
  BY <1>1, <1>2 DEF FlushInOrder
<1>6. ~overlapped => CleanIsOnDisk'
  BY <1>1 DEF IndInv, CleanIsOnDisk, history
<1>7. ASSUME ~overlapped, ~orphaned, NothingLost
      PROVE  /\ \A p \in DOMAIN cached : disk'[p] \subseteq heap[cached[p]].cells
             /\ flush'.active => \A c \in flush'.due : Flushed(c)'
             /\ FlushCompletes'
  <2>1. ASSUME NEW c \in acked PROVE Flushed(c)'
    <3>1. PICK p \in Range(chain[c[1]]) : c \in Now(p)
      BY <1>7 DEF NothingLost, Kept
    <3>2. (p \in flush'.todo /\ c \in Now(p)') \/ c \in disk'[p]
      BY <1>1, <1>2, <3>1 DEF Now
    <3>3. 0 \in flush'.todo /\ p \in Range(chain'[c[1]])
      BY <1>1, <1>2, <3>1
    <3>. QED
      BY <3>2, <3>3 DEF Flushed
  <2>2. \A p \in DOMAIN cached : disk'[p] \subseteq heap[cached[p]].cells
    BY <1>1, <1>7 DEF NothingLost
  <2>3. FlushCompletes'
    BY <1>2 DEF FlushCompletes
  <2>. QED
    BY <1>2, <2>1, <2>2, <2>3
<1>. QED
  BY <1>1, <1>2, <1>3, <1>4, <1>5, <1>6, <1>7, FlushKeeps

LEMMA FlushHeaderKeeps ==
  ASSUME IndInv, FlushHeader
  PROVE  IndInv'
<1>1. /\ UNCHANGED <<disk, count, cached, heap, thread, chain, acked, history>>
      /\ flush.active /\ 0 \in flush.todo /\ onDisk' = count
  BY DEF FlushHeader
<1>2. /\ flush'.active /\ flush'.done = flush.done /\ flush'.todo = flush.todo \ {0}
      /\ flush'.due = flush.due
      /\ flush' \in [active : BOOLEAN, done : BOOLEAN,
                     todo : SUBSET (PageIds \cup {0}), due : SUBSET Cells]
  BY <1>1 DEF FlushHeader, IndInv, TypeOK
<1>3. ~flush'.done
  BY <1>1, <1>2 DEF IndInv, FlushInOrder
<1>4. disk' \in [DOMAIN disk -> SUBSET Cells] /\ onDisk' \in Nat
  BY <1>1 DEF IndInv, TypeOK
<1>5. FlushInOrder'
  BY <1>1, <1>2, <1>3 DEF IndInv, FlushInOrder
<1>6. ~overlapped => CleanIsOnDisk'
  BY <1>1 DEF IndInv, CleanIsOnDisk, history
<1>7. ASSUME ~overlapped, ~orphaned, NothingLost
      PROVE  /\ \A p \in DOMAIN cached : disk'[p] \subseteq heap[cached[p]].cells
             /\ flush'.active => \A c \in flush'.due : Flushed(c)'
             /\ FlushCompletes'
  <2>1. ASSUME NEW c \in flush.due PROVE Flushed(c)'
    <3>1. c[1] \in Threads
      BY DEF IndInv, TypeOK, Cells, CellsOf
    <3>2. PICK p \in Range(chain[c[1]]) : (p \in flush.todo /\ c \in Now(p)) \/ c \in disk[p]
      BY <1>1, <1>7 DEF NothingLost, Flushed
    <3>3. p # 0
      BY <3>1, <3>2, CachedIsTyped DEF IndInv, PagesExist, PageIds
    <3>4. p < onDisk'
      BY <1>1, <1>7, <3>1, <3>2 DEF IndInv, OnePageEach, WorksOn
    <3>5. Now(p)' = Now(p) /\ p \in Range(chain'[c[1]])
      BY <1>1, <3>2 DEF Now
    <3>. QED
      BY <1>1, <1>2, <3>2, <3>3, <3>4, <3>5 DEF Flushed
  <2>2. \A p \in DOMAIN cached : disk'[p] \subseteq heap[cached[p]].cells
    BY <1>1, <1>7 DEF NothingLost
  <2>3. FlushCompletes'
    BY <1>3 DEF FlushCompletes
  <2>. QED
    BY <1>2, <2>1, <2>2, <2>3
<1>8. flush'.due \subseteq acked
  BY <1>2 DEF IndInv
<1>. QED
  BY <1>1, <1>2, <1>4, <1>5, <1>6, <1>7, <1>8, FlushKeeps

LEMMA FlushPageKeeps ==
  ASSUME IndInv, NEW q \in flush.todo, FlushPage(q)
  PROVE  IndInv'
<1>1. /\ UNCHANGED <<count, onDisk, cached, heap, thread, chain, acked, history>>
      /\ flush.active /\ q # 0 /\ q \in DOMAIN cached /\ q \in DOMAIN disk
  BY DEF FlushPage, IndInv, FlushInOrder, TypeOK
<1>2. /\ flush'.active /\ flush'.done = flush.done /\ flush'.todo = flush.todo \ {q}
      /\ flush'.due = flush.due
      /\ flush' \in [active : BOOLEAN, done : BOOLEAN,
                     todo : SUBSET (PageIds \cup {0}), due : SUBSET Cells]
  BY <1>1 DEF FlushPage, IndInv, TypeOK
<1>3. ~flush'.done
  BY <1>1, <1>2 DEF IndInv, FlushInOrder
<1>4. heap[cached[q]].cells \in SUBSET Cells
  BY <1>1, CachedIsTyped DEF IndInv, Pages
<1>5. /\ disk' \in [DOMAIN disk -> SUBSET Cells] /\ onDisk' \in Nat
      /\ \A p \in DOMAIN disk : p # q => disk'[p] = disk[p]
      /\ disk'[q] = IF heap[cached[q]].dirty THEN heap[cached[q]].cells ELSE disk[q]
  BY <1>1, <1>4 DEF FlushPage, IndInv, TypeOK
<1>6. FlushInOrder'
  BY <1>1, <1>2, <1>3 DEF IndInv, FlushInOrder
<1>7. ~overlapped => CleanIsOnDisk'
  <2>. SUFFICES ASSUME ~overlapped, NEW p \in DOMAIN cached, ~heap[cached[p]].dirty
                PROVE  heap[cached[p]].cells = disk'[p]
    BY <1>1 DEF CleanIsOnDisk
  <2>1. heap[cached[p]].cells = disk[p]
    BY DEF IndInv, CleanIsOnDisk
  <2>2. disk'[p] = disk[p]
    BY <1>5, CachedIsTyped DEF IndInv
  <2>. QED
    BY <2>1, <2>2
<1>8. ASSUME ~overlapped, ~orphaned, NothingLost
      PROVE  /\ \A p \in DOMAIN cached : disk'[p] \subseteq heap[cached[p]].cells
             /\ flush'.active => \A c \in flush'.due : Flushed(c)'
             /\ FlushCompletes'
  <2>1. disk[q] \subseteq disk'[q] /\ disk'[q] = heap[cached[q]].cells
    <3>1. disk[q] \subseteq heap[cached[q]].cells
      BY <1>1, <1>8 DEF NothingLost
    <3>2. ~heap[cached[q]].dirty => heap[cached[q]].cells = disk[q]
      BY <1>1, <1>8 DEF IndInv, CleanIsOnDisk
    <3>. QED
      BY <1>5, <3>1, <3>2
  <2>2. \A p \in DOMAIN cached : disk'[p] \subseteq heap[cached[p]].cells
    BY <1>5, <1>8, <2>1, CachedIsTyped DEF NothingLost, IndInv
  <2>3. ASSUME NEW c \in flush.due PROVE Flushed(c)'
    <3>1. c[1] \in Threads
      BY DEF IndInv, TypeOK, Cells, CellsOf
    <3>2. PICK p \in Range(chain[c[1]]) :
            /\ (p \in flush.todo /\ c \in Now(p)) \/ c \in disk[p]
            /\ 0 \notin flush.todo => p < onDisk
      BY <1>1, <1>8 DEF NothingLost, Flushed
    <3>3. p \in DOMAIN disk
      BY <3>1, <3>2 DEF IndInv, PagesExist
    <3>4. (p \in flush'.todo /\ c \in Now(p)') \/ c \in disk'[p]
      <4>1. CASE p = q
        BY <1>1, <2>1, <3>2, <4>1 DEF Now
      <4>2. CASE p # q
        <5>1. disk'[p] = disk[p] /\ Now(p)' = Now(p)
          BY <1>1, <1>5, <3>3, <4>2 DEF Now
        <5>. QED
          BY <1>2, <3>2, <4>2, <5>1
      <4>. QED
        BY <4>1, <4>2
    <3>5. 0 \notin flush'.todo => p < onDisk'
      BY <1>1, <1>2, <3>2
    <3>. QED
      BY <1>1, <3>2, <3>4, <3>5 DEF Flushed
  <2>4. FlushCompletes'
    BY <1>3 DEF FlushCompletes
  <2>. QED
    BY <1>2, <2>2, <2>3, <2>4
<1>9. flush'.due \subseteq acked
  BY <1>2 DEF IndInv
<1>. QED
  BY <1>1, <1>2, <1>5, <1>6, <1>7, <1>8, <1>9, FlushKeeps

LEMMA FlushEndKeeps ==
  ASSUME IndInv, FlushEnd
  PROVE  IndInv'
<1>1. /\ UNCHANGED <<disk, count, onDisk, cached, heap, thread, chain, acked, history>>
      /\ flush.active /\ flush.todo = {}
  BY DEF FlushEnd
<1>2. /\ ~flush'.active /\ flush'.due = flush.due
      /\ flush' \in [active : BOOLEAN, done : BOOLEAN,
                     todo : SUBSET (PageIds \cup {0}), due : SUBSET Cells]
  BY <1>1 DEF FlushEnd, Unlocked, IndInv, TypeOK
<1>3. disk' \in [DOMAIN disk -> SUBSET Cells] /\ onDisk' \in Nat
  BY <1>1 DEF IndInv, TypeOK
<1>4. FlushInOrder'
  BY <1>2 DEF FlushInOrder
<1>5. ~overlapped => CleanIsOnDisk'
  BY <1>1 DEF IndInv, CleanIsOnDisk, history
<1>6. ASSUME ~overlapped, ~orphaned, NothingLost
      PROVE  /\ \A p \in DOMAIN cached : disk'[p] \subseteq heap[cached[p]].cells
             /\ flush'.active => \A c \in flush'.due : Flushed(c)'
             /\ FlushCompletes'
  <2>1. \A p \in DOMAIN cached : disk'[p] \subseteq heap[cached[p]].cells
    BY <1>1, <1>6 DEF NothingLost
  <2>2. ASSUME NEW c \in flush.due
        PROVE  \E p \in DOMAIN disk : c \in disk[p] /\ p < onDisk /\ p \in Range(chain[c[1]])
    <3>1. c[1] \in Threads /\ Flushed(c)
      BY <1>1, <1>6 DEF NothingLost, IndInv, TypeOK, Cells, CellsOf
    <3>2. PICK p \in Range(chain[c[1]]) : c \in disk[p] /\ p < onDisk
      BY <1>1, <3>1 DEF Flushed
    <3>3. p \in DOMAIN disk
      BY <3>1, <3>2 DEF IndInv, PagesExist
    <3>. QED
      BY <3>2, <3>3
  <2>3. FlushCompletes'
    BY <1>1, <1>2, <2>2 DEF FlushCompletes
  <2>. QED
    BY <1>2, <2>1, <2>3
<1>7. flush'.due \subseteq acked
  BY <1>2 DEF IndInv
<1>. QED
  BY <1>1, <1>2, <1>3, <1>4, <1>5, <1>6, <1>7, FlushKeeps

-----------------------------------------------------------------------------
LEMMA RootsAreApart ==
  /\ RootPage \in [Threads -> 1 .. Cardinality(Threads)] /\ IsInjective(RootPage)
  /\ Cardinality(Threads) \in Nat
<1>. DEFINE n == Cardinality(Threads)
<1>1. IsFiniteSet(Threads) /\ n \in Nat
  BY PageCacheConstants, FS_CardinalityType
<1>2. PICK g : g \in Bijection(1..n, Threads)
  BY <1>1, FS_CardinalityType DEF ExistsBijection
<1>3. PICK f : f \in Bijection(Threads, 1..n)
  BY <1>2, Fun_BijInverse
<1>4. f \in [Threads -> 1..n] /\ IsInjective(f)
  BY <1>3 DEF Bijection, Injection
<1>. QED
  BY <1>1, <1>4 DEF RootPage

LEMMA InitEstablishes ==
  ASSUME Init
  PROVE  IndInv
<1>. DEFINE n == Cardinality(Threads)
<1>1. RootPage \in [Threads -> 1..n] /\ IsInjective(RootPage) /\ n \in Nat
  BY RootsAreApart
<1>2. /\ DOMAIN disk = 1..n /\ disk \in [1..n -> SUBSET Cells]
      /\ count = n + 1 /\ onDisk = n + 1
      /\ DOMAIN cached = {} /\ DOMAIN heap = {} /\ cached = <<>> /\ heap = <<>>
      /\ acked = {} /\ ~orphaned /\ ~overlapped
      /\ orphaned \in BOOLEAN /\ overlapped \in BOOLEAN
      /\ flush = [active |-> FALSE, done |-> FALSE, todo |-> {}, due |-> {}]
  <2>1. DOMAIN cached = {} /\ DOMAIN heap = {}
    <3>1. cached = <<>> /\ heap = <<>>
      BY DEF Init
    <3>. QED
      BY <3>1
  <2>2. disk = [p \in 1..n |-> {}]
    BY DEF Init
  <2>3. DOMAIN disk = 1..n /\ disk \in [1..n -> SUBSET Cells]
    BY <2>2
  <2>. QED
    BY <2>1, <2>3 DEF Init
<1>3. \A t \in Threads : /\ thread[t].pc = "idle" /\ ~thread[t].new
                         /\ chain[t] = <<RootPage[t]>>
                         /\ chain[t] \in Seq(PageIds) /\ chain[t] # <<>>
                         /\ Range(chain[t]) = {RootPage[t]} /\ IsInjective(chain[t])
                         /\ RootPage[t] \in 1..n /\ RootPage[t] < n + 1
  <2>. TAKE t \in Threads
  <2>1. chain[t] = <<RootPage[t]>> /\ thread[t] = Resting(0)
    BY DEF Init
  <2>2. RootPage[t] \in PageIds /\ RootPage[t] \in 1..n /\ RootPage[t] < n + 1
    BY <1>1 DEF PageIds
  <2>3. Range(<<RootPage[t]>>) = {RootPage[t]} /\ IsInjective(<<RootPage[t]>>)
    BY DEF Range, IsInjective
  <2>. QED
    BY <2>1, <2>2, <2>3 DEF Resting
<1>. HIDE DEF n
<1>4. thread \in [Threads -> Locals] /\ chain \in [Threads -> Seq(PageIds)]
  <2>1. Resting(0) \in Locals
    BY PageCacheConstants DEF Resting, Locals
  <2>. QED
    BY <1>3, <2>1 DEF Init
<1>5. TypeOK
  <2>1. DOMAIN disk \subseteq PageIds
    BY <1>1, <1>2 DEF PageIds
  <2>2. Held = {}
    BY <1>3 DEF Held
  <2>3. IsFiniteSet(DOMAIN cached)
    BY <1>2, FS_EmptySet
  <2>4. /\ cached \in [DOMAIN cached -> DOMAIN heap] /\ heap \in [DOMAIN heap -> Pages]
        /\ DOMAIN cached \subseteq DOMAIN disk /\ DOMAIN heap \subseteq Objects
    BY <1>2
  <2>. QED
    BY <1>1, <1>2, <1>4, <2>1, <2>2, <2>3, <2>4 DEF TypeOK
<1>6. PagesExist
  BY <1>1, <1>2, <1>3 DEF PagesExist, AtPage
<1>7. FlushInOrder /\ count # 0 /\ flush.due \subseteq acked
  BY <1>1, <1>2 DEF FlushInOrder
<1>8. GrowsByDirtyPages
  <2>1. Victims = {}
    BY <1>2 DEF Victims
  <2>. QED
    BY <2>1, FS_EmptySet DEF GrowsByDirtyPages
<1>9. OnePageEach
  <2>1. \A t \in Threads : WorksOn(t)
    BY <1>1, <1>2, <1>3 DEF WorksOn, AtPage, AtNewPage
  <2>2. \A t \in Threads : Owned(t) = {RootPage[t]}
    BY <1>3 DEF Owned, AtPage, AtNewPage
  <2>3. \A t, u \in Threads : t # u => RootPage[t] # RootPage[u]
    BY <1>1 DEF IsInjective
  <2>4. \A t, u \in Threads : t # u => Owned(t) \cap Owned(u) = {}
    BY <2>2, <2>3
  <2>. QED
    BY <1>2, <1>3, <2>1, <2>4 DEF OnePageEach, AtNewPage
<1>10. CleanIsOnDisk
  BY <1>2 DEF CleanIsOnDisk
<1>11. NothingLost
  BY <1>2, <1>3 DEF NothingLost, FlushCompletes
<1>. QED
  BY <1>5, <1>6, <1>7, <1>8, <1>9, <1>10, <1>11 DEF IndInv

LEMMA NextKeeps ==
  ASSUME IndInv, [Next]_vars
  PROVE  IndInv'
<1>1. CASE \E t \in Threads : StartInsert(t) \/ Run(t)
  <2>1. PICK t \in Threads : StartInsert(t) \/ Run(t)
    BY <1>1
  <2>2. CASE StartInsert(t)
    BY <2>2, StartInsertKeeps
  <2>3. CASE Hit(t) \/ Miss(t) \/ ReadFromDisk(t) \/ InsertPage(t)
    BY <2>3, HitKeeps, MissKeeps, ReadFromDiskKeeps, InsertPageKeeps
  <2>4. CASE Write(t) \/ PageFull(t)
    BY <2>4, WriteKeeps, PageFullKeeps
  <2>5. CASE TakeId(t) \/ ZeroOnDisk(t) \/ CacheNewPage(t) \/ SetCount(t)
    BY <2>5, TakeIdKeeps, ZeroOnDiskKeeps, CacheNewPageKeeps, SetCountKeeps
  <2>. QED
    BY <2>1, <2>2, <2>3, <2>4, <2>5 DEF Run
<1>2. CASE FlushBegin
  BY <1>2, FlushBeginKeeps
<1>3. CASE FlushStep
  <2>1. CASE \E p \in flush.todo : FlushPage(p)
    BY <2>1, FlushPageKeeps
  <2>. QED
    BY <1>3, <2>1, FlushHeaderKeeps, FlushEndKeeps DEF FlushStep
<1>4. CASE UNCHANGED vars
  <2>1. ~overlapped /\ ~orphaned /\ NothingLost =>
          /\ \A p \in DOMAIN cached : disk'[p] \subseteq heap[cached[p]].cells
          /\ flush'.active => \A c \in flush'.due : Flushed(c)'
          /\ FlushCompletes'
    BY <1>4 DEF vars, NothingLost, Flushed, Now, FlushCompletes
  <2>2. /\ UNCHANGED <<count, cached, heap, thread, chain, acked, history>>
        /\ UNCHANGED <<disk, onDisk, flush>>
    BY <1>4 DEF vars, history
  <2>3. FlushInOrder' /\ (~overlapped => CleanIsOnDisk')
    BY <1>4, <2>2 DEF vars, IndInv, FlushInOrder, CleanIsOnDisk
  <2>4. /\ disk' \in [DOMAIN disk -> SUBSET Cells] /\ onDisk' \in Nat
        /\ flush' \in [active : BOOLEAN, done : BOOLEAN,
                       todo : SUBSET (PageIds \cup {0}), due : SUBSET Cells]
        /\ flush'.due \subseteq acked
    BY <2>2 DEF IndInv, TypeOK
  <2>. QED
    BY <2>1, <2>2, <2>3, <2>4, FlushKeeps
<1>. QED
  BY <1>1, <1>2, <1>3, <1>4 DEF Next

-----------------------------------------------------------------------------
(* The theorems.                                                           *)

\* The strengthened invariant holds in every reachable state: it is what the
\* others follow from.
THEOREM InvariantHolds == Spec => []IndInv
<1>1. Init => IndInv
  BY InitEstablishes
<1>2. IndInv /\ [Next]_vars => IndInv'
  BY NextKeeps
<1>. QED
  BY <1>1, <1>2, PTL DEF Spec

\* Every variable of the cache keeps its type: in particular the map never names
\* an object that is gone, and never a page that the file does not have.
THEOREM TypeCorrect == Spec => []TypeOK
<1>1. IndInv => TypeOK
  BY DEF IndInv
<1>. QED
  BY <1>1, InvariantHolds, PTL

\* A cached page without its dirty bit is the page of the file, so evict_one may
\* drop it, for any number of threads whose allocations do not overlap.
THEOREM CleanPagesAreOnDisk == Spec => []CleanIsOnDisk
<1>1. IndInv => CleanIsOnDisk
  BY DEF IndInv, CleanIsOnDisk
<1>. QED
  BY <1>1, InvariantHolds, PTL

\* put_page never lets the map outgrow max_pages by more than one clean page,
\* whatever overlaps.
THEOREM CacheIsBounded == Spec => []GrowsByDirtyPages
<1>1. IndInv => GrowsByDirtyPages
  BY DEF IndInv
<1>. QED
  BY <1>1, InvariantHolds, PTL

\* allocate_page gives no page to two collections, and none twice, as long as no
\* two calls of it overlap.
THEOREM PagesAreApart == Spec => []PagesNotShared
<1>1. ASSUME IndInv PROVE PagesNotShared
  <2>. SUFFICES ASSUME ~overlapped
                PROVE  /\ \A t \in Threads : IsInjective(chain[t])
                       /\ \A t, u \in Threads : t # u => Range(chain[t]) \cap Range(chain[u]) = {}
    BY DEF PagesNotShared, PagesHaveOneOwner
  <2>1. OnePageEach
    BY <1>1 DEF IndInv
  <2>. QED
    BY <2>1 DEF OnePageEach, WorksOn, Owned
<1>. QED
  BY <1>1, InvariantHolds, PTL

\* What was acknowledged before flush_all began is in the file when it returns,
\* whatever inserts ran meanwhile, unless one of the two races happened.
THEOREM FlushLosesNothing == Spec => []FlushIsComplete
<1>1. IndInv => FlushIsComplete
  BY DEF IndInv, NothingLost, FlushIsComplete
<1>. QED
  BY <1>1, InvariantHolds, PTL
=============================================================================

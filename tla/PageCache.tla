----------------------------- MODULE PageCache -----------------------------
(***************************************************************************)
(* The page cache (crates/vexra-storage/src/page_cache.rs) under several   *)
(* threads.  Each thread inserts into a collection of its own, whose write *)
(* lock it holds, through write_cell_with_overflow of collection.rs; one   *)
(* more caller is in flush_all, as Database::close is.                     *)
(*                                                                         *)
(* A step is what happens between two releases of a lock.  A cached page   *)
(* is an object behind an Arc: the map and the threads refer to objects,   *)
(* and an object that left the map can still be written.  Page 0 holds the *)
(* header, of which page_count matters here; it is cached from the open on *)
(* and never evicted.  A page is the set of its cells, which have one size.*)
(***************************************************************************)
EXTENDS Integers, Sequences, FiniteSets, Functions, SequencesExt

CONSTANTS
  Threads,         \* inserting threads, one collection each
  CachePages,      \* CacheConfig.max_pages
  PageCells,       \* cells that fit a page
  MaxInserts       \* bound: inserts of a thread

ASSUME PageCacheConstants ==
  /\ IsFiniteSet(Threads)
  /\ CachePages \in Nat
  /\ PageCells \in Nat \ {0}
  /\ MaxInserts \in Nat

VARIABLES
  disk,    \* the file: page id -> its cells, pages from 1 on
  count,   \* page_count in the cached header
  onDisk,  \* page_count in the file
  cached,  \* PageCache.pages: page id -> object
  heap,    \* object -> CachedPage
  thread,  \* the locals of each thread
  chain,   \* the page ids of each thread's collection
  acked,   \* history: cells whose insert returned Ok
  flush,   \* flush_all: the pages to visit, and acked when it began
  orphaned,   \* history: a page was evicted between get_page and the write
  overlapped  \* history: two threads were in allocate_page at once

vars == <<disk, count, onDisk, cached, heap, thread, chain, acked, flush,
          orphaned, overlapped>>
history == <<orphaned, overlapped>>

RootPage == CHOOSE f \in [Threads -> 1 .. Cardinality(Threads)] : IsInjective(f)

\* A cell is named by its thread and the number of the insert.
CellsOf(t) == {t} \X (1 .. MaxInserts)
Cells == UNION {CellsOf(t) : t \in Threads}
PageIds == Nat \ {0}
Objects == Nat \ {0}
Pages == [cells : SUBSET Cells, dirty : BOOLEAN]

\* The objects that threads hold, and with them all that somebody refers to.
Held == {thread[t].object : t \in {t \in Threads : thread[t].pc = "write"}}
Live == Range(cached) \cup Held

Locals ==
  [pc : {"idle", "lookup", "read", "insert", "write",
         "allocate", "zero", "cache", "count"},
   page : PageIds \cup {0}, new : BOOLEAN, object : Objects \cup {0},
   image : SUBSET Cells, inserts : 0 .. MaxInserts]

TypeOK ==
  /\ DOMAIN disk \subseteq PageIds /\ disk \in [DOMAIN disk -> SUBSET Cells]
  /\ count \in Nat /\ onDisk \in Nat
  /\ DOMAIN cached \subseteq DOMAIN disk /\ IsFiniteSet(DOMAIN cached)
  /\ cached \in [DOMAIN cached -> DOMAIN heap] /\ Held \subseteq DOMAIN heap
  /\ DOMAIN heap \subseteq Objects /\ heap \in [DOMAIN heap -> Pages]
  /\ thread \in [Threads -> Locals]
  /\ chain \in [Threads -> Seq(PageIds)]
  /\ acked \subseteq Cells
  /\ flush \in [active : BOOLEAN, done : BOOLEAN,
                todo : SUBSET (PageIds \cup {0}), due : SUBSET Cells]
  /\ orphaned \in BOOLEAN /\ overlapped \in BOOLEAN

-----------------------------------------------------------------------------
(* The map of cached pages.                                                *)

\* f with y at x, in its domain or not.
With(f, x, y) == [z \in DOMAIN f \cup {x} |-> IF z = x THEN y ELSE f[z]]

\* Mutant: any page may be the victim.
EvictAny == DOMAIN cached
\* evict_one's candidates: the pages that are not dirty.
Victims == {p \in DOMAIN cached : ~heap[cached[p]].dirty}

\* Mutant: the cache is full one page later.
FullLater == Cardinality(DOMAIN cached) + 1 > CachePages
\* pages.len() >= max_pages, page 0 included.
Full == Cardinality(DOMAIN cached) + 1 >= CachePages

\* An object that nobody refers to: one number of so many is free.
Fresh == CHOOSE o \in 1 .. Cardinality(Live) + 1 : o \notin Live

\* pages.write(): evict one page if the map is full, then map p to a new clean
\* object.  flush_all keeps the map locked for reading while it runs.
PutPage(p, cells) ==
  /\ ~flush.active
  /\ heap' = With(heap, Fresh, [cells |-> cells, dirty |-> FALSE])
  /\ IF Full /\ Victims # {}
       THEN \E v \in Victims :
              /\ cached' = With(Restrict(cached, DOMAIN cached \ {v}), p, Fresh)
              /\ orphaned' = (orphaned \/ cached[v] \in Held)
       ELSE cached' = With(cached, p, Fresh) /\ UNCHANGED orphaned

\* The locals of a thread between two inserts.
Resting(inserts) ==
  [pc |-> "idle", page |-> 0, new |-> FALSE, object |-> 0, image |-> {},
   inserts |-> inserts]

Goto(t, pc) == thread' = [thread EXCEPT ![t].pc = pc]

-----------------------------------------------------------------------------
(* A new database in which every collection has its root page.             *)

Init ==
  /\ disk = [p \in 1 .. Cardinality(Threads) |-> {}]
  /\ count = Cardinality(Threads) + 1
  /\ onDisk = Cardinality(Threads) + 1
  /\ cached = <<>>
  /\ heap = <<>>
  /\ thread = [t \in Threads |-> Resting(0)]
  /\ chain = [t \in Threads |-> <<RootPage[t]>>]
  /\ acked = {}
  /\ flush = [active |-> FALSE, done |-> FALSE, todo |-> {}, due |-> {}]
  /\ orphaned = FALSE /\ overlapped = FALSE

\* insert writes a cell to the last page of the collection.
StartInsert(t) ==
  /\ thread[t].pc = "idle"
  /\ thread[t].inserts < MaxInserts
  /\ thread' = [thread EXCEPT ![t].pc = "lookup", ![t].page = Last(chain[t]),
                              ![t].inserts = @ + 1]
  /\ UNCHANGED <<disk, count, onDisk, cached, heap, chain, acked, flush, history>>

-----------------------------------------------------------------------------
(* get_page.                                                               *)

Hit(t) ==
  /\ thread[t].pc = "lookup"
  /\ thread[t].page \in DOMAIN cached
  /\ thread' = [thread EXCEPT ![t].pc = "write",
                              ![t].object = cached[thread[t].page]]
  /\ UNCHANGED <<disk, count, onDisk, cached, heap, chain, acked, flush, history>>

Miss(t) ==
  /\ thread[t].pc = "lookup"
  /\ thread[t].page \notin DOMAIN cached
  /\ Goto(t, "read")
  /\ UNCHANGED <<disk, count, onDisk, cached, heap, chain, acked, flush, history>>

ReadFromDisk(t) ==
  /\ thread[t].pc = "read"
  /\ thread' = [thread EXCEPT ![t].pc = "insert", ![t].image = disk[thread[t].page]]
  /\ UNCHANGED <<disk, count, onDisk, cached, heap, chain, acked, flush, history>>

InsertPage(t) ==
  /\ thread[t].pc = "insert"
  /\ PutPage(thread[t].page, thread[t].image)
  /\ thread' = [thread EXCEPT ![t].pc = "write",
                              ![t].object = Fresh, ![t].image = {}]
  /\ UNCHANGED <<disk, count, onDisk, chain, acked, flush, overlapped>>

-----------------------------------------------------------------------------
(* write_cell, after get_page: the page's own lock is held.                *)

Cell(t) == <<t, thread[t].inserts>>
HasRoom(o) == Cardinality(heap[o].cells) < PageCells

\* Mutant: a changed page is not marked dirty.
NotMarked(page, cell) == [page EXCEPT !.cells = @ \cup {cell}]
CellAdded(page, cell) == [cells |-> page.cells \cup {cell}, dirty |-> TRUE]

\* A page just allocated joins the collection once a cell is on it.
Write(t) ==
  /\ thread[t].pc = "write"
  /\ HasRoom(thread[t].object)
  /\ heap' = [heap EXCEPT ![thread[t].object] = CellAdded(@, Cell(t))]
  /\ chain' = IF thread[t].new THEN [chain EXCEPT ![t] = Append(@, thread[t].page)]
                                ELSE chain
  /\ acked' = acked \cup {Cell(t)}
  /\ thread' = [thread EXCEPT ![t] = Resting(@.inserts)]
  /\ UNCHANGED <<disk, count, onDisk, cached, flush, history>>

\* write_cell returns false: write_cell_with_overflow wants a new page, and when
\* that is full too the insert returns an error.
PageFull(t) ==
  /\ thread[t].pc = "write"
  /\ ~HasRoom(thread[t].object)
  /\ thread' = [thread EXCEPT ![t] =
       IF @.new THEN Resting(@.inserts)
                ELSE [@ EXCEPT !.pc = "allocate", !.page = 0, !.object = 0]]
  /\ UNCHANGED <<disk, count, onDisk, cached, heap, chain, acked, flush, history>>

-----------------------------------------------------------------------------
(* allocate_page.                                                          *)

Allocating == {t \in Threads : thread[t].pc \in {"zero", "cache", "count"}}

\* Mutant: the new page is the last one of the file.
CountIsLastPage == count - 1
NextPageId == count

TakeId(t) ==
  /\ thread[t].pc = "allocate"
  /\ thread' = [thread EXCEPT ![t].pc = "zero",
                              ![t].page = NextPageId, ![t].new = TRUE]
  /\ overlapped' = (overlapped \/ Allocating # {})
  /\ UNCHANGED <<disk, count, onDisk, cached, heap, chain, acked, flush, orphaned>>

\* Mutant: a new page only exists in the cache.
ZeroSkipped(t) ==
  /\ thread[t].pc = "zero"
  /\ Goto(t, "cache")
  /\ UNCHANGED <<disk, count, onDisk, cached, heap, chain, acked, flush, history>>
ZeroOnDisk(t) ==
  /\ thread[t].pc = "zero"
  /\ disk' = With(disk, thread[t].page, {})
  /\ Goto(t, "cache")
  /\ UNCHANGED <<count, onDisk, cached, heap, chain, acked, flush, history>>

CacheNewPage(t) ==
  /\ thread[t].pc = "cache"
  /\ PutPage(thread[t].page, {})
  /\ Goto(t, "count")
  /\ UNCHANGED <<disk, count, onDisk, chain, acked, flush, overlapped>>

\* update_page_count; then the cell is written to the new page.
SetCount(t) ==
  /\ thread[t].pc = "count"
  /\ count' = thread[t].page + 1
  /\ Goto(t, "lookup")
  /\ UNCHANGED <<disk, onDisk, cached, heap, chain, acked, flush, history>>

-----------------------------------------------------------------------------
(* flush_all, once.  HashMap iteration visits the pages in any order; the  *)
(* dirty bits stay.                                                        *)

FlushBegin ==
  /\ ~flush.active /\ ~flush.done
  /\ flush' = [active |-> TRUE, done |-> FALSE,
               todo |-> {0} \cup DOMAIN cached, due |-> acked]
  /\ UNCHANGED <<disk, count, onDisk, cached, heap, thread, chain, acked, history>>

FlushHeader ==
  /\ flush.active /\ 0 \in flush.todo
  /\ onDisk' = count
  /\ flush' = [flush EXCEPT !.todo = @ \ {0}]
  /\ UNCHANGED <<disk, count, cached, heap, thread, chain, acked, history>>

FlushPage(p) ==
  /\ flush.active /\ p \in flush.todo \ {0}
  /\ disk' = IF heap[cached[p]].dirty THEN [disk EXCEPT ![p] = heap[cached[p]].cells]
                                      ELSE disk
  /\ flush' = [flush EXCEPT !.todo = @ \ {p}]
  /\ UNCHANGED <<count, onDisk, cached, heap, thread, chain, acked, history>>

\* Mutant: flush_all returns with the map still locked.
KeepsLock == [flush EXCEPT !.done = TRUE]
Unlocked == [flush EXCEPT !.active = FALSE, !.done = TRUE]

FlushEnd ==
  /\ flush.active /\ flush.todo = {} /\ ~flush.done
  /\ flush' = Unlocked
  /\ UNCHANGED <<disk, count, onDisk, cached, heap, thread, chain, acked, history>>

-----------------------------------------------------------------------------
Run(t) ==
  \/ Hit(t) \/ Miss(t) \/ ReadFromDisk(t) \/ InsertPage(t)
  \/ Write(t) \/ PageFull(t)
  \/ TakeId(t) \/ ZeroOnDisk(t) \/ CacheNewPage(t) \/ SetCount(t)

FlushStep == FlushHeader \/ (\E p \in flush.todo : FlushPage(p)) \/ FlushEnd

Next == (\E t \in Threads : StartInsert(t) \/ Run(t)) \/ FlushBegin \/ FlushStep

\* A thread inside a call, and flush_all once begun, are scheduled again and
\* again.  Nobody is obliged to call.
Fairness == (\A t \in Threads : WF_vars(Run(t))) /\ WF_vars(FlushStep)

Spec == Init /\ [][Next]_vars /\ Fairness

-----------------------------------------------------------------------------
(* Properties.                                                             *)

\* When flush_all has returned, every cell acknowledged before it began is in
\* the file, on a page of its collection that page_count covers: no later
\* process hands the page out again.  For db.rs, close does this always.
FlushCompletes ==
  flush.done => \A c \in flush.due :
    \E p \in DOMAIN disk : c \in disk[p] /\ p < onDisk /\ p \in Range(chain[c[1]])

\* It does so unless a page was evicted under a thread that was about to write
\* to it, or two allocations overlapped: nothing else loses a cell.
FlushIsComplete == ~orphaned /\ ~overlapped => FlushCompletes

\* The same for calls of which no two allocate at once, evictions between get_page
\* and the write included: an acknowledged cell is on an object that has left the
\* map, where flush_all does not find it.
FlushSurvivesEviction == ~overlapped => FlushCompletes

\* A cached page that is not dirty is what the file holds, so that evicting it
\* or reading it again gives the same page, unless allocations overlapped.
CleanIsOnDisk ==
  ~overlapped => \A p \in DOMAIN cached :
    ~heap[cached[p]].dirty => heap[cached[p]].cells = disk[p]

\* Dirty pages are never evicted, so the map outgrows max_pages by them; but
\* then it holds at most one clean page besides page 0.
GrowsByDirtyPages ==
  Cardinality(DOMAIN cached) + 1 > CachePages => Cardinality(Victims) <= 1

\* A page belongs to one collection, once.  Two overlapping allocations read the
\* same page_count and hand out one page twice.
PagesHaveOneOwner ==
  /\ \A t \in Threads : IsInjective(chain[t])
  /\ \A t, u \in Threads : t # u => Range(chain[t]) \cap Range(chain[u]) = {}

\* Nothing else does: as long as no two allocations overlap, no eviction, flush or
\* failed insert makes an insert reach a page of another collection.
PagesNotShared == ~overlapped => PagesHaveOneOwner

\* Every insert comes back: flush_all gives back the map that it holds over many
\* steps, and an eviction always leaves room.  A page's own lock is held within one
\* step here, so the order of page locks is no part of this.
InsertsReturn == \A t \in Threads : thread[t].pc # "idle" ~> thread[t].pc = "idle"
=============================================================================

------------------------------ MODULE Catalog ------------------------------
(***************************************************************************)
(* The catalog of collections (crates/vexra-core/src/db.rs) under threads  *)
(* that create and drop collections, with clean restarts and crashes.      *)
(*                                                                         *)
(* The header on page 0 is read and written back whole, each under the     *)
(* page's lock but not under one lock: the model keeps the two apart, and  *)
(* the steps of allocate_page.  catalog_lock is held by ensure_catalog_page*)
(* only; the lock on the map of collections by create_collection while it  *)
(* allocates the root pages.  The cache is large enough here to hold every *)
(* page (PageCache has the evictions).  A catalog page is the sequence of  *)
(* its configurations, an empty collection page the empty sequence.        *)
(***************************************************************************)
EXTENDS Integers, Sequences, Functions

CONSTANTS
  Threads,
  Names,         \* collection names
  RootPages,     \* pages new_persistent allocates: 2 for flat, 3 for HNSW
  CatalogCells,  \* configurations that fit a catalog page
  MaxCount,      \* bound: no call starts when page_count is above
  Overlap,       \* may calls overlap before there is a catalog page, or a drop?
                 \* The code's locks permit it.
  Crashes        \* may the process die?

ASSUME CatalogConstants ==
  /\ RootPages \in 1 .. 3
  /\ CatalogCells \in Nat \ {0}
  /\ MaxCount \in Nat
  /\ Overlap \in BOOLEAN
  /\ Crashes \in BOOLEAN

PageIds == Nat \ {0}  \* but for page 0, which is the header
Headers == [count : PageIds, root : Nat]  \* page_count, catalog_root_page
Configs == [name : Names, pages : Seq(PageIds)]

VARIABLES
  phase,       \* "open", "closed" or "crashed"
  header,      \* page 0 in the cache
  mem,         \* the other pages in the cache
  fileHeader,  \* page 0 in the file
  file,        \* the other pages in the file
  live,        \* Database.collections: name -> configuration
  thread,      \* the locals of each thread
  failed       \* history: names whose create_collection returned an error

vars == <<phase, header, mem, fileHeader, file, live, thread, failed>>
durable == <<fileHeader, file>>

Idle == [pc |-> "idle", for |-> "none", name |-> "none", page |-> 0,
         seen |-> [count |-> 1, root |-> 0], got |-> <<>>, configs |-> <<>>]

Locals ==
  [pc : {"idle", "take", "store", "count", "ensure", "oldRoot", "copy", "readRoot",
         "setRoot", "append", "flush"},
   for : {"none", "collection", "catalog", "rebuild"}, name : Names \cup {"none"},
   page : Nat, seen : Headers, got : Seq(PageIds), configs : Seq(Configs)]

\* f with y under k, as HashMap::insert.
With(f, k, y) == [x \in DOMAIN f \cup {k} |-> IF x = k THEN y ELSE f[x]]

TypeOK ==
  /\ phase \in {"open", "closed", "crashed"}
  /\ header \in Headers /\ fileHeader \in Headers
  /\ DOMAIN mem \subseteq PageIds /\ mem \in [DOMAIN mem -> Seq(Configs)]
  /\ DOMAIN file = DOMAIN mem /\ file \in [DOMAIN file -> Seq(Configs)]
  /\ DOMAIN live \subseteq Names
  /\ \A n \in DOMAIN live : live[n] \in Configs /\ Len(live[n].pages) = RootPages
  /\ thread \in [Threads -> Locals]
  /\ failed \subseteq Names

Busy(t) == thread[t].pc # "idle"
AllIdle == \A t \in Threads : ~Busy(t)
Return(t) == thread' = [thread EXCEPT ![t] = Idle]
Goto(t, pc) == thread' = [thread EXCEPT ![t].pc = pc]

-----------------------------------------------------------------------------
(* Locks, and the overlaps of the environment.                             *)

Allocating(t) == thread[t].pc \in {"take", "store", "count"}
CollectionsLocked == \E t \in Threads : Allocating(t) /\ thread[t].for = "collection"

CatalogLocked ==
  \E t \in Threads : /\ thread[t].for = "catalog"
                     /\ Allocating(t) \/ thread[t].pc \in {"readRoot", "setRoot"}

Dropping(t) == thread[t].for = "rebuild" \/ thread[t].pc = "oldRoot"

\* Without Overlap, which no lock of the code sees to, creates overlap each other
\* once a catalog page exists, and every other call runs alone.
MayStart(creates) ==
  \/ Overlap
  \/ AllIdle
  \/ creates /\ header.root # 0 /\ \A t \in Threads : ~Dropping(t)

-----------------------------------------------------------------------------
Init ==
  /\ phase = "open"
  /\ header = [count |-> 1, root |-> 0]
  /\ fileHeader = [count |-> 1, root |-> 0]
  /\ mem = <<>> /\ file = <<>> /\ live = <<>>
  /\ thread = [t \in Threads |-> Idle]
  /\ failed = {}

-----------------------------------------------------------------------------
(* allocate_page, called for one of three reasons.                         *)

\* Mutant: the last page of the file instead of the one after it.
LastPageId(h) == h.count - 1
NextPageId(h) == h.count

Take(t) ==
  /\ thread[t].pc = "take"
  /\ thread' = [thread EXCEPT ![t].pc = "store", ![t].page = NextPageId(header)]
  /\ UNCHANGED <<phase, header, mem, durable, live, failed>>

\* The empty page goes to the file and the cache; update_page_count reads the
\* header.
Store(t) ==
  /\ thread[t].pc = "store"
  /\ file' = With(file, thread[t].page, <<>>)
  /\ mem' = With(mem, thread[t].page, <<>>)
  /\ thread' = [thread EXCEPT ![t].pc = "count", ![t].seen = header]
  /\ UNCHANGED <<phase, header, fileHeader, live, failed>>

\* Mutant: the header is written as if there were no catalog yet.
CountOnly(seen, page) == [count |-> page + 1, root |-> 0]
\* update_page_count writes back the header it read.
WithCount(seen, page) == [seen EXCEPT !.count = page + 1]

SetCount(t, for) ==
  /\ thread[t].pc = "count" /\ thread[t].for = for
  /\ header' = WithCount(thread[t].seen, thread[t].page)
  /\ UNCHANGED <<phase, mem, durable, failed>>

AllocatedForCatalog(t) ==
  /\ SetCount(t, "catalog")
  /\ Goto(t, "readRoot")
  /\ UNCHANGED live

AllocatedForRebuild(t) ==
  /\ SetCount(t, "rebuild")
  /\ Goto(t, "copy")
  /\ UNCHANGED live

\* new_persistent wants another root page, or returns, and the collection is
\* entered in the map before the catalog hears of it.
AllocatedForCollection(t) ==
  /\ SetCount(t, "collection")
  /\ LET got == Append(thread[t].got, thread[t].page) IN
     IF Len(got) < RootPages
       THEN /\ thread' = [thread EXCEPT ![t].pc = "take", ![t].got = got]
            /\ UNCHANGED live
       ELSE /\ thread' = [thread EXCEPT ![t].pc = "ensure", ![t].got = got]
            /\ live' = With(live, thread[t].name,
                            [name |-> thread[t].name, pages |-> got])

-----------------------------------------------------------------------------
(* create_collection.                                                      *)

\* A name in use is refused: nothing changes.
Create(t, n) ==
  /\ phase = "open"
  /\ ~Busy(t) /\ ~CollectionsLocked
  /\ MayStart(TRUE) /\ header.count <= MaxCount
  /\ n \notin DOMAIN live
  /\ thread' = [thread EXCEPT ![t].pc = "take", ![t].for = "collection", ![t].name = n]
  /\ UNCHANGED <<phase, header, mem, durable, live, failed>>

\* ensure_catalog_page.
EnsureFound(t) ==
  /\ thread[t].pc = "ensure" /\ ~CatalogLocked
  /\ header.root # 0
  /\ thread' = [thread EXCEPT ![t].pc = "append", ![t].page = header.root]
  /\ UNCHANGED <<phase, header, mem, durable, live, failed>>

EnsureAllocates(t) ==
  /\ thread[t].pc = "ensure" /\ ~CatalogLocked
  /\ header.root = 0
  /\ thread' = [thread EXCEPT ![t].pc = "take", ![t].for = "catalog"]
  /\ UNCHANGED <<phase, header, mem, durable, live, failed>>

\* The header is read again after the allocation, then written with the root.
ReadRoot(t) ==
  /\ thread[t].pc = "readRoot"
  /\ thread' = [thread EXCEPT ![t].pc = "setRoot", ![t].seen = header]
  /\ UNCHANGED <<phase, header, mem, durable, live, failed>>

\* Mutant: the header of before the allocation is used.
RootOnOldHeader(seen, page) == [count |-> page, root |-> page]
\* Mutant: page_count is taken for the page that was allocated.
RootIsCount(seen, page) == [seen EXCEPT !.root = seen.count]
WithRoot(seen, page) == [seen EXCEPT !.root = page]

SetRoot(t) ==
  /\ thread[t].pc = "setRoot"
  /\ header' = WithRoot(thread[t].seen, thread[t].page)
  /\ Goto(t, IF thread[t].for = "catalog" THEN "append" ELSE "flush")
  /\ UNCHANGED <<phase, mem, durable, live, failed>>

\* persist_collection: write_cell.
AppendConfig(t) ==
  /\ thread[t].pc = "append"
  /\ Len(mem[thread[t].page]) < CatalogCells
  /\ mem' = [mem EXCEPT ![thread[t].page] =
               Append(@, [name |-> thread[t].name, pages |-> thread[t].got])]
  /\ Goto(t, "flush")
  /\ UNCHANGED <<phase, header, durable, live, failed>>

\* "Catalog page full": an error, but the collection stays in the map.
CatalogFull(t) ==
  /\ thread[t].pc = "append"
  /\ Len(mem[thread[t].page]) >= CatalogCells
  /\ failed' = failed \cup {thread[t].name}
  /\ Return(t)
  /\ UNCHANGED <<phase, header, mem, durable, live>>

\* flush_page: the end of create_collection and of drop_collection.
FlushPage(t) ==
  /\ thread[t].pc = "flush"
  /\ file' = [file EXCEPT ![thread[t].page] = mem[thread[t].page]]
  /\ Return(t)
  /\ UNCHANGED <<phase, header, mem, fileHeader, live, failed>>

-----------------------------------------------------------------------------
(* drop_collection.                                                        *)

Drop(t, n) ==
  /\ phase = "open"
  /\ ~Busy(t) /\ ~CollectionsLocked
  /\ MayStart(FALSE) /\ header.count <= MaxCount
  /\ n \in DOMAIN live
  /\ live' = Restrict(live, DOMAIN live \ {n})
  /\ failed' = failed \ {n}
  /\ thread' = [thread EXCEPT ![t].pc = "oldRoot", ![t].name = n]
  /\ UNCHANGED <<phase, header, mem, durable>>

\* Mutant: the dropped collection is not filtered out.
All(configs, n) == configs
Remaining(configs, n) ==
  LET kept[i \in 0 .. Len(configs)] ==
        IF i = 0 THEN <<>>
        ELSE IF configs[i].name = n THEN kept[i - 1]
        ELSE Append(kept[i - 1], configs[i])
  IN kept[Len(configs)]

\* remove_collection_from_catalog reads the configurations off the old page.
ReadConfigs(t) ==
  /\ thread[t].pc = "oldRoot" /\ header.root # 0
  /\ thread' = [thread EXCEPT ![t].pc = "take", ![t].for = "rebuild",
                              ![t].configs = Remaining(mem[header.root], thread[t].name)]
  /\ UNCHANGED <<phase, header, mem, durable, live, failed>>

NoCatalog(t) ==
  /\ thread[t].pc = "oldRoot" /\ header.root = 0
  /\ Return(t)
  /\ UNCHANGED <<phase, header, mem, durable, live, failed>>

\* The configurations go to the new page one after the other; when one does not
\* fit, drop_collection returns the error.
Copy(t) ==
  LET new  == mem[thread[t].page] \o thread[t].configs
      fits == Len(new) <= CatalogCells
  IN
  /\ thread[t].pc = "copy"
  /\ mem' = [mem EXCEPT ![thread[t].page] =
               IF fits THEN new ELSE SubSeq(new, 1, CatalogCells)]
  /\ IF fits THEN Goto(t, "readRoot") ELSE Return(t)
  /\ UNCHANGED <<phase, header, durable, live, failed>>

-----------------------------------------------------------------------------
(* Processes.                                                              *)

\* close may be called by any thread at any time, and takes its time: flush_all
\* writes page after page.
FlushHeader ==
  /\ phase = "open"
  /\ fileHeader # header
  /\ fileHeader' = header
  /\ UNCHANGED <<phase, header, mem, file, live, thread, failed>>

FlushOther(p) ==
  /\ phase = "open"
  /\ file[p] # mem[p]
  /\ file' = [file EXCEPT ![p] = mem[p]]
  /\ UNCHANGED <<phase, header, mem, fileHeader, live, thread, failed>>

\* Mutant: the catalog page is flushed, page 0 is not.
PageZeroKept == fileHeader
FlushedHeader == header

\* Database is dropped, when no thread is in a call.
Shutdown ==
  /\ phase = "open" /\ AllIdle
  /\ phase' = "closed"
  /\ file' = mem
  /\ fileHeader' = FlushedHeader
  /\ UNCHANGED <<header, mem, live, thread, failed>>

Crash ==
  /\ Crashes
  /\ phase = "open"
  /\ phase' = "crashed"
  /\ header' = fileHeader
  /\ mem' = file
  /\ live' = <<>> /\ failed' = {}
  /\ thread' = [t \in Threads |-> Idle]
  /\ UNCHANGED durable

\* load_catalog: a later configuration of a name overwrites an earlier one.
Loaded(configs) ==
  [n \in {configs[i].name : i \in DOMAIN configs} |->
     configs[CHOOSE i \in DOMAIN configs :
               /\ configs[i].name = n
               /\ \A j \in DOMAIN configs : configs[j].name = n => j <= i]]

Open ==
  /\ phase \in {"closed", "crashed"}
  /\ phase' = "open"
  /\ header' = fileHeader
  /\ mem' = file
  /\ live' = IF fileHeader.root = 0 THEN <<>> ELSE Loaded(file[fileHeader.root])
  /\ failed' = {}
  /\ UNCHANGED <<durable, thread>>

-----------------------------------------------------------------------------
Step(t) ==
  \/ Take(t) \/ Store(t)
  \/ AllocatedForCollection(t) \/ AllocatedForCatalog(t) \/ AllocatedForRebuild(t)
  \/ EnsureFound(t) \/ EnsureAllocates(t) \/ ReadRoot(t) \/ SetRoot(t)
  \/ AppendConfig(t) \/ CatalogFull(t) \/ FlushPage(t)
  \/ ReadConfigs(t) \/ NoCatalog(t) \/ Copy(t)

Next ==
  \/ \E t \in Threads : Step(t) \/ \E n \in Names : Create(t, n) \/ Drop(t, n)
  \/ FlushHeader \/ (\E p \in DOMAIN mem : FlushOther(p))
  \/ Shutdown \/ Crash \/ Open

Spec == Init /\ [][Next]_vars

-----------------------------------------------------------------------------
(* Properties.                                                             *)

Recorded == IF header.root = 0 THEN {} ELSE Range(mem[header.root])

\* Between calls the catalog page holds exactly the collections in the map, each
\* with its own root pages, but for those whose create_collection failed.
CatalogMatches ==
  (phase = "open" /\ AllIdle) =>
    Recorded = {live[n] : n \in DOMAIN live \ failed}

\* Between calls no collection of the map is missing on the catalog page, but for
\* those whose create_collection failed: the next process will find them all.
CollectionsAreRecorded ==
  (phase = "open" /\ AllIdle) =>
    {live[n] : n \in DOMAIN live \ failed} \subseteq Recorded

\* The root pages of all collections and the catalog page are different pages,
\* and page_count is beyond them: the next allocation takes none of them.
PagesNotShared ==
  (phase = "open" /\ AllIdle) =>
    /\ header.root < header.count
    /\ \A n \in DOMAIN live :
         /\ IsInjective(live[n].pages)
         /\ \A p \in Range(live[n].pages) : p < header.count /\ p # header.root
    /\ \A m, n \in DOMAIN live :
         m # n => Range(live[m].pages) \cap Range(live[n].pages) = {}

\* After a clean restart the collections are those of before, on the same pages;
\* one whose create_collection failed is gone.
RestartKeepsCollections ==
  [][phase = "closed" /\ phase' = "open" =>
       live' = Restrict(live, DOMAIN live \ failed)]_vars

\* Whatever overlaps and whenever the process dies, the pages that load_catalog and
\* new_persistent read when the database is opened are in the file: the catalog
\* page that the header names and the root pages of every collection on it.
\* An error there makes Database::open fail for good.
AlwaysOpens ==
  fileHeader.root # 0 =>
    /\ fileHeader.root \in DOMAIN file
    /\ \A c \in Range(file[fileHeader.root]) : Range(c.pages) \subseteq DOMAIN file
=============================================================================

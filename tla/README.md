# TLA+ models of Vexra (EmbedDB)

Vexra is an embedded vector database in Rust: a page file with a cache, a
write-ahead log, collections of vectors with JSON metadata, exact (flat) and
approximate (HNSW) indexes, and an HTTP server, a command line and language
bindings on top. This directory holds TLA+ modules of its storage, collection,
index, query and server layers, the TLC configurations that check them, and
TLAPS proofs about all of these layers.

Modules are translated from the source under `src/crates`; `PROJECT.json` maps
every definition to the lines it stands for.

To check a run: `tlc -config WalSafe.cfg MCWal`. To check the proofs: `tlapm M.tla`
with `M` one of `WalProofs`, `ServerProofs`, `PageCacheProofs`, `CollectionProofs`,
`QueryProofs`, `CatalogProofs`, `HnswProofs`, `FoldLemmas`.

## 1. Inventory of the system

| component | state | operations | talks to |
| --- | --- | --- | --- |
| Write-ahead log, `vexra-storage/src/wal.rs` | the `-wal` file; salts, `sequence`, `frame_count`, the file behind a mutex | `new`, `open`, `append_frame`, `checkpoint`, `recover`, `remove` | the database file, which it writes itself; `Database` |
| Page cache, `vexra-storage/src/page_cache.rs` | the map page id -> `Arc<RwLock<CachedPage>>`, the file, page 0 with `page_count` and `catalog_root_page` | `get_page`, `allocate_page`, `write_cell`, `flush_page`, `flush_all`, `update_db_header`, eviction | collections, catalog |
| Page format, `vexra-storage/src/format.rs` | the byte layout of headers, pages, cells | (de)serialise, `has_room` | page cache |
| Collection, `vexra-core/src/collection.rs` | `id_map`, `reverse_id_map`, index, metadata store, page chains; the process-wide `NEXT_DOC_ID` | `insert`, `delete`, `search`, reload | page cache, indexes, metadata |
| Database and catalog, `vexra-core/src/db.rs` | the map of collections, the catalog page | `open`, `create_collection`, `drop_collection`, `maybe_checkpoint`, `close`, `Drop` | all of the above |
| Flat index, HNSW graph, `vexra-index` | vectors by id; nodes, edges per layer, entry point | `insert`, `remove`, `search`; HNSW `save_to_page`, `load_from_page` | collection, page cache |
| Metadata store and filters, `vexra-metadata` | metadata by document | `insert`, `get`, `remove`; `Filter::parse`, `evaluate` | collection |
| Fusion, BM25, `vexra-query` | a tantivy index | `add`, `commit`, `search`; `fuse_rrf`, `fuse_weighted` | caller |
| Server, CLI, FFI, SDKs | a handle on the database | conversions and calls | database |
| Embedding, distance, encoding | none | pure functions | - |

What is hard in it:

* **Concurrency.** `Database` is shared between threads and the server calls it
  under a read lock (`routes.rs`), so handlers run side by side, and most take
  several locks one after another: the map, then the collection, then the map
  again. A collection is
  behind an `RwLock`; the map of collections behind another; the catalog behind
  `catalog_lock`, but only while its page is being found. The cache's pages are
  locked one at a time, and the header on page 0 is read and written back under
  two separate locks.
* **Crashes.** The log's file operations are several writes each. The page file
  is written by `allocate_page` (the empty page), by `flush_page` (catalog pages)
  and by `flush_all` (at close): a crash leaves any mixture.
* **Restarts.** What is reloaded (root pages, the catalog page, a counter
  computed from the number of vectors) is not what was in memory.
* **Bounds.** Full pages, a full catalog page, a full cache, the checkpoint
  threshold.

What makes each component correct:

* log: an acknowledged append is recovered after a crash anywhere, exactly once
  and over nothing newer; frames go only when they were copied; a start ends;
* cache: an acknowledged cell is in the file after `flush_all`; a page belongs
  to one owner; clean pages equal the file; nobody waits for ever;
* collection: the two id maps stay inverse; a call changes one document; the
  pages say what memory says; a restart keeps the documents;
* graph: an entry point exists on the highest layer; links are mutual and end at
  nodes that exist; inserts keep every node reachable; a search does not stop short
  of a nearer node that it has seen;
* query: exact results in order; a filter means what is written; each document
  once in a fusion; every build of a kernel gives the same order;
* page: each index gives back the whole cell accepted last for it;
* server: no call misses what was acknowledged before it began; one create of a
  name wins; every call is answered;
* catalog: the catalog page lists the collections of the map; pages are not
  shared; a restart keeps the collections; the database always opens again.

The hazards behind these, each at its source line, are in `PROJECT.json`.

## 2. Modules

### `DurableStore` and `Wal`: the log

`DurableStore` is the promise: a map of pages, on which a write takes effect
atomically while the store is up, and which going down and coming up leaves
alone. `Wal` is the code. Its state is the database file (`db`), the log file
(`file`, `hdrSalt`, `body`), and one process: `pc` says which method it is in,
`mgrSalt`, `sequence`, `frameCount` are the fields of `WalManager`. A
`write_all` is two steps, so that a crash can leave a header, a frame or a page
half written.

| action | code |
| --- | --- |
| `New`, `RecoverNothing`, `RecoverFrames`, `OpenFresh`, `OpenExisting`, `OpenFails` | `open_with_config`: `new`, `recover`, `open` |
| `AppendBegin`, `AppendEnd`, `AppendError` | `append_frame` and its write failing half way |
| `MaybeCheckpoint`, `Close` with `CheckpointOrRemove` | `Database::maybe_checkpoint`, `close` |
| `CopyBegin`, `CopyEnd`, `CopyDone`, `HeaderBegin`, `HeaderEnd`, `Remove` | the shared body of `checkpoint` and `recover`, then `remove` |
| `CopyError` | an I/O error of their copies: of `checkpoint` it is returned, of `recover` logged, and `open` follows |
| `Exit`, `Crash` | drop of the manager, death of the process |

Checksums are abstracted to what the reader compares: a frame's salt against the
header's, and whether all bytes are there. No caller in `src/` calls
`append_frame` yet (inserts go to cached pages); it is modelled as the log's
public operation, with any page and any content.

`close` calls `flush_all` of the page cache first; the pages of the log and those of
the cache do not meet, so for the log this is a stutter, and so is a `close` that
ends there with an error.

Not modelled: `recover`'s early return for salts (0, 0), which a drawn pair
practically never is; errors of `set_len` and of the header's write behind the
copies, and of reading the log; power loss (the code never calls `sync_all`, so it
promises nothing there); appends after `close`.

### `PageCache`

Each of two threads inserts into a collection of its own (its write lock is held
during the insert), through `write_cell_with_overflow`; one more caller is in
`flush_all`. A step is what happens between two releases of a lock: the lookup
and the miss of `get_page` (`Hit`, `Miss`, `ReadFromDisk`, `InsertPage`), the
write to the object (`Write`, `PageFull`), and `allocate_page` (`TakeId`,
`ZeroOnDisk`, `CacheNewPage`, `SetCount`). Cached pages are objects: the map and
the threads refer to them, so an object that has left the map can still be
written. A new object has a number that no object in use has; page ids begin at 1,
and 0 stands for page 0 and for no object. `flush_all` keeps the map locked for reading; other threads may read
the map and write to pages meanwhile.

Two history variables record the overlaps under which the code breaks:
`orphaned` (a page was evicted between a thread's `get_page` and its write) and
`overlapped` (two threads were in `allocate_page` at once). Everything may
overlap in every run; the properties that need it name the condition.
Without `orphaned`, `FlushIsComplete` becomes `FlushSurvivesEviction`, which fails: a
write goes to an object that the map no longer has, is acknowledged, and `flush_all`
never sees it. Without `overlapped`, `PagesNotShared` becomes `PagesHaveOneOwner`,
which fails, as both threads read the same `page_count`. `Catalog` has that race
between creates, under its `Overlap`.

A page's own lock is held within one step, so the order in which page locks are
taken is not part of the model; the map's lock, which `flush_all` keeps, is. As
the threads have pages of their own, two of them miss the same page only after
overlapping allocations.

### `Collection`

One persistent flat collection over several processes. `insert` is one action
per outcome (`InsertVector`, `InsertMetadata`, `InsertBoth`, `InsertNothing`,
error returns included), `delete` is `Delete` or `DeleteUnknown`; both run under
the collection's write lock, so they are atomic. A page is the sequence of its
cells: vector, metadata and tombstone cells as the encode functions tell them
apart. `Close` runs `flush_all` page by page (`FlushData`, `FlushMetadata`);
`Open` is `new_persistent` with `load_vectors`, `load_metadata` and
`init_id_counter`. Only the root pages are kept in the file, because the ids of
overflow pages are written nowhere. The history variable `clash` records that an
internal id was given to a second document.

### `Catalog`

Threads create and drop collections; `allocate_page`, `ensure_catalog_page`,
`persist_collection` and `remove_collection_from_catalog` are stepped through
with the header read and written back apart. `Shutdown` with `FlushHeader` and
`FlushOther` is the drop of the handle, `Crash` its death, `Open` is
`load_catalog`. Locks appear as `CollectionsLocked` and `CatalogLocked`. Two
constants name the environment: `Crashes`, and `Overlap` (calls overlap before
there is a catalog page, or with a drop). The code permits both. Without `Overlap`,
creates still overlap one another once there is a catalog page; nothing in the code
keeps the other calls apart, so that what is shown and proved without it is a
promise to a caller who does. `MCCatalog` also has a start with one collection, for
the configurations that are not about the first create.

### `Hnsw`: the graph

Nodes with a list of neighbors per layer, the entry point and `max_layer`.
`InsertFirst` and `InsertNext` are `insert`, with the greedy descent (`Descend`),
the beam search of each layer (`SearchLayer`), the selection of neighbors and the
back-links (`Connect`); the same id again removes the node first (`Cleared`).
`RemoveNode` is `remove`, which takes any node left as the entry point, as a
hash map gives any key first; `SoftDelete` sets the tombstone; `Reload` is a new
process, in which `new_persistent` replaces the graph it has filled by what
`load_from_page` returns. That is an empty graph: it has no nodes to put edges
at, and `write_cell` has not counted the cells (`CellsCounted`).

`random_level` returns anything up to one above the highest layer. The metric is a
constant operator (`Distance`), of which the graph only compares values: nothing
like symmetry or a triangle inequality is assumed, but no two vectors are equally
far from a third (`NoTies`), so that a heap's order is determined. The run has points
of the plane and squared Euclidean distances.
The history variables `refused` and `removals` record that a full list took no
link back, and how many nodes were removed: after the first a node can be
unreachable, after the second the graph can fall apart although its links are
mutual. A removal makes no new links.

The loop of `search_layer` is a function of the number of its steps (`Explored` is
one, `Finished` its end), up to a number by which it has ended (`StepsAtMost`), so
that it can be proved about; `With` is `HashMap::insert`.

### `Query`, `Documents`, `Kernels`, `Filter`, `Fusion`, `Page`

`Query` is a collection in memory: the flat index as the sequence it is, with
replacement in place and `swap_remove`, the metadata, and `search` with its
filter, over the operators of `Kernels` and `Filter`. `Documents` is what a
collection promises, documents inserted in parts and deleted as a whole; `Query`
implements it (`ImplementsDocuments`).

The other four are functions, without state:

* `Kernels`: the three sums as the code computes them, element by element, in
  registers of eight (AVX2) or four (NEON) with the reduction and the loop over
  the remainder; the dispatch; and the three metrics as fractions that order
  vectors as the code's scores do. Elements are integers.
* `Filter`: `Filter::parse` over tokens, with the order in which it looks for
  AND, OR, IN, CONTAINS, =, > and <, and `evaluate`. A quoted string is one token,
  and what the parser finds inside of it is said by constants: the word CONTAINS
  (`Mentions`), parentheses, which it counts (`Parens`), and commas, at which it
  splits a list (`Items`). The reference is `Says`: what a condition written down
  means.
* `Fusion`: `fuse_rrf` and `fuse_weighted` with exact fractions; equal scores
  come out in any order.
* `Page`: `write_cell` and `cell_data` at the level of bytes. A page is the
  sequence of its writes, each of a range, so a pointer or a cell that was
  written over is seen as torn. Lengths and offsets are `u16`.

`Algorithms` calls each with every input of a bounded set and states their
properties; `MCQuery` checks it together with `Query`, a behavior being either
the life of a collection or one call of a function.

### `Server`: calls that overlap

Threads call the database as the handlers of `routes.rs` do (and `drop`, which
only the C and Python interfaces call). A call is a record that says at which
step it is, and a step goes from one lock to the next: `Lookup` clones the `Arc`
of a collection under the map's lock, `EnterCollection` takes the collection's,
`Write` or `Read` does the work and lets go; `Create` and `Drop` change the map,
`Persist` or `PersistFails` is the catalog under its mutex. `ListNames` reads
the names and looks each one up again, `Stats` keeps the map while it goes
through the collections. Each lock has a queue, as `parking_lot`'s are
task-fair; to take a place in it is a step of its own (`Queue`), so that others come
between a release of the map and the wait for the collection. `WriteFails` may have
stored the vector, when it is the metadata that cannot be written. A dropped
collection lives as long as somebody holds its `Arc`. History (`acked`, and `known` and `upset` in a call) says which documents and
collections a call has to find: acknowledged before it began, and not deleted or
dropped beside it.

### How the modules fit

`Wal`, `PageCache`, `Collection`, `Catalog` and `Server` are the same process seen
at different grains, and each keeps of the others what it can observe. `Server`
has of a collection its lock and its documents, of the catalog that it may fail;
`Query` is the index and metadata inside `Collection`, `Hnsw` the index that may
stand in their place, `Page` what is inside a page of `PageCache`. `Catalog`
and `PageCache` share `allocate_page` and `page_count`; `Collection` sees
`PageCache` through chains of pages and `flush_all`; `Wal` writes the same file
as the cache, but as nothing is appended by the collections, they do not meet.

## 3. Runs

| run | shows |
| --- | --- |
| `wal_safe` | Without the three faults below: `Durable`, `CloseKeepsAppends`, the refinement `ImplementsStore` and `StartTerminates`. Crashes happen at every step of a checkpoint, a recovery and a close. |
| `wal_faults` | With all faults: `UncopiedFramesKept`, `TornOnlyByCopy`. |
| `wal_empty_log_crash` | Violation of `Durable`: a header without frames keeps its old salts, and later frames are unreadable. |
| `collection` | `MapsInverse`, `PagesAreCurrent`, `OneDocumentPerCallUnlessClash` with overflow, deletes, reinserts, failed inserts, restarts, crashes. |
| `collection_restart` | Violation of `RestartKeepsDocuments`: overflow pages are not found again. |
| `page_cache` | `FlushIsComplete`, `CleanIsOnDisk`, `GrowsByDirtyPages`, `PagesNotShared`, `InsertsReturn` under every overlap: an eviction under a writer and overlapping allocations are the only ways to lose a cell, and the second the only way to share a page or to have a clean page differ from the file. |
| `catalog` | `CatalogMatches`, `PagesNotShared`, `RestartKeepsCollections` with creates that overlap once there is a catalog page, drops and a first create that run alone, clean restarts and a full catalog page. |
| `catalog_faults` | `AlwaysOpens` under every overlap and crash: the pages that the next process is sent to are in the file. |
| `hnsw` | `EntryIsLive`, `LinksAreMutual`, `InsertsConnect`, `AnswersAreLive`, `AnswersAreClosed` over every order of inserts, reinserts, removals, soft deletes and reloads. |
| `hnsw_duplicates` | Violation of `AnswersDistinct`: a search returns a node twice. |
| `query` | `ImplementsDocuments`, `AnswersAreNearest`, `FilteredSearchIsComplete` of a collection; `BuildsAgree`, `PlainFiltersMean`, `FusionAgrees`, `PagesKeepCells` of the functions. |
| `server` | `AcknowledgedIsFound`, `CreatedOnce` and `EveryCallAnswered` for overlapping calls. |

Each violation run has a finding in `PROJECT.json` with the line of
documentation it contradicts. The passing runs state the strongest form of a
property that does hold, with its condition in the formula (`clash`, `failed`,
`orphaned`, `overlapped`, `refused`, one page) or in a named constant. Taking the
condition away shows what the code does not keep. Nine configurations beside the
runs do that; each ends with a violation, in seconds, and its trace is the
shortest that there is:

| configuration, module | violated | what the trace shows |
| --- | --- | --- |
| `WalAppendError`, `MCWal` | `CloseKeepsAppends` | `append_frame` leaves what a failed `write_all` has written; the next frame is acknowledged behind it, cannot be read, and a clean close (`db.rs:195`, "flushing all data to disk") removes it with the log. |
| `WalRecoveryError`, `MCWal` | `Durable` | An error of `recover` is only logged (`db.rs:63`); the log is opened with its torn last frame, and appends behind that are acknowledged and never read. |
| `CollectionClash`, `MCCollection` | `OneDocumentPerCall` | `db.rs:375` says "Use the maximum internal ID from loaded data, not vector_count()", and line 377 uses `vector_count()`. A document without an id takes two numbers, so the first of a database has the internal id 10001, which is the counter after a restart: the next insert under another id overwrites its vector. |
| `PageCacheEviction`, `MCPageCache` | `FlushSurvivesEviction` | Between `get_page` and the page's lock the page is evicted, still clean; the cell goes to the orphan, the insert returns Ok, and `flush_all` never sees it. |
| `PageCacheAllocations`, `MCPageCache` | `PagesHaveOneOwner` | Two collections overflow at once, read one `page_count`, and get one page. |
| `CatalogFirstCreates`, `MCCatalog` | `PagesNotShared` | The first create holds `catalog_lock` (`db.rs:224`, "to prevent TOCTOU race"), the second allocates under the map's lock: the header with the root is written over a `page_count` that has grown, and a page is handed out again. |
| `CatalogOverlap`, `MCCatalog` | `CollectionsAreRecorded` | A create appends to the catalog page that a drop has read already and is about to replace: it returns Ok, and the catalog does not have the collection. |
| `CatalogCrash`, `MCCatalog` | `PagesNotShared` | `persist_collection` flushes the catalog page and not page 0: after a crash a collection is listed whose pages `page_count` does not cover. |
| `FilterQuotes`, `MCQuery` | `QuotedFiltersMean` | `filter.rs:159` says "not inside quotes or parentheses", and line 170 counts parentheses inside quotes: after `x = ":("` no AND or OR is found. |

`db.rs:20` calls the database "Thread-safe: can be shared across threads", which the
four about overlaps contradict.

These conditions have no configuration of their own:

* `InsertsConnect` without `refused`: a node that only full nodes are near to is
  inserted and never found. Neither this nor `LinksAreMutual` says anything of a
  graph in which a full list has refused a link.
* `PlainFiltersMean` for the other conditions of the documentation: `field = 42`
  compares with a float and equals no stored integer, `field >= 5` becomes an
  equality on a field whose name ends in `>`, a quoted string that holds CONTAINS
  splits the condition, and one with a comma in a list is taken for two.
* `PagesKeepCells` beyond the pointers: a graph saved with more nodes than a page
  has pointers, on a page large enough for them, writes pointers over cells; and
  a cell or a page of 65536 bytes or more makes `write_cell` panic.
* `FilteredSearchIsComplete` for a `k` below the number of documents: the filter is
  applied to the `k` nearest, and matching documents behind them are missed.

### Bounds, and why they are enough

* Log: two pages, two contents, two salts, three frames, threshold two. Two
  frames of one page and one of another give every order of copies; two salts
  tell an old header from the new manager; the threshold is reached, passed and
  reset. The process restarts without limit.
* Cache: two threads, two inserts each, one cell per page, three pages in the
  map (page 0 and both roots, so that the first allocation evicts): every insert
  after the first overflows. With two inserts a page is written, evicted or
  kept, and read again.
* Collection: `Names` one, two cells per page, two vector pages, one metadata
  page, ids up to 5; documents without an id ("doc_N") add further documents.
  `Offset` is 1 instead of 10000: every process starts its counter from it, so all
  numbers are 9999 lower and their order is the same. `HasRoom` stops a call that would
  need more pages than the bound; the code has no such stop.
* Catalog: three names for two places on a catalog page, two root pages each
  (the flat index), two threads; no call starts once `page_count` is above
  `MaxCount`. `catalog_faults` uses two names and one root page, which the
  formula does not distinguish, to allow every overlap and crash.
* Catalog, violations: two names; `CatalogOverlap` and `CatalogCrash` start with one
  collection, closed and opened again, of one root page.
* Graph: four ids, four points of the plane, two layers, lists of one neighbor above layer 0
  and two on it, two removals, one tombstone, `ef` of 2 and 3. Lists fill up with
  the third node, a fourth is then refused, a search for three has more places
  than near nodes, and the entry point is removed with nodes on both layers left.
* Query: three documents, four vectors (a vector and its multiple, another
  direction, the zero vector), two metadata values, `k` below and above the number
  of entries. Kernels: vectors up to dimension 17, two AVX2 registers and a
  remainder, four NEON registers and a remainder; one element of each that is not
  0, which is enough for sums that are linear in either vector. Filters: two
  conditions of the language of the documentation, joined by AND and OR, over two
  fields, with strings that hold a comma, a CONTAINS or half a pair of parentheses. Fusions: all rankings of three documents with distinct scores that make
  ties between rankings.
* Page: a header of 16 bytes and pointers of 4, as in the code; four cells per
  page for 256 and `u16` numbers below 128 for 65536, so that a page is full, has
  all its pointers used, and ends just below, at and above the largest offset.
  Up to five appends and three saves of a graph with up to four nodes.
* Server: two threads, two names, one document, two collections created. One name
  is the subject of all calls, the other only of creates and listings, which is
  enough for a listing that is overtaken. A third thread would only wait longer
  in the same queues.
* Symmetry is used for threads and names in `Catalog`, ids in `Hnsw` and documents
  in `Query`, in runs without liveness properties.

### Fairness and deadlock

`Wal`: weak fairness of the start (`recover` and `open`) and of a replay once it
has begun, as both run on the calling thread without waiting for anybody.
Appends and closes are not fair, crashes not excluded, so `StartTerminates`
allows the process to die. `PageCache`: weak fairness of each thread inside a
call and of `flush_all` once begun, which the operating system's scheduler and
`parking_lot`'s fair handover justify; nobody is obliged to start a call.
`Server`: weak fairness of a thread inside a call, under the queues of
`parking_lot`'s locks, which are in the model; nobody has to start a call. The
other modules have safety properties only.

Deadlock is checked in every run but `page_cache`, where the inserts are bounded
and the system stops when all are done (there `InsertsReturn` says that nobody
waits for ever), and `query`, where a call of a function has no successor.

## 4. Proofs

Eight modules hold theorems, each for every value of the constants of the module
that it is about that its `ASSUME` allows; `FoldLemmas` holds what `QueryProofs` and
`HnswProofs` share. A component with a state has one inductive invariant, written as
named parts, one lemma for each action that disturbs a part, and short theorems at
the end. All safety properties of the passing runs are theorems, but one.

| module | theorem | states |
| --- | --- | --- |
| `WalProofs` | `TypeCorrect` | `Spec => []TypeOK` |
| | `AppendsAreDurable` | `SafeEnvironment => (Spec => []Durable)` |
| | `CloseIsComplete` | `SafeEnvironment => (Spec => []CloseKeepsAppends)` |
| | `LogImplementsStore` | `SafeEnvironment => (Spec => ImplementsStore)` |
| | `FramesAreCopiedFirst` | `Spec => UncopiedFramesKept` |
| | `TornByReplayOnly` | `Spec => TornOnlyByCopy` |
| `ServerProofs` | `TypeCorrect` | `Spec => []TypeOK` |
| | `AcknowledgedFound` | `Spec => []AcknowledgedIsFound` |
| | `CreatedAtMostOnce` | `Spec => []CreatedOnce` |
| `PageCacheProofs` | `TypeCorrect` | `Spec => []TypeOK` |
| | `CleanPagesAreOnDisk` | `Spec => []CleanIsOnDisk` |
| | `CacheIsBounded` | `Spec => []GrowsByDirtyPages` |
| | `PagesAreApart` | `Spec => []PagesNotShared` |
| | `FlushLosesNothing` | `Spec => []FlushIsComplete` |
| `CollectionProofs` | `TypeCorrect` | `Spec => []TypeOK` |
| | `MapsAreInverse` | `Spec => []MapsInverse` |
| | `PagesHoldTheTables` | `Spec => []PagesAreCurrent` |
| | `CallsTouchOneDocument` | `Spec => OneDocumentPerCallUnlessClash` |
| `QueryProofs` | `TypeCorrect` | `Spec => []TypeOK` |
| | `CollectionImplementsDocuments` | `Spec => ImplementsDocuments` |
| | `AnswersAlwaysNearest` | `Spec => []AnswersAreNearest` |
| | `FilteredSearchAlwaysComplete` | `Spec => []FilteredSearchIsComplete` |
| | `BuildsAlwaysAgree` | `Calls => []BuildsAgree` |
| | `PlainFiltersAlwaysMean` | `Calls => []PlainFiltersMean` |
| | `PagesAlwaysKeepCells` | `Calls => []PagesKeepCells` |
| | `FusionsAlwaysAgree` | `Calls => []FusionAgrees` |
| `CatalogProofs` | `TypeCorrect` | `Spec => []TypeOK` |
| | `OpensAfterAnyCrash` | `Spec => []AlwaysOpens` |
| | `NoPageTwice` | `Orderly => (Spec => []PagesNotShared)` |
| | `CatalogIsInStep` | `Orderly => (Spec => []CatalogMatches)` |
| | `RestartsKeepCollections` | `Orderly => (Spec => RestartKeepsCollections)` |
| `HnswProofs` | `TypeCorrect` | `Spec => []TypeOK` |
| | `EntryAlwaysLive` | `Spec => []EntryIsLive` |
| | `LinksAlwaysMutual` | `Spec => []LinksAreMutual` |
| | `InsertsAlwaysConnect` | `Spec => []InsertsConnect` |
| | `AnswersAlwaysLive` | `Spec => []AnswersAreLive` |

`Calls` stands for `AlgorithmsInit /\ [][AlgorithmsNext]_input`.

The assumptions on constants are types and sizes, and these: no two points are
equally far from a third (`NoTies` of `Hnsw`, for any metric), since the model does not say which of
them a heap gives first; vectors are of one length, of integers
(`QueryConstants`), where the code has floats and refuses another length; no field
of a filter is one of its operators, and its texts are finitely many
(`FilterConstants`); cells are not empty; and
the rankings to fuse have positive scores that fall, and a weight leaves each a share
(`AlgorithmsConstants`), as the comment on `fuse_weighted` asks for scores in [0, 1].

### The log

`SafeEnvironment` excludes the three faults for which the violations above show
`Durable` or `CloseKeepsAppends` to fail: a death over a log without a whole
frame, a failing append, and a failing recovery. A failing copy of `checkpoint` or
`close` is not among them.

`Durable` is not inductive: it says nothing of why a log is readable. `IndInv`
adds that all frames carry the header's salt and only the last can be half
written (`LogShape`), what each stage knows of the file and of the manager's
salts (`StageOfLog`: a log at rest has a whole frame or is absent, an idle
manager's salts are the header's), and that during a replay a page is up to date
or has a frame still to come (`ReplayProgress`). The proof has one lemma for each
action that touches the files or the stage, and `NextIndInv` puts them together.
`ReadablePrefix` and the lemmas beside it say what `read_all_frames` returns.

The refinement, that every step is under the mapping of `Wal`'s `Store` an atomic
write, a start or a stop of `DurableStore`, or a stutter, rests on one fact of
the invariant: `RecoveredIsCommitted`, what a restart would read is what the
acknowledged appends promise. `Recovered` picks the last readable frame of a page,
which exists by well-founded induction over the positions of the log
(`LastPosition`). A step then changes the store only where `committed` changes, and
`OnlyAppendsCommit` shows that to be the end of an append.

The last two theorems have no hypothesis: they hold after a failed append and after
a death anywhere, where `IndInv` does not. Their invariant, `ReplayInv`, is about
the replay alone: a replay has a task, the frames before its position are in the
database or have a later readable frame of their page (`Overwritten`), and
`remove` runs only when nothing can be read. `DropsAreCopied` and `TearsAreCopies`
draw the two properties from it.

### The server

The constants are any names, documents and bounds and any finite set of threads.
`AcknowledgedIsFound` speaks of answers, so the invariant says what a call must
know on the way to one. `MapOK`: different names have different collections and
what is acknowledged is there. `CallOK` is about one call: its step fits its
operation (`ShapeOf`), what it has to find and nobody has upset is present, the
`Arc` it holds is the map's or a drop overlaps (`HoldsCurrent`), and a listing has
found, or has still to read, what it owes (`ListsOwed`). `PairOK` is about two
calls: each knows what the other takes away, and only one create of a name can
have won. `RoomForCreates` keeps the number of collections within its bound.
The queues of the locks are in `TypeOK`: each waiting thread has one place in one
queue. The lemmas `Leaves`, `Joins` and those beside them say what `Unlock` and
`Wait` do to them.

### The page cache

All threads, objects and flushes may overlap in any order. Without any condition:
pages that are referred to exist (`PagesExist`), `flush_all` visits pages that stay
cached (`FlushInOrder`), and the cache is bounded. As long as no two allocations
overlapped, `OnePageEach`: a thread works on the last page of its collection or on
the one page that `page_count` names, two threads own no page in common, and a page
that a thread has missed in the map is still missing when it puts it there. If no
page was evicted under a writer either, `NothingLost`: an acknowledged cell is
on a page of its chain, in the cache or the file, and during a flush it is in
the file or on a page that the flush has yet to visit. `CleanIsOnDisk` needs
`OnePageEach`, as a page that two threads allocate is emptied in the file under
its cached object.

### The collection

`MapsInverse` and `PagesAreCurrent` support each other over a restart, as the maps
are rebuilt from a page that an earlier process wrote. `Consistent` says that on a
page, and on the page in the file, documents and internal ids belong together one by
one; `RootInMaps` that the page agrees with the maps in memory; `RootIsCurrent` and
`MetadataIsCurrent` that the last cell of a document is its vector and its
metadata, which is what a reload takes. `DocsAreInUse` ties the documents to ids
that a client can name or the counter gave. What breaks them is a `clash`, and
every part but the types, `DocsAreInUse` and the metadata is under that condition.

### Collections in memory

`IndInv` says that the flat index has one entry per document; `FindIdxFinds`,
`InsertedIs` and `SwapRemoveIs` say what `find_idx`, the replacement in place and
`swap_remove` do, and each outcome of `insert` and `delete` is then a step of
`Documents`.

For the answers, the sort comes first: `SortExists`, an order that is strict and
total, as that of a stable sort is by score and then by position, puts a sequence in
one order, each element at the place that counts those before it. Scores are fractions,
which `LowerOrders` shows to be ordered as numbers are. That a better score means a
nearer vector (`NearerIsLower`) is plain for the distance and the product; for the
cosine it is the identity of Lagrange (`ExcessIs`, `Lagrange`), from which
the inequality of Cauchy and Schwarz follows.

A filtered search finds all (`SearchFinds`, `AnswerOfAll`) because it goes through all
entries, and its filter means what it says: `WrittenReads`, each plain condition
is read as itself, and `EvaluatesAsSaid`, it holds when what is written does.

### The functions

These theorems are about each call of a function, for every input of the kind that
`Algorithms` makes.

* Kernels: `WholeRegistersIs`, the lanes of a register together have the sum of the
  elements read so far; `SumOfIs`, the reduction and the rest make it the sum of
  all, in every build and for any sequence of integers, not only those with one
  element that is not 0.
* Filters: the parser splits a text at AND or OR outside of parentheses. `DepthPast`
  says that a condition closes the parenthesis it opens, so that at the joint the
  depth is 0, and `NoneWithin` that no AND or OR is inside one; so the text falls
  into the conditions that were joined (`TwoSplit`, `ThreeSplit`), each of which is
  read as `WrittenReads` says. The theorem is about strings whose parentheses come in
  pairs (`Balanced`) and lists without a comma in a string (`Whole`), as the code
  counts the ones and splits at the others inside quotes.
* Pages: `WriteKeeps`, what a `write_cell` leaves: the cell and its pointer are
  read back, and all in the data before it and in the other pointers is as it was,
  since the pointers are apart from each other and from the data (`PointersApart`).
  `Stored` is what holds after any number of calls, by induction over the calls
  (`CallsStore`): the free offset is the sum of the cells that were accepted, each is
  where it was put, and the last for an index has the pointer. `CallFits` has the
  `u16` arithmetic.
* Fusion: `TotalIs`, a document adds up to its one share of a ranking or to
  nothing; `PlacesTell`, that is more the better its place; `SumsGrow`, so the sum of
  two is; and a sorted ranking, cut off, has no document in front of one with more
  (`RankedAgrees`).

### The catalog

`Safe` holds with any overlap of calls and with crashes anywhere: every page that
a header, a configuration, a cached or written catalog page or a local of a thread
names is in the file, because `allocate_page` writes the empty page before anybody
can name it (`PagesExist`). `OpensAfterAnyCrash` follows, without any hypothesis.

`Orderly`, neither `Overlap` nor `Crashes`, is the condition of the other three. It is
more than the code's locks give: that a drop, and any call before there is a catalog
page, runs alone is left to the caller. What overlaps under it are creates, once
there is a catalog page. `CatalogFirstCreates`, `CatalogOverlap` and
`CatalogCrash` show that pages are shared and collections lost without it. `Order` says: one thread at most is in
`allocate_page`, and a drop or the first create is alone (`OneAtATime`), so the
header that a thread has read is still the header (`HeaderIsSeen`); a page is a
collection's, the catalog's, or a thread's that is about to use it (`OnePageEach`);
the page lists all collections but those that a thread has yet to append, and a
drop that copies the page has exactly the others in hand, on a page that was empty
(`CatalogIsListed`); a closed database has all of that in its file
(`ClosedIsOnDisk`). `failed` being collections of the map is part of `CatalogIsListed`:
it is no type fact, as overlapping drops break it.

### The graph

`IndInv` is about the graph between calls: every node is well-formed, the entry point
and `max_layer` fit (`GraphOK`), links are mutual while none was refused
(`MutualLinks`), and they reach every node while none was removed (`Reach`). It is
nearly the properties themselves; the work is in the calls, which are loops. In
`SearchLayer` the results are never empty, are nearest first, and are live nodes
or the one where the search started (`Results`); so the descent
(`DescendIs`) ends at a node from which a layer can be searched, and
`select_neighbors` gets a first candidate, which it always takes
(`SelectNeighborsIs`). While `insert` joins the new node (`Joining`), links are only
added, and only to and from that node; one that links to it has its link back
(`LinkedBack`), as its list has room for each of the selected, and what the others
refused is what `OneWay` reports. On layer 0 the new node gets a link, and since
links are mutual it is reached from the others and reaches them (`JoinedReach`),
which matters when it becomes the entry point. `remove` looks for links to the
node only in the lists of its own neighbors: `UnlinkedMutual` says that nothing is
left, by mutuality, and `ClearedIs` that a reinsert therefore starts clean.

A loop is a fold or, in `SearchLayer`, a function of the number of steps. The lemmas
`FoldExists` and `FoldStays` stand for the induction over it: with the loop's
operator as a function `G` on a set `V` of states that it does not leave, what
holds at the start and is kept by `G` holds at the end. They rest on the least number
of a set. `StepsAtMost` is a bound by which every search is finished, by the argument
beside it; the theorems do not need it, as they hold after any number of steps.

### Only model-checked

* `AnswersAreClosed` of `Hnsw`: every neighbor of an answer is an answer or not nearer
  than the `k` answers. It says what the loop of `search_layer` leaves when it ends,
  so that a proof has to go through its termination. That a search finds the nearest
  node is not promised: with copies in the result heap, or `ef` nodes nearer than the
  ones that lead to it, it is missed, in the plane already on four nodes.
* All liveness (`StartTerminates`, `InsertsReturn`, `EveryCallAnswered`), which the
  prover does not treat.

## 5. Plan

What is left, in order of weight:

1. Two databases in one process, which share the id counter of `Collection`.
2. I/O errors of the page cache, in the middle of a catalog update.
3. A proof of `AnswersAreClosed`, from a bound on the steps of `search_layer`.

## 6. Not modelled

* The rounding of `f32`: scores are exact, so that a near tie may be ordered
  otherwise by the code.
* Embeddings, functions from a text to floats that keep no state (hashing, or a
  call of an ONNX model), and value encoding (little-endian integers and float
  slices in a buffer), which no other component calls.
* BM25: a wrapper of tantivy that no collection calls; its promises are tantivy's.
* The CRC32 of a page: `compute_crc` and `verify_crc` hash different bytes, so the
  second can never succeed on what the first made, and nothing calls either.
  The checks of the file's header are not called when a database is opened.
* The HNSW builder and its search parameters, which forward to the graph.
* The command line, the C interface and the SDKs (conversions around the calls
  modelled here), the dashboard, the benchmarks, the generated site and the
  packaging.

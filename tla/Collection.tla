----------------------------- MODULE Collection -----------------------------
(***************************************************************************)
(* One persistent flat collection of crates/vexra-core/src/collection.rs   *)
(* over its life in several processes: insert, delete, close, crash and    *)
(* the reload that Collection::new_persistent does.                        *)
(*                                                                         *)
(* The database keeps a collection behind an RwLock, so insert and delete  *)
(* are atomic towards each other; each is one action, error returns        *)
(* included.  A page is the sequence of its cells; all cells have one size *)
(* and PageCells of them fill a page.  A cell is a vector or a metadata    *)
(* cell or a tombstone, as the encode functions tell them apart.           *)
(*                                                                         *)
(* The pages of a chain live in the page cache.  Only close and Drop write *)
(* them to the file (flush_all); persist_collection flushes no page but    *)
(* the catalog's.  The catalog entry is written once, by create_collection,*)
(* when data_pages and metadata_pages are empty: of an overflow page       *)
(* nothing is found again, so only the root pages are kept here as disk.   *)
(***************************************************************************)
EXTENDS Integers, Sequences, FiniteSets, FiniteSetsExt

CONSTANTS
  Names,       \* document ids that clients choose
  Vecs,        \* vectors of the collection's dimension
  Metas,       \* metadata values
  Offset,      \* what init_id_counter adds to the count, 10000 in the code
  PageCells,   \* cells on a page
  MaxPages,    \* bound: pages of the vector chain
  MaxMetaPages,\* bound: pages of the metadata chain
  MaxId        \* bound: values of NEXT_DOC_ID

ASSUME CollectionConstants ==
  /\ Offset \in Nat
  /\ PageCells \in Nat \ {0}
  /\ MaxPages \in Nat
  /\ MaxMetaPages \in Nat
  /\ MaxId \in Nat

\* A document without an id is called "doc_N": here, the number N.
DocIds == Names \cup Nat

VARIABLES
  phase,      \* "open", "closing", "closed" or "crashed"
  counter,    \* NEXT_DOC_ID
  idMap,      \* Collection.id_map: document id -> internal id
  reverse,    \* Collection.reverse_id_map: internal id -> document id
  index,      \* the flat index: internal id -> vector
  metadata,   \* the metadata store: document id -> metadata
  data,       \* chain of vector pages in the cache: root, data_pages...
  metaPages,  \* chain of metadata pages: root, metadata_pages...
  disk,       \* the two root pages in the database file
  clash       \* history: an internal id was given to a second document

vars == <<phase, counter, idMap, reverse, index, metadata, data, metaPages,
          disk, clash>>
tables == <<idMap, reverse, index, metadata>>
chains == <<data, metaPages>>

VectorCell == [kind : {"vector"}, doc : DocIds, id : Nat, vec : Vecs]
MetaCell == [kind : {"meta"}, doc : DocIds, val : Metas]
Tombstone == [kind : {"tombstone"}, doc : DocIds]

\* f without the key k, as HashMap::remove, and with y under it, as insert.
Without(f, k) == [x \in DOMAIN f \ {k} |-> f[x]]
With(f, k, y) == [x \in DOMAIN f \cup {k} |-> IF x = k THEN y ELSE f[x]]

TypeOK ==
  /\ phase \in {"open", "closing", "closed", "crashed"}
  /\ counter \in Nat
  /\ idMap \in [DOMAIN idMap -> Nat] /\ DOMAIN idMap \subseteq DocIds
  /\ reverse \in [DOMAIN reverse -> DocIds] /\ DOMAIN reverse \subseteq Nat
  /\ index \in [DOMAIN index -> Vecs] /\ DOMAIN index \subseteq Nat
  /\ metadata \in [DOMAIN metadata -> Metas] /\ DOMAIN metadata \subseteq DocIds
  /\ data \in Seq(Seq(VectorCell \cup Tombstone)) /\ data # <<>>
  /\ metaPages \in Seq(Seq(MetaCell \cup Tombstone)) /\ metaPages # <<>>
  /\ disk \in [data : Seq(VectorCell \cup Tombstone),
               meta : Seq(MetaCell \cup Tombstone)]
  /\ clash \in BOOLEAN

-----------------------------------------------------------------------------
(* Page chains.                                                            *)

\* write_cell_with_overflow: the last page of the chain, or a new one.
WithCell(chain, cell) ==
  IF Len(chain[Len(chain)]) < PageCells
    THEN [chain EXCEPT ![Len(chain)] = Append(@, cell)]
    ELSE Append(chain, <<cell>>)

HasRoom(chain, bound) ==
  Len(chain) < bound \/ Len(chain[Len(chain)]) < PageCells

-----------------------------------------------------------------------------
(* Reading a page back.                                                    *)

Tombstoned(page) == {page[i].doc : i \in {i \in DOMAIN page : page[i].kind = "tombstone"}}

\* Mutant: tombstones are skipped but do not hide their document.
TombstonesSkipped(page) == {i \in DOMAIN page : page[i].kind = "vector"}
\* The vector cells load_vectors takes from a page.
LiveCells(page) ==
  {i \in DOMAIN page : page[i].kind = "vector" /\ page[i].doc \notin Tombstoned(page)}

\* A later cell overwrites an earlier one in every table.
LastOf(cells) == Max(cells)

LoadIds(page) ==
  LET live == LiveCells(page)
      docs == {page[i].doc : i \in live}
  IN  [d \in docs |-> page[LastOf({i \in live : page[i].doc = d})].id]

LoadReverse(page) ==
  LET live == LiveCells(page)
      ids  == {page[i].id : i \in live}
  IN  [n \in ids |-> page[LastOf({i \in live : page[i].id = n})].doc]

LoadIndex(page) ==
  LET live == LiveCells(page)
      ids  == {page[i].id : i \in live}
  IN  [n \in ids |-> page[LastOf({i \in live : page[i].id = n})].vec]

\* Mutant: the cell is kept whole, the document id in front of the value.
WholeCells(page) ==
  LET cells == {i \in DOMAIN page : page[i].kind = "meta"}
      docs  == {page[i].doc : i \in cells}
  IN  [d \in docs |-> page[LastOf({i \in cells : page[i].doc = d})]]
\* load_metadata: a tombstone does not decode as JSON and is passed over.
LoadMetadata(page) ==
  LET cells == {i \in DOMAIN page : page[i].kind = "meta"}
      docs  == {page[i].doc : i \in cells}
  IN  [d \in docs |-> page[LastOf({i \in cells : page[i].doc = d})].val]

-----------------------------------------------------------------------------
(* A collection that was just created: two empty root pages.               *)

Init ==
  /\ phase = "closed"
  /\ counter = 1
  /\ idMap = <<>> /\ reverse = <<>> /\ index = <<>> /\ metadata = <<>>
  /\ data = << <<>> >> /\ metaPages = << <<>> >>
  /\ disk = [data |-> <<>>, meta |-> <<>>]
  /\ clash = FALSE

\* Database::open: new_persistent loads the root pages, then init_id_counter
\* sets the process-wide counter from the number of vectors.
Open ==
  /\ phase \in {"closed", "crashed"}
  /\ phase' = "open"
  /\ data' = <<disk.data>>
  /\ metaPages' = <<disk.meta>>
  /\ idMap' = LoadIds(disk.data)
  /\ reverse' = LoadReverse(disk.data)
  /\ index' = LoadIndex(disk.data)
  /\ metadata' = LoadMetadata(disk.meta)
  /\ counter' = Cardinality(DOMAIN LoadIndex(disk.data)) + Offset
  /\ UNCHANGED <<disk, clash>>

-----------------------------------------------------------------------------
(* insert.                                                                 *)

\* The start of insert, which no later error undoes: an unknown document gets
\* the next internal id, the counter then being `first'.
Register(doc, first) ==
  IF doc \in DOMAIN idMap
    THEN counter' = first /\ UNCHANGED <<idMap, reverse, clash>>
    ELSE /\ idMap' = With(idMap, doc, first)
         /\ reverse' = With(reverse, first, doc)
         /\ counter' = first + 1
         /\ clash' = (clash \/ first \in DOMAIN reverse)

\* A document without an id takes one from the same counter first.
Named(doc, first) ==
  \/ doc \in Names \cup (DOMAIN idMap) /\ first = counter
  \/ doc = counter /\ first = counter + 1

InternalId(doc, first) == IF doc \in DOMAIN idMap THEN idMap[doc] ELSE first

StoreVector(doc, id, v) ==
  /\ data' = WithCell(data, [kind |-> "vector", doc |-> doc, id |-> id, vec |-> v])
  /\ index' = With(index, id, v)

StoreMetadata(doc, m) ==
  /\ metaPages' = WithCell(metaPages, [kind |-> "meta", doc |-> doc, val |-> m])
  /\ metadata' = With(metadata, doc, m)

Inserting(doc, first) ==
  /\ phase = "open"
  /\ counter + 2 <= MaxId
  /\ HasRoom(data, MaxPages) /\ HasRoom(metaPages, MaxMetaPages)
  /\ Named(doc, first)
  /\ Register(doc, first)
  /\ UNCHANGED <<phase, disk>>

\* insert stores the vector.  It returns Ok, or Err when the metadata that came
\* with it is too large: the vector stays.
InsertVector(doc, first, v) ==
  /\ Inserting(doc, first)
  /\ StoreVector(doc, InternalId(doc, first), v)
  /\ UNCHANGED <<metadata, metaPages>>

InsertMetadata(doc, first, m) ==
  /\ Inserting(doc, first)
  /\ StoreMetadata(doc, m)
  /\ UNCHANGED <<index, data>>

InsertBoth(doc, first, v, m) ==
  /\ Inserting(doc, first)
  /\ StoreVector(doc, InternalId(doc, first), v)
  /\ StoreMetadata(doc, m)

\* insert returns Err before it stores anything: the vector has the wrong
\* dimension, or its cell (or the metadata's, without a vector) fits no page.
\* A document with neither field ends the same way and returns Ok.
InsertNothing(doc, first) ==
  /\ Inserting(doc, first)
  /\ UNCHANGED <<index, metadata, chains>>

-----------------------------------------------------------------------------
(* delete.                                                                 *)

\* Mutant: the reverse map keeps the deleted document.
ForgetForward(doc) ==
  /\ idMap' = Without(idMap, doc)
  /\ index' = Without(index, idMap[doc])
  /\ UNCHANGED reverse
\* Mutant: the index removes its last vector, as a swap_remove gone wrong.
ForgetLast(doc) ==
  /\ idMap' = Without(idMap, doc)
  /\ index' = IF DOMAIN index = {} THEN index ELSE Without(index, Max(DOMAIN index))
  /\ reverse' = Without(reverse, idMap[doc])
Forget(doc) ==
  /\ idMap' = Without(idMap, doc)
  /\ index' = Without(index, idMap[doc])
  /\ reverse' = Without(reverse, idMap[doc])

Delete(doc) ==
  /\ phase = "open"
  /\ HasRoom(data, MaxPages) /\ HasRoom(metaPages, MaxMetaPages)
  /\ doc \in DOMAIN idMap
  /\ Forget(doc)
  /\ data' = WithCell(data, [kind |-> "tombstone", doc |-> doc])
  /\ metadata' = Without(metadata, doc)
  /\ metaPages' = WithCell(metaPages, [kind |-> "tombstone", doc |-> doc])
  /\ UNCHANGED <<phase, counter, disk, clash>>

\* An unknown document still gets a metadata tombstone, and delete returns Ok.
DeleteUnknown(doc) ==
  /\ phase = "open"
  /\ HasRoom(metaPages, MaxMetaPages)
  /\ doc \notin DOMAIN idMap
  /\ metadata' = Without(metadata, doc)
  /\ metaPages' = WithCell(metaPages, [kind |-> "tombstone", doc |-> doc])
  /\ UNCHANGED <<phase, counter, idMap, reverse, index, data, disk, clash>>

-----------------------------------------------------------------------------
(* The end of a session.                                                   *)

\* close and Drop call flush_all, which writes page after page.
Close ==
  /\ phase = "open"
  /\ phase' = "closing"
  /\ UNCHANGED <<counter, tables, chains, disk, clash>>

FlushData ==
  /\ phase = "closing"
  /\ disk.data # data[1]
  /\ disk' = [disk EXCEPT !.data = data[1]]
  /\ UNCHANGED <<phase, counter, tables, chains, clash>>

FlushMetadata ==
  /\ phase = "closing"
  /\ disk.meta # metaPages[1]
  /\ disk' = [disk EXCEPT !.meta = metaPages[1]]
  /\ UNCHANGED <<phase, counter, tables, chains, clash>>

Closed ==
  /\ phase = "closing"
  /\ disk = [data |-> data[1], meta |-> metaPages[1]]
  /\ phase' = "closed"
  /\ UNCHANGED <<counter, tables, chains, disk, clash>>

Crash ==
  /\ phase \in {"open", "closing"}
  /\ phase' = "crashed"
  /\ counter' = 1
  /\ idMap' = <<>> /\ reverse' = <<>> /\ index' = <<>> /\ metadata' = <<>>
  /\ data' = << <<>> >> /\ metaPages' = << <<>> >>
  /\ UNCHANGED <<disk, clash>>

-----------------------------------------------------------------------------
Insert(doc, first) ==
  \/ \E v \in Vecs : InsertVector(doc, first, v)
  \/ \E m \in Metas : InsertMetadata(doc, first, m)
  \/ \E v \in Vecs, m \in Metas : InsertBoth(doc, first, v, m)
  \/ InsertNothing(doc, first)

Known == Names \cup DOMAIN idMap \cup {counter}

Next ==
  \/ Open
  \/ \E doc \in Known, first \in {counter, counter + 1} : Insert(doc, first)
  \/ \E doc \in Names \cup DOMAIN idMap \cup DOMAIN metadata :
       Delete(doc) \/ DeleteUnknown(doc)
  \/ Close \/ FlushData \/ FlushMetadata \/ Closed
  \/ Crash

Spec == Init /\ [][Next]_vars

-----------------------------------------------------------------------------
(* Properties.                                                             *)

\* The documents a search can return, with their vectors.
Vectors ==
  [d \in {d \in DOMAIN idMap : idMap[d] \in DOMAIN index} |-> index[idMap[d]]]

\* What the next process would find if everything were written now.
VectorsOf(page) ==
  LET ids == LoadIds(page) IN [d \in DOMAIN ids |-> LoadIndex(page)[ids[d]]]

\* Unless an internal id was given out twice, the two maps are inverse and every
\* vector of the index belongs to a document: no search result is "unknown_N",
\* in any session, whatever was deleted, overflowed or lost before.
MapsInverse ==
  ~clash =>
    /\ \A d \in DOMAIN idMap : idMap[d] \in DOMAIN reverse /\ reverse[idMap[d]] = d
    /\ \A n \in DOMAIN reverse : reverse[n] \in DOMAIN idMap /\ idMap[reverse[n]] = n
    /\ DOMAIN index \subseteq DOMAIN reverse

DocIdsInUse == Names \cup (0 .. MaxId)

\* The vector of at most one document is another after the step.
OneDocumentChanges ==
  \E doc \in DocIdsInUse :
    \A d \in (DOMAIN Vectors \cup DOMAIN Vectors') \ {doc} :
      d \in DOMAIN Vectors /\ d \in DOMAIN Vectors' /\ Vectors'[d] = Vectors[d]

\* Unless it is given an internal id that is in use, a call changes the vector of
\* the document it is about and of no other.
OneDocumentPerCallUnlessClash ==
  [][phase = "open" /\ phase' = "open" /\ ~clash' => OneDocumentChanges]_vars

\* What init_id_counter is there for, "to ensure IDs don't collide": a call
\* changes one document only, in every process.  The counter restarts from the
\* number of vectors, so it can meet an id in use.
OneDocumentPerCall ==
  [][phase = "open" /\ phase' = "open" => OneDocumentChanges]_vars

\* While everything fits the root page and no document was inserted again after
\* a delete, the page holds exactly the vectors of the index: a deleted document
\* stays deleted and an overwritten one has its last vector.  On one metadata
\* page the last metadata of every document that has some is what a reload finds.
PagesAreCurrent ==
  phase = "open" =>
    /\ ~clash /\ Len(data) = 1 /\ DOMAIN Vectors \cap Tombstoned(data[1]) = {}
         => VectorsOf(data[1]) = Vectors
    /\ Len(metaPages) = 1 =>
         \A d \in DOMAIN metadata :
           /\ d \in DOMAIN LoadMetadata(metaPages[1])
           /\ LoadMetadata(metaPages[1])[d] = metadata[d]

\* A clean restart keeps every document with its vector, and brings none back
\* that was deleted.
RestartKeepsDocuments ==
  [][phase = "closed" /\ phase' = "open" => Vectors' = Vectors]_vars
=============================================================================

-------------------------------- MODULE Query -------------------------------
(***************************************************************************)
(* A collection in memory, as its searches see it: the flat index of       *)
(* crates/vexra-index/src/flat.rs, the metadata store, and search of       *)
(* crates/vexra-core/src/collection.rs with its filter.  Pages and the     *)
(* internal ids are in module Collection; here an id is the document's.    *)
(***************************************************************************)
EXTENDS Kernels, Filter

CONSTANTS
  Docs,     \* document ids
  Vecs,     \* vectors, sequences of one length
  Metas,    \* metadata, functions from fields to values
  Ks,       \* the top_k of the searches that the properties look at
  Build,    \* the kernels in use
  NoVec, NoMeta

ASSUME QueryConstants ==
  /\ Ks \subseteq Nat
  /\ Build \in Builds
  /\ Vecs \subseteq Seq(Int) /\ NoVec \notin Vecs
  /\ \A v, w \in Vecs : Len(v) = Len(w)
  /\ NoMeta \notin Metas

VARIABLES
  vectors,   \* FlatIndex.vectors: a sequence of ids with vectors
  metadata   \* MetadataStore.entries: id -> metadata

vars == <<vectors, metadata>>

-----------------------------------------------------------------------------
(* The flat index.                                                         *)

FindIdx(s, d) == SelectInSeq(s, LAMBDA e : e.doc = d)

\* insert: in place of the entry of that id, or at the end.
AtTheEnd(s, d, v) == Append(s, [doc |-> d, vec |-> v])
Inserted(s, d, v) ==
  IF FindIdx(s, d) = 0 THEN Append(s, [doc |-> d, vec |-> v])
  ELSE [s EXCEPT ![FindIdx(s, d)] = [doc |-> d, vec |-> v]]

\* Vec::swap_remove: the last entry takes the place of the removed one.
LastRemoved(s, i) == Front(s)
SwapRemove(s, i) == Front([s EXCEPT ![i] = Last(s)])

\* All entries, lowest score first; sort_by keeps equal ones in their order.
SortResults(s, score) ==
  LET Sooner(i, j) == \/ Lower(score[i], score[j])
                      \/ ~Lower(score[j], score[i]) /\ i < j
      order == CHOOSE p \in SetToSeqs(DOMAIN s) :
                 \A i, j \in DOMAIN p : i < j => Sooner(p[i], p[j])
  IN [n \in DOMAIN order |-> s[order[n]]]

IndexSearch(metric, q, k) ==
  LET score == [i \in DOMAIN vectors |->
                  Compute(metric, Build, q, vectors[i].vec)]
      results == SortResults(vectors, score)
  IN SubSeq(results, 1, IF k < Len(results) THEN k ELSE Len(results))

-----------------------------------------------------------------------------
(* The collection.                                                         *)

\* With a filter, a document without metadata is no hit.
UnlessFiltered(d, filter) ==
  d \in DOMAIN metadata => Evaluate(filter, metadata[d])
Passes(d, filter) ==
  d \in DOMAIN metadata /\ Evaluate(filter, metadata[d])

\* The filter is applied to the top k of the index.
Search(metric, q, k, text) ==
  LET filter == Parse(text)
      Push(hits, e) == IF Passes(e.doc, filter) THEN Append(hits, e) ELSE hits
  IN FoldLeft(Push, <<>>, IndexSearch(metric, q, k))

WithMetadata(d, m) ==
  IF m = NoMeta THEN metadata
  ELSE [x \in DOMAIN metadata \cup {d} |-> IF x = d THEN m ELSE metadata[x]]

Insert(d, v, m) ==
  /\ vectors' = IF v = NoVec THEN vectors ELSE Inserted(vectors, d, v)
  /\ metadata' = WithMetadata(d, m)

\* The errors of the two removals are dropped.
Delete(d) ==
  /\ vectors' = IF FindIdx(vectors, d) = 0 THEN vectors
                ELSE SwapRemove(vectors, FindIdx(vectors, d))
  /\ metadata' = [x \in DOMAIN metadata \ {d} |-> metadata[x]]

CollectionInit == vectors = <<>> /\ metadata = <<>>

CollectionNext ==
  \/ \E d \in Docs, v \in Vecs \cup {NoVec}, m \in Metas \cup {NoMeta} :
       Insert(d, v, m)
  \/ \E d \in Docs : Delete(d)

Spec == CollectionInit /\ [][CollectionNext]_vars

-----------------------------------------------------------------------------
(* Properties.                                                             *)

\* The index has one entry per id: search would return the others, too.
TypeOK ==
  /\ vectors \in Seq([doc : Docs, vec : Vecs])
  /\ IsInjective([i \in DOMAIN vectors |-> vectors[i].doc])
  /\ metadata \in UNION {[S -> Metas] : S \in SUBSET Docs}

\* insert and delete, with replacement in place, swap_remove and parts that
\* are left out, do to the documents what their callers expect.
VecOf(d) ==
  IF FindIdx(vectors, d) = 0 THEN NoVec ELSE vectors[FindIdx(vectors, d)].vec
MetaOf(d) == IF d \in DOMAIN metadata THEN metadata[d] ELSE NoMeta
Abstract == INSTANCE Documents WITH
  docs <- [d \in Docs |-> [vec |-> VecOf(d), meta |-> MetaOf(d)]]
ImplementsDocuments == Abstract!Spec

\* What the metrics promise of two vectors, without a formula of theirs: under
\* the cosine metric a multiple of the query is nearer than any vector of
\* another direction, the zero vector included.
ScalarProduct(v, w) == Scalar(Products(v, w))
Parallel(q, v) ==
  /\ \A i, j \in DOMAIN q : q[i] * v[j] = q[j] * v[i]
  /\ ScalarProduct(q, v) > 0
Nearer(metric, q, v, w) ==
  CASE metric = "euclidean" -> Scalar(Squares(q, v)) < Scalar(Squares(q, w))
    [] metric = "dot" -> ScalarProduct(q, v) > ScalarProduct(q, w)
    [] OTHER -> Parallel(q, v) /\ ~Parallel(q, w)

\* The flat index is exact: the k nearest entries, nearest first, each once.  For
\* the cosine this says that vectors in the direction of the query come before all
\* others; it does not compare two other directions.
AnswersAreNearest ==
  \A metric \in Metrics, q \in Vecs, k \in Ks :
    LET found == IndexSearch(metric, q, k)
        others == ToSet(vectors) \ ToSet(found)
    IN /\ Len(found) = IF k < Len(vectors) THEN k ELSE Len(vectors)
       /\ IsInjective(found) /\ ToSet(found) \subseteq ToSet(vectors)
       /\ \A i \in DOMAIN found :
            /\ \A j \in 1..(i - 1) :
                 ~Nearer(metric, q, found[i].vec, found[j].vec)
            /\ \A e \in others : ~Nearer(metric, q, e.vec, found[i].vec)

\* A search with a filter for as many documents as there are finds exactly the
\* documents with a vector whose metadata says what the filter says.
FilteredSearchIsComplete ==
  \A c \in PlainConditions, q \in Vecs :
    {e.doc : e \in ToSet(Search("euclidean", q, Len(vectors), Written(c)))}
      = {d \in Docs : VecOf(d) # NoVec /\ MetaOf(d) # NoMeta
                        /\ Says(c, MetaOf(d))}
=============================================================================

----------------------------- MODULE Algorithms -----------------------------
(***************************************************************************)
(* The functions of Kernels, Filter, Fusion and Page, each called with     *)
(* every input of a bounded set.                                           *)
(***************************************************************************)
EXTENDS Kernels, Filter, Fusion, Page

CONSTANTS
  MaxDimension,  \* bound: dimension of the vectors
  Elements,      \* elements of the vectors other than 0
  FusedDocs,     \* documents of the rankings
  ScoreLists,    \* scores of the rankings, best first
  Tenths,        \* values of alpha, in tenths
  PageSizes,     \* the page_size of a configuration
  CellSizes,     \* bytes of the cells that are appended
  MaxAppends,    \* bound: cells that are appended
  NodeSizes,     \* bytes of the cell of a node of a graph
  MaxSaves,      \* bound: saves of a graph
  MaxNodes       \* bound: nodes of the graph that is saved

ASSUME AlgorithmsConstants ==
  /\ MaxDimension \in Nat
  /\ Elements \subseteq Int
  /\ IsFiniteSet(FusedDocs) /\ Tenths \subseteq 1..9
  /\ \A s \in ScoreLists : /\ s \in Seq(Nat \ {0}) /\ Len(s) >= Cardinality(FusedDocs)
                           /\ \A i, j \in DOMAIN s : i < j => s[j] < s[i]
  /\ PageSizes \subseteq Nat
  /\ CellSizes \subseteq Nat \ {0} /\ NodeSizes \subseteq Nat \ {0}
  /\ MaxAppends \in Nat /\ MaxSaves \in Nat /\ MaxNodes \in Nat

VARIABLE input

\* The vector of dimension n that is x at position p and 0 elsewhere.
Unit(n, p, x) == [i \in 1..n |-> IF i = p THEN x ELSE 0]

VectorPairs ==
  UNION {{[kind |-> "vectors", a |-> Unit(n, p, x), b |-> Unit(n, r, y)] :
            p, r \in 1..n, x, y \in Elements} : n \in 0..MaxDimension}

Filters == [kind : {"filter"}, c : PlainConditions, d : PlainConditions]

\* Rankings without repeated documents.
Rankings ==
  {[i \in DOMAIN docs |-> [doc |-> docs[i], score |-> scores[i]]] :
     docs \in UNION {SetToSeqs(S) : S \in SUBSET FusedDocs},
     scores \in ScoreLists}

Fusions == [kind : {"fusion"}, dense : Rankings, sparse : Rankings,
            topK : 1..Cardinality(FusedDocs)]

\* Documents, metadata and configurations are appended to a page of their own.
Appends ==
  {[kind |-> "page", size |-> size,
    writes |-> [i \in DOMAIN lens |-> [len |-> lens[i], index |-> NoIndex]]] :
     size \in PageSizes, lens \in BoundedSeq(CellSizes, MaxAppends)}

\* save_to_page writes a cell of 16 bytes for the graph and one for each node,
\* with explicit indices, over those of the save before.
SaveOf(nodes, len) ==
  [i \in 1..nodes + 1 |-> [len |-> IF i = 1 THEN 16 ELSE len, index |-> i - 1]]
SomeSaves ==
  BoundedSeq({SaveOf(n, len) : n \in 0..MaxNodes, len \in NodeSizes}, MaxSaves)
Saves == [kind : {"page"}, size : PageSizes,
          writes : {FlattenSeq(saves) : saves \in SomeSaves}]

NoCall == [kind |-> "none"]

AlgorithmsInit == input = NoCall
Call(inputs) == input = NoCall /\ input' \in inputs
AlgorithmsNext ==
  \/ Call(VectorPairs) \/ Call(Filters) \/ Call(Fusions)
  \/ Call(Appends) \/ Call(Saves)

-----------------------------------------------------------------------------
(* Properties.                                                             *)

\* Every build gives two vectors the same score under every metric, whatever
\* is left over when their elements are put into registers.  The sums are
\* linear in either vector, so vectors with one element not 0 tell whether an
\* element is left out, taken twice, or paired with another.
BuildsAgree ==
  input.kind = "vectors" =>
    \A metric \in Metrics, build \in Builds :
      Compute(metric, build, input.a, input.b)
        = Compute(metric, "scalar", input.a, input.b)

\* The texts that join two conditions by AND or by OR are read, and hold of
\* metadata exactly when what is written does.
JoinedMean(c, d) ==
  LET and == Parse(Joined(<<c, d>>, "AND"))
      or == Parse(Joined(<<c, d, c>>, "OR"))
  IN /\ IsFilter(and) /\ IsFilter(or)
     /\ \A meta \in MetadataValues :
          /\ Evaluate(and, meta) <=> Says(c, meta) /\ Says(d, meta)
          /\ Evaluate(or, meta) <=> Says(c, meta) \/ Says(d, meta)

\* Two plain conditions joined by AND or OR mean what is written, in whichever
\* order the parser looks for the operators, as long as no string they quote has
\* a parenthesis without its partner.
PlainFiltersMean ==
  input.kind = "filter" /\ Balanced(input.c) /\ Balanced(input.d) =>
    JoinedMean(input.c, input.d)

\* "Find AND/OR at the top level (not inside quotes or parentheses).": a quoted
\* parenthesis is no parenthesis.  The code counts it (find_and_or).
QuotedFiltersMean == input.kind = "filter" => JoinedMean(input.c, input.d)

\* The place of a document in a ranking, behind all others when it is not
\* there.
Place(list, doc) ==
  IF doc \in DocsOf(list) THEN SelectInSeq(list, LAMBDA hit : hit.doc = doc)
  ELSE Cardinality(FusedDocs) + 1

\* d is ahead of e in one of the two rankings and behind it in neither.
Better(d, e) ==
  LET Ahead(list) == Place(list, d) < Place(list, e)
      Behind(list) == Place(list, d) > Place(list, e)
  IN /\ Ahead(input.dense) \/ Ahead(input.sparse)
     /\ ~Behind(input.dense) /\ ~Behind(input.sparse)

\* A fused ranking has as many documents as were asked for and there are, each
\* once, and no document in front of, or instead of, a better one.
Agrees(fused) ==
  LET docs == DocsOf(input.dense) \cup DocsOf(input.sparse)
      place == [d \in docs |-> SelectInSeq(fused, LAMBDA x : x = d)]
  IN /\ IsInjective(fused) /\ ToSet(fused) \subseteq docs
     /\ Len(fused) = IF input.topK < Cardinality(docs) THEN input.topK
                                                       ELSE Cardinality(docs)
     /\ \A d, e \in docs :
          Better(d, e) /\ place[e] # 0 => place[d] # 0 /\ place[d] < place[e]

\* Both strategies, with any weight that gives each ranking a share.
FusionAgrees ==
  input.kind = "fusion" =>
    /\ \A fused \in FuseRrf(input.dense, input.sparse, input.topK) :
         Agrees(fused)
    /\ \A alpha \in Tenths :
         \A fused \in FuseWeighted(input.dense, input.sparse, input.topK, alpha) :
           Agrees(fused)

\* The page after the writes, the cells numbered, and the result of each.
AfterWrites ==
  LET Next(r, k) ==
        LET w == input.writes[k]
            call == WriteCell(r.page, w.len, w.index, [cell |-> k])
        IN [page |-> call.page, results |-> Append(r.results, call.result)]
  IN FoldLeft(Next, [page |-> NewPage(input.size), results |-> <<>>],
              [k \in DOMAIN input.writes |-> k])

\* A page gives back, at each index, the whole cell that it accepted last for
\* it, whatever was written, refused or saved again in between; it counts the
\* cells that were appended, and refuses one only when it does not fit.  All of
\* this while no index is beyond the pointers; and no write panics while page
\* and cell are smaller than a u16 can say.
PagesKeepCells ==
  input.kind = "page" =>
    LET writes == input.writes
        page == AfterWrites.page
        results == AfterWrites.results
        Accepted(S) == {k \in S : results[k] = "written"}
        Bytes(S) == MapThenSumSet(LAMBDA k : writes[k].len, S)
        Index(k) == IF writes[k].index = NoIndex
                    THEN Cardinality(Accepted(1..k - 1)) ELSE writes[k].index
        Fits(k) == DataStart + Bytes(Accepted(1..k - 1) \cup {k}) <= input.size
        Counted(k) == writes[k].index = NoIndex
    IN (\A k \in DOMAIN writes : writes[k].index < MaxCells) =>
         /\ page.cells = Cardinality({k \in Accepted(DOMAIN writes) : Counted(k)})
         /\ \A k \in Accepted(DOMAIN writes) :
              LET last == Max({l \in Accepted(DOMAIN writes) : Index(l) = Index(k)})
              IN /\ ReadSlot(page, Index(k)) = [cell |-> last]
                 /\ Counted(k) => CellData(page, Index(k)) = [cell |-> k]
         /\ \A k \in DOMAIN writes :
              /\ results[k] = "written" => Fits(k)
              /\ writes[k].len < Width /\ input.size < Width =>
                   (results[k] = "written" <=> Fits(k) /\ Index(k) < MaxCells)
=============================================================================

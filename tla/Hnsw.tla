-------------------------------- MODULE Hnsw --------------------------------
(***************************************************************************)
(* The HNSW graph of crates/vexra-index/src/hnsw: insert, search, remove   *)
(* and soft_delete, and the save and load that a persistent collection     *)
(* does around them.  The collection's RwLock makes each call atomic.      *)
(*                                                                         *)
(* The metric is a constant: the graph only compares its values, and asks  *)
(* of it neither symmetry nor a triangle inequality.  Which of two equally *)
(* near nodes a heap gives first is not modelled: NoTies keeps such        *)
(* vectors out.  random_level may return anything up to one above the      *)
(* highest layer, and the HashMap gives its keys in any order.             *)
(***************************************************************************)
EXTENDS Integers, FiniteSets, SequencesExt

CONSTANTS
  Ids,            \* internal ids
  Points,         \* the vectors of the nodes
  Queries,        \* the vectors that the properties search for
  Distance(_, _), \* DistanceMetric::compute
  M,              \* HnswConfig.m, the longest list above layer 0
  MMax,           \* HnswConfig.m_max, the longest list on layer 0
  EfConstruction, \* HnswConfig.ef_construction
  EfSearch,       \* HnswConfig.ef_search
  Ks,             \* the k of the searches that the properties look at
  MaxLevel,       \* bound: the highest level of a node
  MaxRemovals,    \* bound: removals in a process
  MaxTombstones,  \* bound: tombstones in the graph
  None            \* no entry point

ASSUME HnswConstants ==
  /\ {M, MMax, EfConstruction, EfSearch} \subseteq Nat \ {0}
  /\ {MaxLevel, MaxRemovals} \subseteq Nat
  /\ \A q \in Queries \cup Points, v \in Points : Distance(q, v) \in Int
  /\ Ks \subseteq Nat \ {0}
  /\ None \notin Ids

\* No two vectors are equally far from a third.
ASSUME NoTies ==
  \A q \in Queries \cup Points, v, w \in Points :
    Distance(q, v) = Distance(q, w) => v = w

VARIABLES
  nodes,      \* HnswGraph.nodes: id -> node, for the ids in the graph
  entry,      \* entry_point
  top,        \* max_layer
  page,       \* the edge page, cell 0: what save_to_page wrote last
  refused,    \* history: a neighbor did not take the link back
  removals    \* history: the number of nodes removed

vars == <<nodes, entry, top, page, refused, removals>>

\* A level's list of neighbors is in the order they were added.
Node(v, level) ==
  [vec |-> v, level |-> level, tombstone |-> FALSE,
   links |-> [l \in 0..level |-> <<>>]]

\* A list has no id twice, and not more than there is place for.
NodeOK(n) ==
  /\ n.vec \in Points /\ n.level \in 0..MaxLevel /\ n.tombstone \in BOOLEAN
  /\ DOMAIN n.links = 0..n.level
  /\ \A l \in 0..n.level :
       /\ n.links[l] \in Seq(Ids) /\ IsInjective(n.links[l])
       /\ Len(n.links[l]) <= IF l = 0 THEN MMax ELSE M

TypeOK ==
  /\ DOMAIN nodes \subseteq Ids
  /\ \A x \in DOMAIN nodes : NodeOK(nodes[x])
  /\ entry \in Ids \cup {None}
  /\ top \in 0..MaxLevel
  /\ page \in [entry : Ids \cup {None}, top : 0..MaxLevel]
  /\ refused \in BOOLEAN /\ removals \in 0..MaxRemovals

-----------------------------------------------------------------------------
(* Lists of neighbors.                                                     *)

\* HashMap::insert.
With(f, x, y) == [z \in DOMAIN f \cup {x} |-> IF z = x THEN y ELSE f[z]]

Links(g, x, l) == IF l \in DOMAIN g[x].links THEN g[x].links[l] ELSE <<>>

MaxConnections(l) == IF l = 0 THEN MMax ELSE M

AddTwice(node, l, x) ==
  IF l \in DOMAIN node.links /\ Len(node.links[l]) < MaxConnections(l)
  THEN [node EXCEPT !.links[l] = Append(@, x)]
  ELSE node
WithLink(node, l, x) ==
  IF /\ l \in DOMAIN node.links
     /\ ~Contains(node.links[l], x)
     /\ Len(node.links[l]) < MaxConnections(l)
  THEN [node EXCEPT !.links[l] = Append(@, x)]
  ELSE node

-----------------------------------------------------------------------------
(* Search within a layer.  A heap is the sequence of its ids, nearest      *)
(* first.  The visited map only stores distances: a neighbor in it is      *)
(* pushed again like any other.  What it decides is that the node at which *)
(* the search starts is taken although it may be a tombstone.              *)

\* The sequence s, nearest first, with one more id.
Pushed(g, q, s, x) ==
  LET nearer == {i \in DOMAIN s :
                   Distance(q, g[s[i]].vec) <= Distance(q, g[x].vec)}
  IN InsertAt(s, Cardinality(nearer) + 1, x)

TombstonesToo(g, start, x) == x \in DOMAIN g
Usable(g, start, x) ==
  x \in DOMAIN g /\ (x = start \/ ~g[x].tombstone)

FartherAdded(g, q, results, x, ef) ==
  Len(results) < ef \/ Distance(q, g[x].vec) > Distance(q, g[Last(results)].vec)
\* Whether neighbor x goes into the heaps: anything does until there are ef.
ShouldAdd(g, q, results, x, ef) ==
  \/ Len(results) < ef
  \/ Distance(q, g[x].vec) < Distance(q, g[Last(results)].vec)

\* One step of the search: the nearest candidate's neighbors, unless it is done.
Finished(g, q, heaps, ef) ==
  \/ heaps.candidates = <<>>
  \/ /\ Len(heaps.results) >= ef
     /\ Distance(q, g[Head(heaps.candidates)].vec)
          > Distance(q, g[Last(heaps.results)].vec)

\* What it does with a neighbor x, and with all of them.
Visit(g, q, start, ef, heaps, x) ==
  IF Usable(g, start, x) /\ ShouldAdd(g, q, heaps.results, x, ef)
  THEN LET results == Pushed(g, q, heaps.results, x)
       IN [candidates |-> Pushed(g, q, heaps.candidates, x),
           results |-> IF Len(results) > ef THEN Front(results) ELSE results]
  ELSE heaps

Explored(g, q, start, ef, l, heaps) ==
  FoldLeft(LAMBDA h, x : Visit(g, q, start, ef, h, x),
           [heaps EXCEPT !.candidates = Tail(@)],
           Links(g, Head(heaps.candidates), l))

\* Each step takes a candidate.  ef of them fill the results, start among them;
\* each further one puts a nearer node in the place of the last result, which ef
\* results can do for as often as there are nearer nodes.  After so many steps the
\* search is finished.
StepsAtMost(g, ef) == ef * Cardinality(DOMAIN g)

SearchLayer(g, q, start, ef, l) ==
  LET after[i \in 0..StepsAtMost(g, ef)] ==
        IF i = 0 THEN [candidates |-> <<start>>, results |-> <<start>>]
        ELSE LET heaps == after[i - 1]
             IN IF Finished(g, q, heaps, ef) THEN heaps
                ELSE Explored(g, q, start, ef, l, heaps)
  IN after[StepsAtMost(g, ef)].results

\* The layers from..to, downwards.
EndLeftOut(from, to) == [i \in 1..(from - to) |-> from + 1 - i]
Downwards(from, to) == [i \in 1..(from - to + 1) |-> from + 1 - i]

\* The greedy descent: the nearest node found on each layer, top first.
Descend(g, q, start, from, to) ==
  FoldLeft(LAMBDA x, l : Head(SearchLayer(g, q, x, 1, l)),
           start, Downwards(from, to))

Search(q, k) ==
  IF entry = None THEN <<>>
  ELSE LET ef == IF EfSearch > k THEN EfSearch ELSE k
           found == SearchLayer(nodes, q, Descend(nodes, q, entry, top, 1),
                                ef, 0)
       IN SubSeq(found, 1, IF k < Len(found) THEN k ELSE Len(found))

-----------------------------------------------------------------------------
(* insert.                                                                 *)

\* Of more candidates than there is place for, nearest first, those that no
\* chosen node is nearer to than the vector is.
SelectNeighbors(g, q, candidates, max) ==
  LET Diverse(chosen, x) ==
        \A i \in DOMAIN chosen :
          Distance(g[x].vec, g[chosen[i]].vec) >= Distance(q, g[x].vec)
      Choose(chosen, x) ==
        IF Len(chosen) < max /\ Diverse(chosen, x) THEN Append(chosen, x)
                                                   ELSE chosen
  IN IF Len(candidates) <= max THEN candidates
                               ELSE FoldLeft(Choose, <<>>, candidates)

\* The graph g and the node of the new id, linked both ways with x.
Connect(j, id, l, x) ==
  [g |-> [j.g EXCEPT ![x] = WithLink(@, l, id)],
   node |-> WithLink(j.node, l, x), curr |-> j.curr]

\* One layer of phase 2.  j holds the graph, the new node, and the node at
\* which the next layer's search starts.
JoinLayer(j, id, l) ==
  LET candidates == SearchLayer(j.g, j.node.vec, j.curr, EfConstruction, l)
      chosen == SelectNeighbors(j.g, j.node.vec, candidates,
                                MaxConnections(l))
  IN [FoldLeft(LAMBDA k, x : Connect(k, id, l, x), j, chosen)
        EXCEPT !.curr = Head(candidates)]

\* The graph s with a node of the given level added.
Joined(s, id, v, level) ==
  LET low == IF level < s.top THEN level ELSE s.top
      start == Descend(s.nodes, v, s.entry, s.top, level + 1)
  IN FoldLeft(LAMBDA j, l : JoinLayer(j, id, l),
              [g |-> s.nodes, node |-> Node(v, level), curr |-> start],
              Downwards(low, 0))

OneWay(j, id) ==
  \E l \in DOMAIN j.node.links :
    \E x \in ToSet(j.node.links[l]) : ~Contains(Links(j.g, x, l), id)

Levels(g) == {g[x].level : x \in DOMAIN g}

\* remove_neighbor.
Dropped(list, id) ==
  FoldLeft(LAMBDA kept, x : IF x = id THEN kept ELSE Append(kept, x), <<>>, list)
\* remove: the node's own neighbors drop their links to it, and any node may
\* become the entry point in its place.
WithoutLowerLink(g, y, l, id) ==
  IF l < g[id].level /\ Contains(Links(g, id, l), y)
  THEN Dropped(g[y].links[l], id)
  ELSE g[y].links[l]
WithoutLink(g, y, l, id) ==
  IF Contains(Links(g, id, l), y)
  THEN Dropped(g[y].links[l], id)
  ELSE g[y].links[l]

Unlinked(g, id) ==
  [y \in DOMAIN g \ {id} |->
     [g[y] EXCEPT !.links =
        [l \in DOMAIN @ |-> WithoutLink(g, y, l, id)]]]

NewTop(g, e) == CHOOSE n \in Levels(g) : \A k \in Levels(g) : k <= n

Without(id) ==
  LET g == Unlinked(nodes, id)
  IN IF entry # id THEN {[nodes |-> g, entry |-> entry, top |-> top]}
     ELSE IF DOMAIN g = {} THEN {[nodes |-> g, entry |-> None, top |-> 0]}
     ELSE {[nodes |-> g, entry |-> e, top |-> NewTop(g, e)] : e \in DOMAIN g}

\* insert of an id that is there removes it first.
Cleared(id) ==
  IF id \in DOMAIN nodes THEN Without(id)
  ELSE {[nodes |-> nodes, entry |-> entry, top |-> top]}

\* Collection.insert saves the graph after each insert; cell 0 holds the
\* entry point and the highest layer.
Save == page' = [entry |-> entry', top |-> top']

InsertFirst(id, v, level) ==
  \E s \in Cleared(id) :
    /\ s.entry = None
    /\ level <= s.top + 1
    /\ nodes' = With(s.nodes, id, Node(v, level))
    /\ entry' = id
    /\ top' = level
    /\ UNCHANGED refused

InsertNext(id, v, level) ==
  \E s \in Cleared(id) :
    /\ s.entry # None
    /\ level <= s.top + 1
    /\ LET j == Joined(s, id, v, level)
       IN /\ nodes' = With(j.g, id, j.node)
          /\ entry' = IF level > s.top THEN id ELSE s.entry
          /\ top' = IF level > s.top THEN level ELSE s.top
          /\ refused' = (refused \/ OneWay(j, id))

\* Two nodes with one vector would tie: v is not the vector of another node.
Insert(id, v, level) ==
  /\ \A x \in DOMAIN nodes \ {id} : nodes[x].vec # v
  /\ id \in DOMAIN nodes => removals < MaxRemovals
  /\ InsertFirst(id, v, level) \/ InsertNext(id, v, level)
  /\ Save
  /\ removals' = IF id \in DOMAIN nodes THEN removals + 1 ELSE removals

RemoveNode(id) ==
  /\ id \in DOMAIN nodes /\ removals < MaxRemovals
  /\ \E s \in Without(id) :
       nodes' = s.nodes /\ entry' = s.entry /\ top' = s.top
  /\ removals' = removals + 1
  /\ UNCHANGED <<page, refused>>

Tombstones == {x \in DOMAIN nodes : nodes[x].tombstone}

SoftDelete(id) ==
  /\ id \in DOMAIN nodes
  /\ Cardinality(Tombstones \cup {id}) <= MaxTombstones
  /\ nodes' = [nodes EXCEPT ![id].tombstone = TRUE]
  /\ UNCHANGED <<entry, top, page, refused, removals>>

\* The cells that write_cell has counted: it counts those it places itself,
\* and save_to_page names the place of each.
CellsPlaced == 1 + Cardinality(DOMAIN nodes)
CellsCounted == 0

\* new_persistent puts what load_from_page returns in the place of the graph
\* it has filled: a graph without nodes, so that no edge cell finds its node.
Reload ==
  /\ nodes' = <<>>
  /\ entry' = IF CellsCounted > 0 THEN page.entry ELSE None
  /\ top' = IF CellsCounted > 0 THEN page.top ELSE 0
  /\ refused' = FALSE /\ removals' = 0
  /\ UNCHANGED page

Init ==
  /\ nodes = <<>> /\ entry = None /\ top = 0
  /\ page = [entry |-> None, top |-> 0]
  /\ refused = FALSE /\ removals = 0

Next ==
  \/ \E id \in Ids, v \in Points, level \in 0..MaxLevel : Insert(id, v, level)
  \/ \E id \in Ids : RemoveNode(id) \/ SoftDelete(id)
  \/ Reload

Spec == Init /\ [][Next]_vars

-----------------------------------------------------------------------------
(* Properties.                                                             *)

\* A graph with nodes has an entry point, it is one of them, and none is on a
\* layer above max_layer: insert and search look the entry point up, fail when
\* it is missing, and descend from max_layer, so that a node above it would not
\* be used there again.  Every remove and every reload has to leave it so.
EntryIsLive ==
  /\ entry = None <=> DOMAIN nodes = {}
  /\ entry # None => entry \in DOMAIN nodes
  /\ \A x \in DOMAIN nodes : nodes[x].level <= top

\* As long as every neighbor took the link back, links are mutual and end at
\* nodes that exist, whatever was removed and inserted again: remove finds
\* all links to a node from the node's own.
LinksAreMutual ==
  ~refused =>
    \A x \in DOMAIN nodes : \A l \in DOMAIN nodes[x].links :
      \A y \in ToSet(nodes[x].links[l]) :
        y \in DOMAIN nodes /\ Contains(Links(nodes, y, l), x)

\* On layer 0 the links lead from the entry point to every node.
Reachable ==
  \A S \in SUBSET DOMAIN nodes :
    /\ entry \in S
    /\ \A x \in S : ToSet(Links(nodes, x, 0)) \cap DOMAIN nodes \subseteq S
    => S = DOMAIN nodes

\* Inserts alone never cut a node off: one that is not reachable from the
\* entry point could not be found by any query.
InsertsConnect == ~refused /\ removals = 0 => Reachable

\* Every search of a graph with nodes has an answer, nearest first, of nodes
\* that exist; of the tombstones, only the entry point can be in it.
AnswersAreLive ==
  \A q \in Queries, k \in Ks :
    LET found == Search(q, k)
        far == [i \in DOMAIN found |-> Distance(q, nodes[found[i]].vec)]
    IN /\ found = <<>> <=> DOMAIN nodes = {}
       /\ ToSet(found) \cap Tombstones \subseteq {entry}
       /\ \A i, j \in DOMAIN found : i < j => far[i] <= far[j]

\* A search does not stop short of a node that it has seen: every neighbor of an
\* answer is an answer, too, or a tombstone, or not nearer than the k answers.
\* This is all that the graph promises: the nearest node can be missed even when
\* links are mutual and reach it, as nodes farther away may lead to it, and
\* copies of near ones keep those out of the heaps.
AnswersAreClosed ==
  \A q \in Queries, k \in Ks :
    LET found == Search(q, k)
        Seen == UNION {ToSet(Links(nodes, x, 0)) : x \in ToSet(found)}
    IN \A y \in (Seen \cap DOMAIN nodes) \ (Tombstones \cup ToSet(found)) :
         /\ Len(found) = k
         /\ Distance(q, nodes[y].vec) >= Distance(q, nodes[Last(found)].vec)

\* The documentation of search and search_layer: the k nearest neighbors.  A
\* node is one neighbor, so it is among them once.
AnswersDistinct == \A q \in Queries, k \in Ks : IsInjective(Search(q, k))
=============================================================================

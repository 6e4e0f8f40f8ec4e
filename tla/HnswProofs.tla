----------------------------- MODULE HnswProofs -----------------------------
(***************************************************************************)
(* Theorems about the HNSW graph, for every set of ids and vectors and     *)
(* every configuration.                                                    *)
(***************************************************************************)
EXTENDS Hnsw, FoldLemmas, FiniteSetTheorems, WellFoundedInduction, TLAPS

-----------------------------------------------------------------------------
(* Lists of neighbors.                                                     *)

\* remove_neighbor goes through the list.
LEMMA DroppedGoes ==
  ASSUME NEW list \in Seq(Ids), NEW id
  PROVE  \E f :
           /\ f[{}] = <<>> /\ Dropped(list, id) = f[1..Len(list)]
           /\ \A i \in 1..Len(list) :
                Upto(f, i) = IF list[i] = id THEN Upto(f, i - 1)
                                             ELSE Append(Upto(f, i - 1), list[i])
<1>. DEFINE n == Len(list)
            V == Seq(Ids)
            Op(r, x) == IF x = id THEN r ELSE Append(r, x)
            G == [p \in (1..n) \X V |-> Op(p[2], list[p[1]])]
            Lit(h) == h = [S \in SUBSET DOMAIN list |->
                             IF S = {} THEN <<>> ELSE Op(h[S \ {Max(S)}], list[Max(S)])]
<1>1. n \in Nat /\ DOMAIN list = 1..n /\ \A i \in 1..n : list[i] \in Ids
  OBVIOUS
<1>2. ASSUME NEW i \in 1..n, NEW x \in V
      PROVE  G[<<i, x>>] = Op(x, list[i]) /\ G[<<i, x>>] \in V
  <2>1. G[<<i, x>>] = Op(x, list[i])
    OBVIOUS
  <2>2. Op(x, list[i]) \in V
    BY <1>1
  <2>. QED
    BY <2>1, <2>2
<1>3. PICK h : Follows(h, n, V, <<>>, G)
  <2>1. <<>> \in V
    OBVIOUS
  <2>. HIDE DEF V, G, n
  <2>. QED
    BY <1>1, <1>2, <2>1, FoldExists
<1>4. Lit(h)
  <2>1. ASSUME NEW S \in SUBSET (1..n)
        PROVE  h[S] = IF S = {} THEN <<>> ELSE Op(h[S \ {Max(S)}], list[Max(S)])
    <3>. HIDE DEF V, G, n, Op
    <3>. QED
      BY <1>2, <1>3 DEF Follows
  <2>2. h = [S \in SUBSET (1..n) |-> h[S]]
    BY <1>3 DEF Follows
  <2>. HIDE DEF Op, n
  <2>. QED
    BY <1>1, <2>1, <2>2
<1>5. PICK f : f = CHOOSE g : Lit(g)
  OBVIOUS
<1>6. Lit(f)
  <2>. HIDE DEF Lit
  <2>. QED
    BY <1>4, <1>5
<1>7. Dropped(list, id) = f[1..n]
  <2>1. Dropped(list, id) = f[DOMAIN list]
    BY <1>5 DEF Dropped, FoldLeft, MapThenFoldSet
  <2>. QED
    BY <1>1, <2>1
<1>8. f[{}] = <<>>
  <2>. HIDE DEF Op
  <2>. QED
    BY <1>6
<1>9. ASSUME NEW i \in 1..n PROVE Upto(f, i) = Op(Upto(f, i - 1), list[i])
  <2>1. PICK S : S = 1..i
    OBVIOUS
  <2>2. S \in SUBSET DOMAIN list /\ S # {} /\ Max(S) = i /\ S \ {i} = 1..(i - 1)
    BY <1>1, <2>1, UptoNext
  <2>3. f[S] = Op(f[S \ {Max(S)}], list[Max(S)])
    <3>. HIDE DEF Op
    <3>. QED
      BY <1>6, <2>2
  <2>. HIDE DEF Op
  <2>. QED
    BY <2>1, <2>2, <2>3 DEF Upto
<1>. QED
  BY <1>7, <1>8, <1>9

LEMMA DroppedIs ==
  ASSUME NEW list \in Seq(Ids), NEW id, NEW r, r = Dropped(list, id)
  PROVE  /\ r \in Seq(Ids) /\ Len(r) <= Len(list)
         /\ ToSet(r) = ToSet(list) \ {id}
         /\ IsInjective(list) => IsInjective(r)
<1>1. PICK f :
        /\ f[{}] = <<>> /\ Dropped(list, id) = f[1..Len(list)]
        /\ \A i \in 1..Len(list) :
             Upto(f, i) = IF list[i] = id THEN Upto(f, i - 1)
                                          ELSE Append(Upto(f, i - 1), list[i])
  BY DroppedGoes
<1>. DEFINE n == Len(list)
            First(i) == {list[j] : j \in 1..i} \ {id}
            T == [i \in 0..n |-> {s \in Seq(Ids) :
                    /\ Len(s) <= i /\ ToSet(s) = First(i)
                    /\ IsInjective(list) => IsInjective(s)}]
<1>2. n \in Nat /\ DOMAIN list = 1..n /\ \A i \in 1..n : list[i] \in Ids
  OBVIOUS
<1>3. f[{}] \in T[0]
  <2>1. First(0) = {} /\ ToSet(<<>>) = {} /\ IsInjective(<<>>)
    BY DEF ToSet, IsInjective
  <2>. QED
    BY <1>1, <1>2, <2>1
<1>4. ASSUME NEW i \in 1..n, Upto(f, i - 1) \in T[i - 1] PROVE Upto(f, i) \in T[i]
  <2>1. PICK s : s = Upto(f, i - 1)
    OBVIOUS
  <2>2. /\ s \in Seq(Ids) /\ Len(s) <= i - 1 /\ ToSet(s) = First(i - 1)
        /\ IsInjective(list) => IsInjective(s)
    <3>1. i - 1 \in 0..n
      BY <1>2
    <3>. HIDE DEF First
    <3>. QED
      BY <1>4, <2>1, <3>1
  <2>3. Upto(f, i) = IF list[i] = id THEN s ELSE Append(s, list[i])
    BY <1>1, <2>1
  <2>4. First(i) = First(i - 1) \cup ({list[i]} \ {id})
    <3>1. 1..i = (1..(i - 1)) \cup {i}
      BY <1>2
    <3>2. \A j : j \in 1..i <=> j \in 1..(i - 1) \/ j = i
      BY <3>1
    <3>3. \A x : x \in First(i) <=> x \in First(i - 1) \cup ({list[i]} \ {id})
      BY <3>2
    <3>. QED
      BY <3>3
  <2>5. i \in 0..n /\ i \in Int
    BY <1>2
  <2>6. CASE list[i] = id
    <3>1. Upto(f, i) = s /\ First(i) = First(i - 1) /\ Len(s) <= i
      <4>1. Upto(f, i) = s /\ First(i) = First(i - 1)
        BY <2>3, <2>4, <2>6
      <4>2. Len(s) \in Nat
        BY <2>2
      <4>3. Len(s) <= i
        <5>. HIDE DEF First, T, n
        <5>. QED
          BY <2>2, <2>5, <4>2
      <4>. QED
        BY <4>1, <4>3
    <3>. HIDE DEF First
    <3>. QED
      BY <2>2, <2>5, <3>1
  <2>7. CASE list[i] # id
    <3>1. PICK r1 : r1 = Append(s, list[i])
      OBVIOUS
    <3>2. /\ r1 \in Seq(Ids) /\ Len(r1) = Len(s) + 1 /\ Len(s) \in Nat
          /\ r1[Len(r1)] = list[i] /\ \A j \in 1..Len(s) : r1[j] = s[j]
      BY <1>2, <2>2, <3>1
    <3>3. ToSet(r1) = ToSet(s) \cup {list[i]}
      <4>1. DOMAIN r1 = (1..Len(s)) \cup {Len(r1)} /\ DOMAIN s = 1..Len(s)
        BY <2>2, <3>2
      <4>. QED
        BY <3>2, <4>1 DEF ToSet
    <3>4. ASSUME IsInjective(list) PROVE IsInjective(r1)
      <4>1. list[i] \notin ToSet(s)
        <5>1. \A j \in 1..(i - 1) : j \in DOMAIN list /\ i \in DOMAIN list /\ j # i
          BY <1>2
        <5>2. \A j \in 1..(i - 1) : list[j] # list[i]
          BY <3>4, <5>1 DEF IsInjective
        <5>. QED
          BY <2>2, <5>2
      <4>2. \A j \in 1..Len(s) : s[j] # list[i]
        BY <2>2, <4>1 DEF ToSet
      <4>3. IsInjective(s)
        BY <2>2, <3>4
      <4>. QED
        BY <2>2, <3>2, <4>2, <4>3 DEF IsInjective
    <3>5. Upto(f, i) = r1 /\ First(i) = First(i - 1) \cup {list[i]} /\ Len(r1) <= i
      <4>1. Upto(f, i) = r1 /\ First(i) = First(i - 1) \cup {list[i]}
        <5>. HIDE DEF First
        <5>. QED
          BY <2>3, <2>4, <2>7, <3>1
      <4>2. Len(r1) <= i
        <5>. HIDE DEF First, T, n
        <5>. QED
          BY <2>2, <2>5, <3>2
      <4>. QED
        BY <4>1, <4>2
    <3>. HIDE DEF First
    <3>. QED
      BY <2>2, <2>5, <3>2, <3>3, <3>4, <3>5
  <2>. QED
    BY <2>6, <2>7
<1>5. f[1..n] \in T[n]
  <2>. HIDE DEF T, n
  <2>. QED
    BY <1>2, <1>3, <1>4, FoldEnds
<1>6. n \in 0..n /\ First(n) = ToSet(list) \ {id}
  BY <1>2 DEF ToSet
<1>7. r \in T[n]
  BY <1>1, <1>5
<1>. HIDE DEF First
<1>. QED
  BY <1>6, <1>7


-----------------------------------------------------------------------------
(* Nodes.                                                                  *)

Layers == 0..MaxLevel
NodeRecords ==
  [vec : Points, level : Layers, tombstone : BOOLEAN,
   links : UNION {[0..k -> Seq(Ids)] : k \in Layers}]
Nodes == {n \in NodeRecords : NodeOK(n)}

Linked(n, l) == IF l \in DOMAIN n.links THEN ToSet(n.links[l]) ELSE {}

LEMMA NodeIs ==
  ASSUME NEW n \in Nodes
  PROVE  /\ n.vec \in Points /\ n.level \in Layers /\ n.tombstone \in BOOLEAN
         /\ n.links \in [0..n.level -> Seq(Ids)]
         /\ \A l \in 0..n.level :
              IsInjective(n.links[l]) /\ Len(n.links[l]) <= MaxConnections(l)
  BY DEF Nodes, NodeRecords, NodeOK, Layers, MaxConnections

LEMMA NodeFrom ==
  ASSUME NEW v \in Points, NEW k \in Layers, NEW b \in BOOLEAN,
         NEW ls \in [0..k -> Seq(Ids)],
         \A l \in 0..k : IsInjective(ls[l]) /\ Len(ls[l]) <= MaxConnections(l)
  PROVE  [vec |-> v, level |-> k, tombstone |-> b, links |-> ls] \in Nodes
<1>. DEFINE n == [vec |-> v, level |-> k, tombstone |-> b, links |-> ls]
<1>1. n \in NodeRecords
  BY DEF NodeRecords
<1>2. NodeOK(n)
  BY DEF NodeOK, Layers, MaxConnections
<1>. QED
  BY <1>1, <1>2 DEF Nodes

ListsOK(ls, k) ==
  /\ ls \in [0..k -> Seq(Ids)]
  /\ \A l \in 0..k : IsInjective(ls[l]) /\ Len(ls[l]) <= MaxConnections(l)

LEMMA NodeWithLinks ==
  ASSUME NEW n \in Nodes, NEW ls, ListsOK(ls, n.level), NEW r, r = [n EXCEPT !.links = ls]
  PROVE  /\ r \in Nodes /\ r.links = ls
         /\ r.vec = n.vec /\ r.level = n.level /\ r.tombstone = n.tombstone
<1>1. n \in NodeRecords
  BY DEF Nodes
<1>2. r = [vec |-> n.vec, level |-> n.level, tombstone |-> n.tombstone, links |-> ls]
  BY <1>1 DEF NodeRecords
<1>3. n.vec \in Points /\ n.level \in Layers /\ n.tombstone \in BOOLEAN
  BY NodeIs
<1>4. r \in Nodes
  <2>1. [vec |-> n.vec, level |-> n.level, tombstone |-> n.tombstone, links |-> ls] \in Nodes
    BY <1>3, NodeFrom DEF ListsOK
  <2>. QED
    BY <1>2, <2>1
<1>. QED
  BY <1>2, <1>4

LEMMA AppendIs ==
  ASSUME NEW s \in Seq(Ids), NEW x \in Ids, NEW r, r = Append(s, x)
  PROVE  /\ r \in Seq(Ids) /\ Len(r) = Len(s) + 1 /\ Len(s) \in Nat
         /\ ToSet(r) = ToSet(s) \cup {x}
         /\ IsInjective(s) /\ x \notin ToSet(s) => IsInjective(r)
<1>1. /\ r \in Seq(Ids) /\ Len(r) = Len(s) + 1 /\ Len(s) \in Nat
      /\ r[Len(r)] = x /\ \A j \in 1..Len(s) : r[j] = s[j]
  OBVIOUS
<1>2. DOMAIN r = (1..Len(s)) \cup {Len(r)} /\ DOMAIN s = 1..Len(s)
  BY <1>1
<1>3. ToSet(r) = ToSet(s) \cup {x}
  BY <1>1, <1>2 DEF ToSet
<1>4. IsInjective(s) /\ x \notin ToSet(s) => IsInjective(r)
  BY <1>1, <1>2 DEF ToSet, IsInjective
<1>. QED
  BY <1>1, <1>3, <1>4

LEMMA ContainsIs ==
  ASSUME NEW s \in Seq(Ids), NEW x
  PROVE  Contains(s, x) <=> x \in ToSet(s)
<1>1. DOMAIN s = 1..Len(s)
  OBVIOUS
<1>. QED
  BY <1>1 DEF Contains, ToSet

\* add_neighbor adds a link to one list, if there is place.
LEMMA WithLinkIs ==
  ASSUME NEW n \in Nodes, NEW l \in Layers, NEW x \in Ids, NEW r, r = WithLink(n, l, x)
  PROVE  /\ r \in Nodes
         /\ r.vec = n.vec /\ r.level = n.level /\ r.tombstone = n.tombstone
         /\ \A m \in 0..n.level : m # l => r.links[m] = n.links[m]
         /\ \A m \in Layers :
              /\ Linked(n, m) \subseteq Linked(r, m)
              /\ Linked(r, m) \subseteq Linked(n, m) \cup {x}
              /\ m # l => Linked(r, m) = Linked(n, m)
         /\ l \in 0..n.level /\ Len(n.links[l]) < MaxConnections(l) =>
              x \in Linked(r, l) /\ Len(r.links[l]) <= Len(n.links[l]) + 1
<1>1. /\ n.level \in Layers /\ n.links \in [0..n.level -> Seq(Ids)]
      /\ DOMAIN n.links = 0..n.level
      /\ \A k \in 0..n.level :
           IsInjective(n.links[k]) /\ Len(n.links[k]) <= MaxConnections(k)
  BY NodeIs
<1>. DEFINE Takes == /\ l \in 0..n.level /\ ~Contains(n.links[l], x)
                     /\ Len(n.links[l]) < MaxConnections(l)
<1>2. CASE ~Takes
  <2>1. r = n
    BY <1>1, <1>2 DEF WithLink
  <2>2. l \in 0..n.level /\ Len(n.links[l]) < MaxConnections(l) =>
          x \in Linked(n, l) /\ Len(n.links[l]) \in Nat
    <3>1. l \in 0..n.level => (Contains(n.links[l], x) <=> x \in ToSet(n.links[l]))
      BY <1>1, ContainsIs
    <3>. QED
      BY <1>1, <1>2, <3>1 DEF Linked
  <2>3. l \in 0..n.level /\ Len(n.links[l]) < MaxConnections(l) =>
          Len(n.links[l]) <= Len(n.links[l]) + 1
    BY <2>2
  <2>. QED
    BY <2>1, <2>2, <2>3
<1>3. CASE Takes
  <2>1. PICK s, t, ls : /\ s = n.links[l] /\ t = Append(s, x)
                        /\ ls = [n.links EXCEPT ![l] = t]
    OBVIOUS
  <2>2. r = [n EXCEPT !.links = ls]
    <3>1. r = [n EXCEPT !.links[l] = Append(@, x)]
      BY <1>1, <1>3 DEF WithLink
    <3>2. "links" \in DOMAIN n
      BY DEF Nodes, NodeRecords
    <3>. QED
      BY <2>1, <3>1, <3>2
  <2>3. s \in Seq(Ids) /\ x \notin ToSet(s) /\ IsInjective(s) /\ Len(s) < MaxConnections(l)
    BY <1>1, <1>3, <2>1, ContainsIs
  <2>4. /\ t \in Seq(Ids) /\ Len(t) = Len(s) + 1 /\ Len(s) \in Nat
        /\ ToSet(t) = ToSet(s) \cup {x} /\ IsInjective(t)
    BY <2>1, <2>3, AppendIs
  <2>5. Len(t) <= MaxConnections(l)
    <3>1. MaxConnections(l) \in Nat
      BY HnswConstants DEF MaxConnections
    <3>. QED
      BY <2>3, <2>4, <3>1
  <2>6. /\ ls \in [0..n.level -> Seq(Ids)] /\ ls[l] = t
        /\ \A m \in 0..n.level : m # l => ls[m] = n.links[m]
    BY <1>1, <1>3, <2>1, <2>4
  <2>7. \A m \in 0..n.level : IsInjective(ls[m]) /\ Len(ls[m]) <= MaxConnections(m)
    BY <1>1, <2>4, <2>5, <2>6
  <2>8. /\ r \in Nodes /\ r.links = ls
        /\ r.vec = n.vec /\ r.level = n.level /\ r.tombstone = n.tombstone
    <3>1. ListsOK(ls, n.level)
      BY <2>6, <2>7 DEF ListsOK
    <3>. QED
      BY <2>2, <3>1, NodeWithLinks
  <2>9. DOMAIN r.links = 0..n.level
    BY <2>6, <2>8
  <2>10. ASSUME NEW m \in Layers
         PROVE  /\ m # l => Linked(r, m) = Linked(n, m)
                /\ m = l => Linked(r, m) = Linked(n, m) \cup {x}
    BY <1>1, <1>3, <2>1, <2>4, <2>6, <2>8, <2>9 DEF Linked
  <2>11. x \in Linked(r, l) /\ Len(r.links[l]) <= Len(n.links[l]) + 1
    BY <2>1, <2>4, <2>6, <2>8, <2>10
  <2>. QED
    BY <2>6, <2>8, <2>10, <2>11
<1>. QED
  BY <1>2, <1>3


-----------------------------------------------------------------------------
(* Heaps.                                                                  *)

Graph(g) ==
  g \in [DOMAIN g -> Nodes] /\ DOMAIN g \subseteq Ids /\ IsFiniteSet(DOMAIN g)

\* The distances of the nodes from a query.
Far(g, q) == [x \in DOMAIN g |-> Distance(q, g[x].vec)]

Sorted(d, s) == \A i, j \in DOMAIN s : i < j => d[s[i]] <= d[s[j]]

LEMMA FarIs ==
  ASSUME NEW g, Graph(g), NEW q \in Queries \cup Points
  PROVE  /\ Far(g, q) \in [DOMAIN g -> Int]
         /\ \A x \in DOMAIN g : Far(g, q)[x] = Distance(q, g[x].vec)
<1>1. ASSUME NEW x \in DOMAIN g PROVE Distance(q, g[x].vec) \in Int
  <2>1. g[x].vec \in Points
    BY NodeIs DEF Graph
  <2>. QED
    BY <2>1, HnswConstants
<1>. QED
  BY <1>1 DEF Far

\* A set of positions without gaps is as long as it has elements.
LEMMA NoGaps ==
  ASSUME NEW n \in Nat, NEW S \in SUBSET (1..n),
         \A j \in S : \A i \in 1..j : i \in S
  PROVE  S = 1..Cardinality(S)
<1>1. CASE S = {}
  <2>1. Cardinality(S) = 0
    BY <1>1, FS_EmptySet
  <2>. QED
    BY <1>1, <2>1
<1>2. CASE S # {}
  <2>1. PICK m : m = Max(S)
    OBVIOUS
  <2>2. m \in S /\ \A y \in S : y <= m
    BY <1>2, <2>1, GreatestNumber
  <2>3. S = 1..m
    <3>1. \A y : y \in S => y \in 1..m
      BY <2>2
    <3>2. \A y : y \in 1..m => y \in S
      BY <2>2
    <3>. QED
      BY <3>1, <3>2
  <2>4. m \in Nat /\ 1 \in Int /\ m \in Int /\ m >= 1
    BY <2>2
  <2>5. Cardinality(1..m) = m
    <3>1. Cardinality(1..m) = IF 1 > m THEN 0 ELSE m - 1 + 1
      BY <2>4, FS_Interval
    <3>. QED
      BY <2>4, <3>1
  <2>. QED
    BY <2>3, <2>5
<1>. QED
  BY <1>1, <1>2

LEMMA SomeOf ==
  ASSUME NEW n \in Nat, NEW S \in SUBSET (1..n)
  PROVE  Cardinality(S) \in 0..n
<1>1. IsFiniteSet(1..n) /\ Cardinality(1..n) = IF 1 > n THEN 0 ELSE n - 1 + 1
  BY FS_Interval
<1>2. Cardinality(1..n) = n
  BY <1>1
<1>3. IsFiniteSet(S) /\ Cardinality(S) <= Cardinality(1..n)
  BY <1>1, FS_Subset
<1>4. Cardinality(S) \in Nat
  BY <1>3, FS_CardinalityType
<1>. QED
  BY <1>2, <1>3, <1>4

LEMMA PrefixIs ==
  ASSUME NEW D, NEW s \in Seq(D), NEW c \in 0..Len(s)
  PROVE  /\ SubSeq(s, 1, c) \in Seq(D) /\ Len(SubSeq(s, 1, c)) = c
         /\ \A i \in 1..c : SubSeq(s, 1, c)[i] = s[i]
  OBVIOUS

LEMMA SuffixIs ==
  ASSUME NEW D, NEW s \in Seq(D), NEW k \in 1..(Len(s) + 1)
  PROVE  /\ SubSeq(s, k, Len(s)) \in Seq(D) /\ Len(SubSeq(s, k, Len(s))) = Len(s) - k + 1
         /\ \A i \in 1..(Len(s) - k + 1) : SubSeq(s, k, Len(s))[i] = s[i + k - 1]
  OBVIOUS

LEMMA BothAre ==
  ASSUME NEW D, NEW a \in Seq(D), NEW b \in Seq(D)
  PROVE  /\ a \o b \in Seq(D) /\ Len(a \o b) = Len(a) + Len(b)
         /\ \A i \in 1..Len(a) : (a \o b)[i] = a[i]
         /\ \A i \in 1..Len(b) : (a \o b)[Len(a) + i] = b[i]
  OBVIOUS

LEMMA InsertAtParts ==
  ASSUME NEW s, NEW x, NEW k
  PROVE  InsertAt(s, k, x) = (SubSeq(s, 1, k - 1) \o <<x>>) \o SubSeq(s, k, Len(s))
  BY Zenon DEF InsertAt

LEMMA InsertAtIs ==
  ASSUME NEW D, NEW s \in Seq(D), NEW x \in D, NEW k \in 1..(Len(s) + 1)
  PROVE  /\ InsertAt(s, k, x) \in Seq(D) /\ Len(InsertAt(s, k, x)) = Len(s) + 1
         /\ \A i \in 1..(k - 1) : InsertAt(s, k, x)[i] = s[i]
         /\ InsertAt(s, k, x)[k] = x
         /\ \A i \in (k + 1)..(Len(s) + 1) : InsertAt(s, k, x)[i] = s[i - 1]
<1>1. PICK n, c, a, b, one, e, r :
        /\ n = Len(s) /\ c = k - 1 /\ a = SubSeq(s, 1, c) /\ b = SubSeq(s, k, n)
        /\ one = <<x>> /\ e = a \o one /\ r = e \o b
  OBVIOUS
<1>2. n \in Nat /\ c \in 0..n /\ k = c + 1 /\ k \in 1..(n + 1)
  <2>1. n \in Nat
    BY <1>1
  <2>. QED
    BY <1>1, <2>1
<1>3. a \in Seq(D) /\ Len(a) = c /\ \A i \in 1..c : a[i] = s[i]
  BY <1>1, <1>2, PrefixIs
<1>4. b \in Seq(D) /\ Len(b) = n - k + 1 /\ \A i \in 1..(n - k + 1) : b[i] = s[i + k - 1]
  BY <1>1, <1>2, SuffixIs
<1>5. one \in Seq(D) /\ Len(one) = 1 /\ one[1] = x
  BY <1>1
<1>6. /\ e \in Seq(D) /\ Len(e) = Len(a) + Len(one)
      /\ \A i \in 1..Len(a) : e[i] = a[i]
      /\ \A i \in 1..Len(one) : e[Len(a) + i] = one[i]
  <2>. QED
    BY <1>1, <1>3, <1>5, BothAre
<1>7. /\ r \in Seq(D) /\ Len(r) = Len(e) + Len(b)
      /\ \A i \in 1..Len(e) : r[i] = e[i]
      /\ \A i \in 1..Len(b) : r[Len(e) + i] = b[i]
  <2>1. r = e \o b /\ e \in Seq(D) /\ b \in Seq(D)
    BY <1>1, <1>4, <1>6
  <2>. QED
    BY <2>1, BothAre
<1>8. InsertAt(s, k, x) = r
  BY <1>1, InsertAtParts
<1>9. Len(e) = k /\ e[k] = x /\ \A i \in 1..c : e[i] = s[i]
  BY <1>2, <1>3, <1>5, <1>6
<1>10. Len(r) = n + 1 /\ r[k] = x /\ \A i \in 1..c : r[i] = s[i]
  <2>1. k + (n - k + 1) = n + 1 /\ k \in 1..k /\ \A i \in 1..c : i \in 1..k
    BY <1>2
  <2>. QED
    BY <1>4, <1>7, <1>9, <2>1
<1>11. ASSUME NEW i \in (k + 1)..(n + 1) PROVE r[i] = s[i - 1]
  <2>1. PICK m : m = i - k
    OBVIOUS
  <2>2. m \in 1..(n - k + 1) /\ k + m = i /\ m + k - 1 = i - 1
    BY <1>2, <2>1
  <2>3. r[k + m] = b[m] /\ b[m] = s[m + k - 1]
    BY <1>4, <1>7, <1>9, <2>2
  <2>. QED
    BY <2>2, <2>3
<1>. QED
  BY <1>1, <1>7, <1>8, <1>10, <1>11

\* A heap takes an element behind those that are not farther.
Nearer(d, s, x) == {i \in DOMAIN s : d[s[i]] <= d[x]}

LEMMA InsertedIs ==
  ASSUME NEW D, NEW s \in Seq(D), NEW x \in D, NEW d, \A y \in D : d[y] \in Int,
         NEW r, r = InsertAt(s, Cardinality(Nearer(d, s, x)) + 1, x)
  PROVE  /\ r \in Seq(D) /\ Len(r) = Len(s) + 1 /\ ToSet(r) = ToSet(s) \cup {x}
         /\ Sorted(d, s) => Sorted(d, r)
<1>1. Len(s) \in Nat /\ DOMAIN s = 1..Len(s) /\ \A i \in 1..Len(s) : s[i] \in D
  OBVIOUS
<1>2. PICK n, S, c : n = Len(s) /\ S = Nearer(d, s, x) /\ c = Cardinality(S)
  OBVIOUS
<1>3. n \in Nat /\ c \in 0..n /\ S \in SUBSET (1..n)
  <2>1. S \in SUBSET (1..n) /\ n \in Nat
    BY <1>1, <1>2 DEF Nearer
  <2>. QED
    BY <1>2, <2>1, SomeOf
<1>11. /\ DOMAIN r = 1..(n + 1) /\ r \in Seq(D) /\ Len(r) = n + 1
       /\ \A i \in 1..c : r[i] = s[i]
       /\ r[c + 1] = x
       /\ \A i \in (c + 2)..(n + 1) : r[i] = s[i - 1]
  <2>1. PICK k : k = c + 1
    OBVIOUS
  <2>2. k \in 1..(n + 1) /\ k - 1 = c /\ k + 1 = c + 2 /\ n = Len(s)
    BY <1>2, <1>3, <2>1
  <2>3. r = InsertAt(s, k, x)
    BY <1>2, <2>1
  <2>4. /\ r \in Seq(D) /\ Len(r) = Len(s) + 1
        /\ \A i \in 1..(k - 1) : r[i] = s[i]
        /\ r[k] = x
        /\ \A i \in (k + 1)..(Len(s) + 1) : r[i] = s[i - 1]
    <3>1. k \in 1..(Len(s) + 1) /\ s \in Seq(D) /\ x \in D
      BY <2>2
    <3>2. /\ InsertAt(s, k, x) \in Seq(D) /\ Len(InsertAt(s, k, x)) = Len(s) + 1
          /\ \A i \in 1..(k - 1) : InsertAt(s, k, x)[i] = s[i]
          /\ InsertAt(s, k, x)[k] = x
          /\ \A i \in (k + 1)..(Len(s) + 1) : InsertAt(s, k, x)[i] = s[i - 1]
      BY <3>1, InsertAtIs
    <3>. QED
      BY <2>3, <3>2
  <2>5. r \in Seq(D) => DOMAIN r = 1..Len(r)
    OBVIOUS
  <2>. QED
    BY <2>1, <2>2, <2>4, <2>5
<1>12. ToSet(r) = ToSet(s) \cup {x}
  <2>1. ASSUME NEW y \in ToSet(r) PROVE y \in ToSet(s) \cup {x}
    <3>1. PICK i \in 1..(n + 1) : y = r[i]
      BY <1>11 DEF ToSet
    <3>2. i \in 1..c \/ i = c + 1 \/ i \in (c + 2)..(n + 1)
      BY <1>3
    <3>3. i \in 1..c => i \in 1..n
      BY <1>3
    <3>4. i \in (c + 2)..(n + 1) => i - 1 \in 1..n
      BY <1>3
    <3>. QED
      BY <1>1, <1>2, <1>11, <3>1, <3>2, <3>3, <3>4 DEF ToSet
  <2>2. ASSUME NEW i \in 1..n PROVE s[i] \in ToSet(r)
    <3>1. CASE i <= c
      <4>1. i \in 1..c /\ i \in 1..(n + 1)
        BY <1>3, <3>1
      <4>. QED
        BY <1>11, <4>1 DEF ToSet
    <3>2. CASE ~(i <= c)
      <4>1. i + 1 \in (c + 2)..(n + 1) /\ i + 1 \in 1..(n + 1) /\ i + 1 - 1 = i
        BY <1>3, <3>2
      <4>2. r[i + 1] = s[i]
        BY <1>11, <4>1
      <4>. QED
        BY <1>11, <4>1, <4>2 DEF ToSet
    <3>. QED
      BY <3>1, <3>2
  <2>3. x \in ToSet(r)
    <3>1. c + 1 \in 1..(n + 1)
      BY <1>3
    <3>. QED
      BY <1>11, <3>1 DEF ToSet
  <2>4. \A y \in ToSet(s) : y \in ToSet(r)
    BY <1>1, <1>2, <2>2 DEF ToSet
  <2>. QED
    BY <2>1, <2>3, <2>4
<1>13. ASSUME Sorted(d, s) PROVE Sorted(d, r)
  <2>1. \A i \in 1..n : d[s[i]] \in Int
    BY <1>1, <1>2
  <2>2. \A i, j \in 1..n : i < j => d[s[i]] <= d[s[j]]
    BY <1>1, <1>2, <1>13 DEF Sorted
  <2>3. S = 1..c
    <3>1. ASSUME NEW j \in S, NEW i \in 1..j PROVE i \in S
      <4>1. j \in 1..n /\ d[s[j]] <= d[x]
        BY <1>1, <1>2 DEF Nearer
      <4>2. i \in 1..n /\ (i < j \/ i = j)
        BY <1>3, <4>1
      <4>3. d[s[i]] <= d[s[j]]
        <5>1. CASE i < j
          BY <2>2, <4>1, <4>2, <5>1
        <5>2. CASE i = j
          <6>1. d[s[i]] \in Int /\ d[s[i]] = d[s[j]]
            BY <2>1, <4>1, <5>2
          <6>. QED
            BY <6>1
        <5>. QED
          BY <4>2, <5>1, <5>2
      <4>4. d[s[i]] <= d[x]
        BY <2>1, <4>1, <4>2, <4>3
      <4>. QED
        BY <1>1, <1>2, <4>2, <4>4 DEF Nearer
    <3>. QED
      BY <1>2, <1>3, <3>1, NoGaps
  <2>4. \A i \in 1..c : d[s[i]] <= d[x]
    BY <1>2, <2>3 DEF Nearer
  <2>5. \A i \in (c + 1)..n : d[x] <= d[s[i]]
    <3>. SUFFICES ASSUME NEW i \in (c + 1)..n PROVE d[x] <= d[s[i]]
      OBVIOUS
    <3>1. i \in 1..n /\ i \notin 1..c
      BY <1>3
    <3>2. ~(d[s[i]] <= d[x])
      BY <1>1, <1>2, <2>3, <3>1 DEF Nearer
    <3>. QED
      BY <2>1, <3>1, <3>2
  <2>. SUFFICES ASSUME NEW i \in 1..(n + 1), NEW j \in 1..(n + 1), i < j
                PROVE  d[r[i]] <= d[r[j]]
    BY <1>11 DEF Sorted
  <2>6. CASE j <= c
    <3>1. i \in 1..c /\ j \in 1..c /\ i \in 1..n /\ j \in 1..n
      BY <1>3, <2>6
    <3>. QED
      BY <1>11, <2>2, <3>1
  <2>7. CASE j = c + 1
    <3>1. i \in 1..c
      BY <1>3, <2>7
    <3>. QED
      BY <1>11, <2>4, <2>7, <3>1
  <2>8. CASE j > c + 1
    <3>1. j \in (c + 2)..(n + 1) /\ j - 1 \in (c + 1)..n /\ j - 1 \in 1..n
      BY <1>3, <2>8
    <3>2. r[j] = s[j - 1]
      BY <1>11, <3>1
    <3>3. CASE i <= c
      <4>1. i \in 1..c /\ i \in 1..n /\ i < j - 1
        BY <1>3, <3>1, <3>3
      <4>. QED
        BY <1>11, <2>2, <3>1, <3>2, <4>1
    <3>4. CASE i = c + 1
      BY <1>11, <2>5, <3>1, <3>2, <3>4
    <3>5. CASE i > c + 1
      <4>1. i \in (c + 2)..(n + 1) /\ i - 1 \in 1..n /\ i - 1 < j - 1
        BY <1>3, <3>1, <3>5
      <4>2. r[i] = s[i - 1]
        BY <1>11, <4>1
      <4>. QED
        BY <2>2, <3>1, <3>2, <4>1, <4>2
    <3>. QED
      BY <1>3, <3>3, <3>4, <3>5
  <2>. QED
    BY <1>3, <2>6, <2>7, <2>8
<1>. QED
  BY <1>2, <1>11, <1>12, <1>13



LEMMA PushedIs ==
  ASSUME NEW g, Graph(g), NEW q \in Queries \cup Points, NEW D \in SUBSET DOMAIN g,
         NEW s \in Seq(D), NEW x \in D
  PROVE  /\ Pushed(g, q, s, x) \in Seq(D) /\ Len(Pushed(g, q, s, x)) = Len(s) + 1
         /\ Sorted(Far(g, q), s) => Sorted(Far(g, q), Pushed(g, q, s, x))
<1>1. PICK d : d = Far(g, q)
  OBVIOUS
<1>2. \A y \in DOMAIN g : d[y] \in Int /\ d[y] = Distance(q, g[y].vec)
  BY <1>1, FarIs
<1>3. PICK r, c : c = Cardinality(Nearer(d, s, x)) /\ r = InsertAt(s, c + 1, x)
  OBVIOUS
<1>4. Pushed(g, q, s, x) = r
  <2>1. \A i \in DOMAIN s : s[i] \in DOMAIN g
    OBVIOUS
  <2>2. Nearer(d, s, x) = {i \in DOMAIN s : Distance(q, g[s[i]].vec) <= Distance(q, g[x].vec)}
    BY <1>2, <2>1 DEF Nearer
  <2>. QED
    BY <1>3, <2>2 DEF Pushed
<1>5. \A y \in D : d[y] \in Int
  BY <1>2
<1>6. /\ r \in Seq(D) /\ Len(r) = Len(s) + 1
      /\ Sorted(d, s) => Sorted(d, r)
  BY <1>3, <1>5, InsertedIs
<1>. QED
  BY <1>1, <1>4, <1>6

\* What a search from a node takes, and the heaps it keeps.
Live(g, start) == {x \in DOMAIN g : x = start \/ ~g[x].tombstone}
Results(g, q, start) == {s \in Seq(Live(g, start)) : s # <<>> /\ Sorted(Far(g, q), s)}
Heaps(g, q, start) == [candidates : Seq(DOMAIN g), results : Results(g, q, start)]

LEMMA FrontIs ==
  ASSUME NEW D, NEW s \in Seq(D), NEW d, Sorted(d, s), Len(s) > 1
  PROVE  Front(s) \in Seq(D) /\ Front(s) # <<>> /\ Sorted(d, Front(s))
<1>1. PICK n, c, r : n = Len(s) /\ c = n - 1 /\ r = SubSeq(s, 1, c)
  OBVIOUS
<1>2. n \in Nat /\ n > 1 /\ DOMAIN s = 1..n
  BY <1>1
<1>3. c \in 0..n /\ c >= 1 /\ \A i \in 1..c : i \in 1..n
  BY <1>1, <1>2
<1>4. r \in Seq(D) /\ Len(r) = c /\ \A i \in 1..c : r[i] = s[i]
  BY <1>1, <1>3, PrefixIs
<1>5. DOMAIN r = 1..c /\ r # <<>>
  BY <1>3, <1>4
<1>6. Sorted(d, r)
  BY <1>2, <1>3, <1>4, <1>5 DEF Sorted
<1>7. Front(s) = r
  BY <1>1 DEF Front
<1>. QED
  BY <1>4, <1>5, <1>6, <1>7

LEMMA VisitIs ==
  ASSUME NEW g, Graph(g), NEW q \in Queries \cup Points, NEW start \in DOMAIN g, NEW ef \in Nat \ {0},
         NEW h \in Heaps(g, q, start), NEW x \in Ids
  PROVE  Visit(g, q, start, ef, h, x) \in Heaps(g, q, start)
<1>1. CASE ~(Usable(g, start, x) /\ ShouldAdd(g, q, h.results, x, ef))
  BY <1>1 DEF Visit
<1>2. CASE Usable(g, start, x) /\ ShouldAdd(g, q, h.results, x, ef)
  <2>1. PICK L, d : L = Live(g, start) /\ d = Far(g, q)
    OBVIOUS
  <2>2. L \in SUBSET DOMAIN g /\ x \in L /\ x \in DOMAIN g
    BY <1>2, <2>1 DEF Live, Usable
  <2>3. PICK c, r : c = h.candidates /\ r = h.results
    OBVIOUS
  <2>4. c \in Seq(DOMAIN g) /\ r \in Seq(L) /\ r # <<>> /\ Sorted(d, r)
    BY <2>1, <2>3 DEF Heaps, Results
  <2>5. Pushed(g, q, c, x) \in Seq(DOMAIN g)
    BY <2>2, <2>4, PushedIs
  <2>6. PICK s : s = Pushed(g, q, r, x)
    OBVIOUS
  <2>7. s \in Seq(L) /\ Len(s) = Len(r) + 1 /\ Sorted(d, s)
    <3>1. /\ Pushed(g, q, r, x) \in Seq(L) /\ Len(Pushed(g, q, r, x)) = Len(r) + 1
          /\ Sorted(Far(g, q), r) => Sorted(Far(g, q), Pushed(g, q, r, x))
      BY <2>2, <2>4, PushedIs
    <3>. QED
      BY <2>1, <2>4, <2>6, <3>1
  <2>8. Len(s) > 1 /\ s # <<>>
    <3>1. Len(r) \in Nat /\ Len(r) # 0
      BY <2>4
    <3>. QED
      BY <2>7, <3>1
  <2>9. PICK t : t = IF Len(s) > ef THEN Front(s) ELSE s
    OBVIOUS
  <2>10. t \in Results(g, q, start)
    <3>1. Front(s) \in Seq(L) /\ Front(s) # <<>> /\ Sorted(d, Front(s))
      BY <2>7, <2>8, FrontIs
    <3>. QED
      BY <2>1, <2>7, <2>8, <2>9, <3>1 DEF Results
  <2>11. Visit(g, q, start, ef, h, x) = [candidates |-> Pushed(g, q, c, x), results |-> t]
    BY <1>2, <2>3, <2>6, <2>9 DEF Visit
  <2>. QED
    BY <2>5, <2>10, <2>11 DEF Heaps
<1>. QED
  BY <1>1, <1>2



-----------------------------------------------------------------------------
(* Searches.                                                               *)

\* f is a fold whose operator is G, as long as it stays in V; T[i] holds of it
\* after i elements.
FoldsBy(f, n, V, base, G) ==
  /\ f[{}] = base
  /\ \A S \in SUBSET (1..n) : S # {} /\ f[S \ {Max(S)}] \in V =>
       f[S] = G[<<Max(S), f[S \ {Max(S)}]>>]

Keeps(n, V, base, G, T) ==
  /\ base \in V /\ base \in T[0]
  /\ \A i \in 1..n : \A r \in V :
       G[<<i, r>>] \in V /\ (r \in T[i - 1] => G[<<i, r>>] \in T[i])

LEMMA FoldStays ==
  ASSUME NEW n \in Nat, NEW V, NEW base, NEW G, NEW f, NEW T,
         FoldsBy(f, n, V, base, G), Keeps(n, V, base, G, T)
  PROVE  f[1..n] \in V /\ f[1..n] \in T[n]
<1>1. PICK U : U = [i \in 0..n |-> V \cap T[i]]
  OBVIOUS
<1>2. f[{}] \in U[0]
  BY <1>1 DEF FoldsBy, Keeps
<1>3. ASSUME NEW i \in 1..n, Upto(f, i - 1) \in U[i - 1] PROVE Upto(f, i) \in U[i]
  <2>1. PICK S, r : S = 1..i /\ r = Upto(f, i - 1)
    OBVIOUS
  <2>2. /\ S \in SUBSET (1..n) /\ S # {} /\ Max(S) = i /\ S \ {i} = 1..(i - 1)
        /\ i - 1 \in 0..n /\ i \in 0..n
    BY <2>1, UptoNext
  <2>3. r \in V /\ r \in T[i - 1]
    BY <1>1, <1>3, <2>1, <2>2
  <2>4. r = f[S \ {Max(S)}]
    BY <2>1, <2>2 DEF Upto
  <2>5. f[S] = G[<<i, r>>]
    BY <2>2, <2>3, <2>4 DEF FoldsBy
  <2>6. Upto(f, i) = G[<<i, r>>]
    BY <2>1, <2>5 DEF Upto
  <2>. QED
    BY <1>1, <2>2, <2>3, <2>6 DEF Keeps
<1>4. f[1..n] \in U[n]
  BY <1>2, <1>3, FoldEnds
<1>5. n \in 0..n
  OBVIOUS
<1>. QED
  BY <1>1, <1>4, <1>5

LEMMA LinksAre ==
  ASSUME NEW g, Graph(g), NEW x \in DOMAIN g, NEW l
  PROVE  Links(g, x, l) \in Seq(Ids) /\ ToSet(Links(g, x, l)) = Linked(g[x], l)
<1>1. g[x] \in Nodes
  BY DEF Graph
<1>2. g[x].links \in [0..g[x].level -> Seq(Ids)]
  BY <1>1, NodeIs
<1>3. ToSet(<<>>) = {} /\ <<>> \in Seq(Ids)
  BY DEF ToSet
<1>4. CASE l \in DOMAIN g[x].links
  BY <1>2, <1>4 DEF Links, Linked
<1>5. CASE l \notin DOMAIN g[x].links
  BY <1>3, <1>5 DEF Links, Linked
<1>. QED
  BY <1>4, <1>5

LEMMA ExploredIs ==
  ASSUME NEW g, Graph(g), NEW q \in Queries \cup Points, NEW start \in DOMAIN g, NEW ef \in Nat \ {0},
         NEW l, NEW h \in Heaps(g, q, start), h.candidates # <<>>
  PROVE  Explored(g, q, start, ef, l, h) \in Heaps(g, q, start)
<1>1. PICK list, base, V :
        /\ list = Links(g, Head(h.candidates), l)
        /\ base = [h EXCEPT !.candidates = Tail(@)]
        /\ V = Heaps(g, q, start)
  OBVIOUS
<1>2. base \in V
  <2>1. PICK c : c = h.candidates
    OBVIOUS
  <2>2. c \in Seq(DOMAIN g) /\ c # <<>> /\ h.results \in Results(g, q, start)
    BY <2>1 DEF Heaps
  <2>3. Tail(c) \in Seq(DOMAIN g)
    BY <2>2
  <2>4. PICK t, r : t = Tail(c) /\ r = h.results
    OBVIOUS
  <2>5. base = [candidates |-> t, results |-> r]
    BY <1>1, <2>1, <2>4 DEF Heaps
  <2>6. t \in Seq(DOMAIN g) /\ r \in Results(g, q, start)
    BY <2>2, <2>3, <2>4
  <2>7. [candidates |-> t, results |-> r] \in Heaps(g, q, start)
    BY <2>6 DEF Heaps
  <2>8. V = Heaps(g, q, start)
    BY <1>1
  <2>. QED
    BY <2>5, <2>7, <2>8
<1>3. list \in Seq(Ids)
  <2>1. Head(h.candidates) \in DOMAIN g
    BY DEF Heaps
  <2>. QED
    BY <1>1, <2>1, LinksAre
<1>. DEFINE n == Len(list)
            Op(r, x) == Visit(g, q, start, ef, r, x)
            G == [p \in (1..n) \X V |-> Op(p[2], list[p[1]])]
            Lit(f) == f = [S \in SUBSET DOMAIN list |->
                             IF S = {} THEN base ELSE Op(f[S \ {Max(S)}], list[Max(S)])]
<1>4. n \in Nat /\ DOMAIN list = 1..n /\ \A i \in 1..n : list[i] \in Ids
  BY <1>3
<1>5. ASSUME NEW i \in 1..n, NEW r \in V
      PROVE  G[<<i, r>>] = Op(r, list[i]) /\ G[<<i, r>>] \in V
  <2>1. G[<<i, r>>] = Op(r, list[i])
    OBVIOUS
  <2>2. Op(r, list[i]) \in V
    BY <1>1, <1>4, VisitIs
  <2>. QED
    BY <2>1, <2>2
<1>. HIDE DEF G, Op, n
<1>6. PICK h0 : Follows(h0, n, V, base, G)
  BY <1>2, <1>4, <1>5, FoldExists
<1>7. Lit(h0)
  <2>1. ASSUME NEW S \in SUBSET (1..n)
        PROVE  h0[S] = IF S = {} THEN base ELSE Op(h0[S \ {Max(S)}], list[Max(S)])
    BY <1>5, <1>6 DEF Follows
  <2>2. h0 = [S \in SUBSET (1..n) |-> h0[S]]
    BY <1>6 DEF Follows
  <2>. QED
    BY <1>4, <2>1, <2>2
<1>8. PICK f : f = CHOOSE e : Lit(e)
  OBVIOUS
<1>9. Lit(f)
  <2>. HIDE DEF Lit
  <2>. QED
    BY <1>7, <1>8
<1>10. Explored(g, q, start, ef, l, h) = f[1..n]
  <2>1. Explored(g, q, start, ef, l, h) = f[DOMAIN list]
    BY <1>1, <1>8 DEF Explored, FoldLeft, MapThenFoldSet, Op
  <2>. QED
    BY <1>4, <2>1
<1>11. f[{}] = base
  BY <1>9
<1>12. FoldsBy(f, n, V, base, G)
  <2>1. ASSUME NEW S \in SUBSET (1..n), S # {}, f[S \ {Max(S)}] \in V
        PROVE  f[S] = G[<<Max(S), f[S \ {Max(S)}]>>]
    <3>1. Max(S) \in 1..n
      BY <1>4, <2>1, GreatestNumber
    <3>2. f[S] = Op(f[S \ {Max(S)}], list[Max(S)])
      BY <1>4, <1>9, <2>1
    <3>. QED
      BY <1>5, <2>1, <3>1, <3>2
  <2>. QED
    BY <1>11, <2>1 DEF FoldsBy
<1>13. PICK T : T = [i \in 0..n |-> V]
  OBVIOUS
<1>14. Keeps(n, V, base, G, T)
  BY <1>2, <1>4, <1>5, <1>13 DEF Keeps
<1>15. f[1..n] \in V
  BY <1>4, <1>12, <1>14, FoldStays
<1>. QED
  BY <1>1, <1>10, <1>15



\* A sequence of n steps from base, with the operator G.
StepsBy(f, n, V, base, G) ==
  /\ f = [i \in 0..n |-> f[i]] /\ f[0] = base
  /\ \A i \in 1..n : f[i - 1] \in V /\ f[i] = G[f[i - 1]]

LEMMA StepsExist ==
  ASSUME NEW n \in Nat, NEW V, NEW base \in V, NEW G, \A r \in V : G[r] \in V
  PROVE  \E f : StepsBy(f, n, V, base, G)
<1>1. PICK H : H = [p \in (1..n) \X V |-> G[p[2]]]
  OBVIOUS
<1>2. \A i \in 1..n : \A r \in V : H[<<i, r>>] = G[r] /\ H[<<i, r>>] \in V
  BY <1>1
<1>3. PICK h : Follows(h, n, V, base, H)
  BY <1>2, FoldExists
<1>4. PICK f : f = [i \in 0..n |-> Upto(h, i)]
  OBVIOUS
<1>5. f[0] = base
  <2>1. 1..0 = {} /\ 0 \in 0..n
    OBVIOUS
  <2>. QED
    BY <1>3, <1>4, <2>1 DEF Follows, Upto
<1>6. ASSUME NEW i \in 1..n PROVE f[i - 1] \in V /\ f[i] = G[f[i - 1]]
  <2>1. PICK S : S = 1..i
    OBVIOUS
  <2>2. /\ S \in SUBSET (1..n) /\ S # {} /\ Max(S) = i /\ S \ {i} = 1..(i - 1)
        /\ i - 1 \in 0..n /\ i \in 0..n
    BY <2>1, UptoNext
  <2>3. f[i] = h[S] /\ f[i - 1] = h[S \ {i}]
    BY <1>4, <2>1, <2>2 DEF Upto
  <2>4. h[S \ {i}] \in V /\ h[S] = H[<<i, h[S \ {i}]>>]
    BY <1>3, <2>2 DEF Follows
  <2>. QED
    BY <1>2, <2>3, <2>4
<1>7. f = [i \in 0..n |-> f[i]]
  BY <1>4
<1>. QED
  BY <1>5, <1>6, <1>7 DEF StepsBy

LEMMA SearchLayerIs ==
  ASSUME NEW g, Graph(g), NEW q \in Queries \cup Points, NEW start \in DOMAIN g, NEW ef \in Nat \ {0},
         NEW l
  PROVE  SearchLayer(g, q, start, ef, l) \in Results(g, q, start)
<1>1. PICK n, base, V :
        /\ n = StepsAtMost(g, ef)
        /\ base = [candidates |-> <<start>>, results |-> <<start>>]
        /\ V = Heaps(g, q, start)
  OBVIOUS
<1>2. n \in Nat
  <2>1. Cardinality(DOMAIN g) \in Nat
    BY FS_CardinalityType DEF Graph
  <2>. QED
    BY <1>1, <2>1 DEF StepsAtMost
<1>3. base \in V
  <2>1. PICK one : one = <<start>>
    OBVIOUS
  <2>2. one \in Seq(Live(g, start)) /\ one \in Seq(DOMAIN g) /\ one # <<>> /\ DOMAIN one = 1..1
    BY <2>1 DEF Live
  <2>3. Sorted(Far(g, q), one)
    BY <2>2 DEF Sorted
  <2>4. one \in Results(g, q, start)
    BY <2>2, <2>3 DEF Results
  <2>5. [candidates |-> one, results |-> one] \in Heaps(g, q, start)
    BY <2>2, <2>4 DEF Heaps
  <2>. QED
    BY <1>1, <2>1, <2>5
<1>. DEFINE Op(h) == IF Finished(g, q, h, ef) THEN h ELSE Explored(g, q, start, ef, l, h)
            G == [h \in V |-> Op(h)]
            Lit(f) == f = [i \in 0..n |-> IF i = 0 THEN base ELSE Op(f[i - 1])]
<1>4. ASSUME NEW h \in V PROVE G[h] = Op(h) /\ Op(h) \in V
  <2>1. h \in Heaps(g, q, start)
    BY <1>1
  <2>2. CASE Finished(g, q, h, ef)
    BY <2>2
  <2>3. CASE ~Finished(g, q, h, ef)
    <3>1. h.candidates # <<>>
      BY <2>3 DEF Finished
    <3>2. Explored(g, q, start, ef, l, h) \in Heaps(g, q, start)
      BY <2>1, <3>1, ExploredIs
    <3>. QED
      BY <1>1, <2>3, <3>2
  <2>. QED
    BY <2>2, <2>3
<1>. HIDE DEF G, Op
<1>5. PICK h0 : StepsBy(h0, n, V, base, G)
  <2>1. \A r \in V : G[r] \in V
    BY <1>4
  <2>. QED
    BY <1>2, <1>3, <2>1, StepsExist
<1>6. Lit(h0)
  <2>1. ASSUME NEW i \in 0..n PROVE h0[i] = IF i = 0 THEN base ELSE Op(h0[i - 1])
    <3>1. i # 0 => i \in 1..n
      BY <1>2
    <3>. QED
      BY <1>4, <1>5, <3>1 DEF StepsBy
  <2>. QED
    BY <1>5, <2>1 DEF StepsBy
<1>7. PICK f : f = CHOOSE e : Lit(e)
  OBVIOUS
<1>8. Lit(f)
  <2>. HIDE DEF Lit
  <2>. QED
    BY <1>6, <1>7
<1>9. SearchLayer(g, q, start, ef, l) = f[n].results
  BY <1>1, <1>7 DEF SearchLayer, Op
<1>10. PICK P : P = {i \in 0..n : f[i] \in V}
  OBVIOUS
<1>11. 0 \in P
  BY <1>2, <1>3, <1>8, <1>10
<1>12. ASSUME NEW i \in 1..n, i - 1 \in P PROVE i \in P
  <2>1. i \in 0..n /\ i # 0 /\ f[i - 1] \in V
    BY <1>10, <1>12
  <2>2. f[i] = Op(f[i - 1])
    BY <1>8, <2>1
  <2>. QED
    BY <1>4, <1>10, <2>1, <2>2
<1>13. n \in P
  <2>1. n \in 0..n
    BY <1>2
  <2>. QED
    BY <1>2, <1>11, <1>12, <2>1, Upwards
<1>. QED
  BY <1>1, <1>9, <1>10, <1>13 DEF Heaps



LEMMA DownwardsIs ==
  ASSUME NEW from \in Int, NEW to \in Int, NEW n,
         n = IF from - to + 1 >= 0 THEN from - to + 1 ELSE 0
  PROVE  /\ n \in Nat /\ DOMAIN Downwards(from, to) = 1..n
         /\ \A i \in 1..n : /\ Downwards(from, to)[i] = from + 1 - i
                            /\ from + 1 - i \in to..from
<1>1. n \in Nat /\ 1..(from - to + 1) = 1..n
  <2>1. CASE from - to + 1 >= 0
    BY <2>1
  <2>2. CASE ~(from - to + 1 >= 0)
    <3>1. n = 0 /\ \A y : y \notin 1..(from - to + 1)
      BY <2>2
    <3>. QED
      BY <3>1
  <2>. QED
    BY <2>1, <2>2
<1>2. \A i \in 1..(from - to + 1) : from + 1 - i \in to..from
  OBVIOUS
<1>. QED
  BY <1>1, <1>2 DEF Downwards

\* The descent ends at a live node, or where it started.
LEMMA DescendIs ==
  ASSUME NEW g, Graph(g), NEW q \in Queries \cup Points, NEW start \in DOMAIN g,
         NEW from \in Int, NEW to \in Int
  PROVE  Descend(g, q, start, from, to) \in Live(g, start)
<1>1. PICK list, base, V : list = Downwards(from, to) /\ base = start /\ V = Live(g, start)
  OBVIOUS
<1>2. base \in V
  BY <1>1 DEF Live
<1>. DEFINE n == IF from - to + 1 >= 0 THEN from - to + 1 ELSE 0
            Op(r, x) == Head(SearchLayer(g, q, r, 1, x))
            G == [p \in (1..n) \X V |-> Op(p[2], list[p[1]])]
            Lit(f) == f = [S \in SUBSET DOMAIN list |->
                             IF S = {} THEN base ELSE Op(f[S \ {Max(S)}], list[Max(S)])]
<1>3. n \in Nat /\ DOMAIN list = 1..n
  <2>1. PICK k : k = n
    OBVIOUS
  <2>2. k \in Nat /\ DOMAIN list = 1..k
    BY <1>1, <2>1, DownwardsIs
  <2>. QED
    BY <2>1, <2>2
<1>4. ASSUME NEW i \in 1..n, NEW r \in V
      PROVE  G[<<i, r>>] = Op(r, list[i]) /\ G[<<i, r>>] \in V
  <2>1. G[<<i, r>>] = Op(r, list[i])
    OBVIOUS
  <2>2. PICK s : s = SearchLayer(g, q, r, 1, list[i])
    OBVIOUS
  <2>3. r \in DOMAIN g /\ Live(g, r) \subseteq V /\ 1 \in Nat \ {0}
    BY <1>1 DEF Live
  <2>4. s \in Seq(Live(g, r)) /\ s # <<>>
    BY <2>2, <2>3, SearchLayerIs DEF Results
  <2>5. Head(s) \in V
    <3>1. Head(s) = s[1] /\ s[1] \in Live(g, r)
      BY <2>4
    <3>. QED
      BY <2>3, <3>1
  <2>. QED
    BY <2>1, <2>2, <2>5
<1>. HIDE DEF G, Op, n
<1>5. PICK h0 : Follows(h0, n, V, base, G)
  BY <1>2, <1>3, <1>4, FoldExists
<1>6. Lit(h0)
  <2>1. ASSUME NEW S \in SUBSET (1..n)
        PROVE  h0[S] = IF S = {} THEN base ELSE Op(h0[S \ {Max(S)}], list[Max(S)])
    BY <1>4, <1>5 DEF Follows
  <2>2. h0 = [S \in SUBSET (1..n) |-> h0[S]]
    BY <1>5 DEF Follows
  <2>. QED
    BY <1>3, <2>1, <2>2
<1>7. PICK f : f = CHOOSE e : Lit(e)
  OBVIOUS
<1>8. Lit(f)
  <2>. HIDE DEF Lit
  <2>. QED
    BY <1>6, <1>7
<1>9. Descend(g, q, start, from, to) = f[1..n]
  <2>1. Descend(g, q, start, from, to) = f[DOMAIN list]
    BY <1>1, <1>7 DEF Descend, FoldLeft, MapThenFoldSet, Op
  <2>. QED
    BY <1>3, <2>1
<1>10. FoldsBy(f, n, V, base, G)
  <2>1. ASSUME NEW S \in SUBSET (1..n), S # {}, f[S \ {Max(S)}] \in V
        PROVE  f[S] = G[<<Max(S), f[S \ {Max(S)}]>>]
    <3>1. Max(S) \in 1..n
      BY <1>3, <2>1, GreatestNumber
    <3>2. f[S] = Op(f[S \ {Max(S)}], list[Max(S)])
      BY <1>3, <1>8, <2>1
    <3>. QED
      BY <1>4, <2>1, <3>1, <3>2
  <2>2. f[{}] = base
    BY <1>8
  <2>. QED
    BY <2>1, <2>2 DEF FoldsBy
<1>11. PICK T : T = [i \in 0..n |-> V]
  OBVIOUS
<1>12. Keeps(n, V, base, G, T)
  BY <1>2, <1>3, <1>4, <1>11 DEF Keeps
<1>13. f[1..n] \in V
  BY <1>3, <1>10, <1>12, FoldStays
<1>. QED
  BY <1>1, <1>9, <1>13

\* select_neighbors takes the first candidate, and not more than there is place for.
LEMMA SelectNeighborsIs ==
  ASSUME NEW g, Graph(g), NEW q \in Queries \cup Points, NEW D \in SUBSET DOMAIN g,
         NEW list \in Seq(D), list # <<>>, NEW max \in Nat \ {0}
  PROVE  LET r == SelectNeighbors(g, q, list, max)
         IN r \in Seq(D) /\ r # <<>> /\ Len(r) <= max
<1>1. PICK base, V : base = <<>> /\ V = {s \in Seq(D) : Len(s) <= max}
  OBVIOUS
<1>2. base \in V
  BY <1>1
<1>. DEFINE Div(c, x) == \A i \in DOMAIN c : Distance(g[x].vec, g[c[i]].vec) >= Distance(q, g[x].vec)
<1>. DEFINE n == Len(list)
            Op(r, x) == IF Len(r) < max /\ Div(r, x) THEN Append(r, x) ELSE r
            G == [p \in (1..n) \X V |-> Op(p[2], list[p[1]])]
            Lit(f) == f = [S \in SUBSET DOMAIN list |->
                             IF S = {} THEN base ELSE Op(f[S \ {Max(S)}], list[Max(S)])]
<1>3. n \in Nat /\ DOMAIN list = 1..n /\ \A i \in 1..n : list[i] \in D
  OBVIOUS
<1>4. ASSUME NEW i \in 1..n, NEW r \in V
      PROVE  G[<<i, r>>] = Op(r, list[i]) /\ G[<<i, r>>] \in V
  <2>1. G[<<i, r>>] = Op(r, list[i])
    OBVIOUS
  <2>2. r \in Seq(D) /\ Len(r) <= max /\ list[i] \in D
    BY <1>1, <1>3
  <2>3. PICK s : s = Append(r, list[i])
    OBVIOUS
  <2>4. s \in Seq(D) /\ Len(s) = Len(r) + 1 /\ Len(r) \in Nat
    BY <2>2, <2>3
  <2>5. Len(r) < max => Len(s) <= max
    BY <2>4
  <2>. HIDE DEF Div
  <2>. QED
    BY <1>1, <2>1, <2>2, <2>3, <2>4, <2>5
<1>. HIDE DEF G, Op, n
<1>5. PICK h0 : Follows(h0, n, V, base, G)
  BY <1>2, <1>3, <1>4, FoldExists
<1>6. Lit(h0)
  <2>1. ASSUME NEW S \in SUBSET (1..n)
        PROVE  h0[S] = IF S = {} THEN base ELSE Op(h0[S \ {Max(S)}], list[Max(S)])
    BY <1>4, <1>5 DEF Follows
  <2>2. h0 = [S \in SUBSET (1..n) |-> h0[S]]
    BY <1>5 DEF Follows
  <2>. QED
    BY <1>3, <2>1, <2>2
<1>7. PICK f : f = CHOOSE e : Lit(e)
  OBVIOUS
<1>8. Lit(f)
  <2>. HIDE DEF Lit
  <2>. QED
    BY <1>6, <1>7
<1>9. ~(Len(list) <= max) => SelectNeighbors(g, q, list, max) = f[1..n]
  <2>. SUFFICES ASSUME ~(Len(list) <= max) PROVE SelectNeighbors(g, q, list, max) = f[1..n]
    OBVIOUS
  <2>1. SelectNeighbors(g, q, list, max) = f[DOMAIN list]
    BY <1>1, <1>7 DEF SelectNeighbors, Div, FoldLeft, MapThenFoldSet, Op
  <2>. QED
    BY <1>3, <2>1
<1>10. FoldsBy(f, n, V, base, G)
  <2>1. ASSUME NEW S \in SUBSET (1..n), S # {}, f[S \ {Max(S)}] \in V
        PROVE  f[S] = G[<<Max(S), f[S \ {Max(S)}]>>]
    <3>1. Max(S) \in 1..n
      BY <1>3, <2>1, GreatestNumber
    <3>2. f[S] = Op(f[S \ {Max(S)}], list[Max(S)])
      BY <1>3, <1>8, <2>1
    <3>. QED
      BY <1>4, <2>1, <3>1, <3>2
  <2>2. f[{}] = base
    BY <1>8
  <2>. QED
    BY <2>1, <2>2 DEF FoldsBy
<1>11. PICK T : T = [i \in 0..n |-> {s \in V : i > 0 => s # <<>>}]
  OBVIOUS
<1>12. Keeps(n, V, base, G, T)
  <2>1. ASSUME NEW i \in 1..n, NEW r \in V, r \in T[i - 1] PROVE G[<<i, r>>] \in T[i]
    <3>1. r # <<>> => Op(r, list[i]) # <<>>
      <4>1. r \in Seq(D) /\ list[i] \in D
        BY <1>1, <1>3
      <4>2. Append(r, list[i]) # <<>>
        BY <4>1
      <4>. QED
        BY <4>2 DEF Op
    <3>2. r = <<>> => Op(r, list[i]) # <<>>
      <4>1. Len(<<>>) < max /\ Div(<<>>, list[i]) /\ Append(<<>>, list[i]) # <<>>
        OBVIOUS
      <4>. QED
        BY <4>1 DEF Op
    <3>3. i \in 0..n
      BY <1>3
    <3>. QED
      BY <1>4, <1>11, <3>1, <3>2, <3>3
  <2>2. base \in T[0]
    BY <1>2, <1>3, <1>11
  <2>. QED
    BY <1>2, <1>4, <2>1, <2>2 DEF Keeps
<1>13. f[1..n] \in V /\ f[1..n] \in T[n]
  BY <1>3, <1>10, <1>12, FoldStays
<1>14. n > 0
  <2>1. n # 0
    BY DEF n
  <2>. QED
    BY <1>3, <2>1
<1>. QED
  <2>1. f[1..n] # <<>>
    <3>1. n \in 0..n
      BY <1>3
    <3>. QED
      BY <1>11, <1>13, <1>14, <3>1
  <2>2. Len(list) <= max => SelectNeighbors(g, q, list, max) = list
    BY DEF SelectNeighbors
  <2>. QED
    BY <1>1, <1>9, <1>13, <2>1, <2>2



-----------------------------------------------------------------------------
(* insert: what joining a new node leaves of the graph g0.                 *)

Alike(n, m) == n.vec = m.vec /\ n.level = m.level /\ n.tombstone = m.tombstone

\* Links are added to the new node, and to the others only links to it.
NewNode(n, g0, v, level) ==
  /\ n.vec = v /\ n.level = level /\ n.tombstone = FALSE
  /\ \A m \in Layers : Linked(n, m) \subseteq DOMAIN g0
MoreLinks(g, g0, id) ==
  \A x \in DOMAIN g0 :
    /\ Alike(g[x], g0[x])
    /\ \A m \in Layers : /\ Linked(g0[x], m) \subseteq Linked(g[x], m)
                         /\ Linked(g[x], m) \subseteq Linked(g0[x], m) \cup {id}
Joining(g0, id, v, level) ==
  {j \in [g : [DOMAIN g0 -> Nodes], node : Nodes, curr : DOMAIN g0] :
     NewNode(j.node, g0, v, level) /\ MoreLinks(j.g, g0, id)}

\* A node that links to the new one has its link back.
LinkedBack(j, g0, id) ==
  \A x \in DOMAIN g0 : \A m \in Layers :
    id \in Linked(j.g[x], m) => id \in Linked(g0[x], m) \/ x \in Linked(j.node, m)

LEMMA Places ==
  ASSUME NEW l \in Layers
  PROVE  MaxConnections(l) \in Nat \ {0}
  BY HnswConstants DEF MaxConnections

LEMMA ConnectIs ==
  ASSUME NEW g0, Graph(g0), NEW id \in Ids, NEW v \in Points, NEW level \in Layers,
         NEW j \in Joining(g0, id, v, level), NEW l \in 0..level, NEW x \in DOMAIN g0
  PROVE  LET r == Connect(j, id, l, x)
         IN /\ r \in Joining(g0, id, v, level)
            /\ \A m \in 0..level : m # l => r.node.links[m] = j.node.links[m]
            /\ Len(j.node.links[l]) < MaxConnections(l) =>
                 /\ Len(r.node.links[l]) <= Len(j.node.links[l]) + 1
                 /\ x \in Linked(r.node, l)
                 /\ LinkedBack(j, g0, id) => LinkedBack(r, g0, id)
<1>1. PICK n, y, a, b : /\ n = j.node /\ y = j.g[x]
                       /\ a = WithLink(n, l, x) /\ b = WithLink(y, l, id)
  OBVIOUS
<1>2. /\ j.g \in [DOMAIN g0 -> Nodes] /\ j.node \in Nodes /\ j.curr \in DOMAIN g0
      /\ NewNode(j.node, g0, v, level) /\ MoreLinks(j.g, g0, id)
  BY DEF Joining
<1>3. PICK h : h = [j.g EXCEPT ![x] = b]
  OBVIOUS
<1>4. Connect(j, id, l, x) = [g |-> h, node |-> a, curr |-> j.curr]
  BY <1>1, <1>3 DEF Connect
<1>5. l \in Layers /\ x \in Ids /\ j.node.level = level /\ j.g[x] \in Nodes
  <2>1. l \in Layers
    BY HnswConstants DEF Layers
  <2>2. x \in Ids
    BY DEF Graph
  <2>3. j.node.level = level
    BY <1>2 DEF NewNode
  <2>. QED
    BY <1>2, <2>1, <2>2, <2>3
<1>6. /\ a \in Nodes /\ Alike(a, j.node)
      /\ \A m \in 0..level : m # l => a.links[m] = j.node.links[m]
      /\ \A m \in Layers : /\ Linked(j.node, m) \subseteq Linked(a, m)
                           /\ Linked(a, m) \subseteq Linked(j.node, m) \cup {x}
      /\ Len(j.node.links[l]) < MaxConnections(l) =>
           x \in Linked(a, l) /\ Len(a.links[l]) <= Len(j.node.links[l]) + 1
  <2>1. n \in Nodes /\ n.level = level /\ x \in Ids
    BY <1>1, <1>2, <1>5
  <2>2. /\ a \in Nodes
        /\ a.vec = n.vec /\ a.level = n.level /\ a.tombstone = n.tombstone
        /\ \A m \in 0..n.level : m # l => a.links[m] = n.links[m]
        /\ \A m \in Layers : /\ Linked(n, m) \subseteq Linked(a, m)
                             /\ Linked(a, m) \subseteq Linked(n, m) \cup {x}
        /\ l \in 0..n.level /\ Len(n.links[l]) < MaxConnections(l) =>
             x \in Linked(a, l) /\ Len(a.links[l]) <= Len(n.links[l]) + 1
    BY <1>1, <1>5, <2>1, WithLinkIs
  <2>. QED
    BY <1>1, <2>1, <2>2 DEF Alike
<1>7. /\ b \in Nodes /\ Alike(b, j.g[x])
      /\ \A m \in Layers : /\ Linked(j.g[x], m) \subseteq Linked(b, m)
                           /\ Linked(b, m) \subseteq Linked(j.g[x], m) \cup {id}
                           /\ m # l => Linked(b, m) = Linked(j.g[x], m)
  <2>1. y \in Nodes /\ l \in Layers /\ id \in Ids /\ b = WithLink(y, l, id)
    BY <1>1, <1>5
  <2>2. /\ b \in Nodes
        /\ b.vec = y.vec /\ b.level = y.level /\ b.tombstone = y.tombstone
        /\ \A m \in Layers : /\ Linked(y, m) \subseteq Linked(b, m)
                             /\ Linked(b, m) \subseteq Linked(y, m) \cup {id}
                             /\ m # l => Linked(b, m) = Linked(y, m)
    BY <2>1, WithLinkIs
  <2>. QED
    BY <1>1, <2>2 DEF Alike
<1>8. h \in [DOMAIN g0 -> Nodes] /\ h[x] = b /\ \A z \in DOMAIN g0 : z # x => h[z] = j.g[z]
  BY <1>2, <1>3, <1>7
<1>9. NewNode(a, g0, v, level)
  BY <1>2, <1>6 DEF NewNode, Alike
<1>10. MoreLinks(h, g0, id)
  <2>1. ASSUME NEW z \in DOMAIN g0
        PROVE  /\ Alike(h[z], g0[z])
               /\ \A m \in Layers : /\ Linked(g0[z], m) \subseteq Linked(h[z], m)
                                    /\ Linked(h[z], m) \subseteq Linked(g0[z], m) \cup {id}
    <3>1. /\ Alike(j.g[z], g0[z])
          /\ \A m \in Layers : /\ Linked(g0[z], m) \subseteq Linked(j.g[z], m)
                               /\ Linked(j.g[z], m) \subseteq Linked(g0[z], m) \cup {id}
      BY <1>2 DEF MoreLinks
    <3>2. CASE z = x
      <4>1. Alike(h[z], g0[z])
        BY <1>7, <1>8, <3>1, <3>2 DEF Alike
      <4>. QED
        BY <1>7, <1>8, <3>1, <3>2, <4>1
    <3>3. CASE z # x
      BY <1>8, <3>1, <3>3
    <3>. QED
      BY <3>2, <3>3
  <2>. QED
    BY <2>1 DEF MoreLinks
<1>11. PICK r : r = [g |-> h, node |-> a, curr |-> j.curr]
  OBVIOUS
<1>12. r \in Joining(g0, id, v, level) /\ r.node = a /\ r.g = h
  BY <1>2, <1>6, <1>8, <1>9, <1>10, <1>11 DEF Joining
<1>13. ASSUME Len(j.node.links[l]) < MaxConnections(l), LinkedBack(j, g0, id)
       PROVE  LinkedBack(r, g0, id)
  <2>. SUFFICES ASSUME NEW z \in DOMAIN g0, NEW m \in Layers, id \in Linked(h[z], m)
                PROVE  id \in Linked(g0[z], m) \/ z \in Linked(a, m)
    BY <1>12 DEF LinkedBack
  <2>1. CASE z = x /\ m = l
    BY <1>6, <1>13, <2>1
  <2>2. CASE ~(z = x /\ m = l)
    <3>1. id \in Linked(j.g[z], m)
      BY <1>7, <1>8, <2>2
    <3>2. id \in Linked(g0[z], m) \/ z \in Linked(j.node, m)
      BY <1>13, <3>1 DEF LinkedBack
    <3>. QED
      BY <1>6, <3>2
  <2>. QED
    BY <2>1, <2>2
<1>. QED
  BY <1>4, <1>6, <1>11, <1>12, <1>13



LEMMA CurrIs ==
  ASSUME NEW g0, NEW id, NEW v, NEW level, NEW j \in Joining(g0, id, v, level),
         NEW c \in DOMAIN g0, NEW r, r = [j EXCEPT !.curr = c]
  PROVE  r \in Joining(g0, id, v, level) /\ r.g = j.g /\ r.node = j.node
<1>1. PICK A : A = [DOMAIN g0 -> Nodes]
  OBVIOUS
<1>2. j \in [g : A, node : Nodes, curr : DOMAIN g0]
  BY <1>1 DEF Joining
<1>3. r \in [g : A, node : Nodes, curr : DOMAIN g0] /\ r.g = j.g /\ r.node = j.node
  BY <1>2
<1>4. NewNode(j.node, g0, v, level) /\ MoreLinks(j.g, g0, id)
  BY DEF Joining
<1>. QED
  BY <1>1, <1>3, <1>4 DEF Joining

\* One layer: the node is linked with its neighbors there, with one at least.
LEMMA JoinLayerIs ==
  ASSUME NEW g0, Graph(g0), NEW id \in Ids, NEW v \in Points, NEW level \in Layers,
         NEW j \in Joining(g0, id, v, level), NEW l \in 0..level
  PROVE  LET r == JoinLayer(j, id, l)
         IN /\ r \in Joining(g0, id, v, level)
            /\ \A m \in 0..level : m # l => r.node.links[m] = j.node.links[m]
            /\ j.node.links[l] = <<>> /\ LinkedBack(j, g0, id) =>
                 LinkedBack(r, g0, id) /\ Linked(r.node, l) # {}
<1>1. PICK candidates, list, base, V :
        /\ candidates = SearchLayer(j.g, j.node.vec, j.curr, EfConstruction, l)
        /\ list = SelectNeighbors(j.g, j.node.vec, candidates, MaxConnections(l))
        /\ base = j
        /\ V = {k \in Joining(g0, id, v, level) :
                  \A m \in 0..level : m # l => k.node.links[m] = j.node.links[m]}
  OBVIOUS
<1>2. base \in V
  BY <1>1
<1>3. /\ list \in Seq(DOMAIN g0) /\ list # <<>> /\ Len(list) <= MaxConnections(l)
       /\ candidates \in Seq(DOMAIN g0) /\ candidates # <<>>
       /\ MaxConnections(l) \in Nat
  <2>1. PICK h, q, c : h = j.g /\ q = j.node.vec /\ c = j.curr
    OBVIOUS
  <2>2. h \in [DOMAIN g0 -> Nodes] /\ q = v /\ c \in DOMAIN g0
    BY <2>1 DEF Joining, NewNode
  <2>3. Graph(h) /\ DOMAIN h = DOMAIN g0
    BY <2>2 DEF Graph
  <2>4. EfConstruction \in Nat \ {0}
    BY HnswConstants
  <2>5. candidates \in Results(h, q, c)
    BY <1>1, <2>1, <2>2, <2>3, <2>4, SearchLayerIs
  <2>6. candidates \in Seq(Live(h, c)) /\ candidates # <<>>
    BY <2>5 DEF Results
  <2>7. Live(h, c) \in SUBSET DOMAIN h
    BY DEF Live
  <2>8. candidates \in Seq(DOMAIN h)
    BY <2>6, <2>7
  <2>9. PICK max : max = MaxConnections(l)
    OBVIOUS
  <2>10. l \in Layers
    BY HnswConstants DEF Layers
  <2>11. max \in Nat \ {0}
    BY <2>9, <2>10, Places
  <2>12. DOMAIN h \in SUBSET DOMAIN h
    OBVIOUS
  <2>13. list = SelectNeighbors(h, q, candidates, max)
    BY <1>1, <2>1, <2>9
  <2>14. list \in Seq(DOMAIN h) /\ list # <<>> /\ Len(list) <= max
    BY <2>2, <2>3, <2>6, <2>8, <2>11, <2>12, <2>13, SelectNeighborsIs
  <2>. QED
    BY <2>3, <2>6, <2>8, <2>9, <2>11, <2>14
<1>4. ASSUME NEW k \in Joining(g0, id, v, level) PROVE Len(k.node.links[l]) \in Nat
  <2>1. k.node \in Nodes /\ k.node.level = level
    BY DEF Joining, NewNode
  <2>2. k.node.links \in [0..level -> Seq(Ids)]
    BY <2>1, NodeIs
  <2>3. k.node.links[l] \in Seq(Ids)
    BY <2>2
  <2>. QED
    BY <2>3
<1>5. Head(candidates) \in DOMAIN g0
  BY <1>3
<1>. DEFINE n == Len(list)
            Op(r, x) == Connect(r, id, l, x)
            G == [p \in (1..n) \X V |-> Op(p[2], list[p[1]])]
            Lit(f) == f = [S \in SUBSET DOMAIN list |->
                             IF S = {} THEN base ELSE Op(f[S \ {Max(S)}], list[Max(S)])]
<1>6. n \in Nat /\ DOMAIN list = 1..n
  BY <1>3
<1>7. ASSUME NEW i \in 1..n, NEW r \in V
      PROVE  G[<<i, r>>] = Op(r, list[i]) /\ G[<<i, r>>] \in V
  <2>1. G[<<i, r>>] = Op(r, list[i])
    OBVIOUS
  <2>2. PICK x, k : x = list[i] /\ k = Connect(r, id, l, x)
    OBVIOUS
  <2>3. x \in DOMAIN g0 /\ r \in Joining(g0, id, v, level)
    BY <1>1, <1>3, <2>2
  <2>4. /\ k \in Joining(g0, id, v, level)
        /\ \A m \in 0..level : m # l => k.node.links[m] = r.node.links[m]
    BY <2>2, <2>3, ConnectIs
  <2>5. k \in V
    BY <1>1, <2>4
  <2>. QED
    BY <2>1, <2>2, <2>5
<1>. HIDE DEF G, Op, n
<1>8. PICK h0 : Follows(h0, n, V, base, G)
  BY <1>2, <1>6, <1>7, FoldExists
<1>9. Lit(h0)
  <2>1. ASSUME NEW S \in SUBSET (1..n)
        PROVE  h0[S] = IF S = {} THEN base ELSE Op(h0[S \ {Max(S)}], list[Max(S)])
    BY <1>7, <1>8 DEF Follows
  <2>2. h0 = [S \in SUBSET (1..n) |-> h0[S]]
    BY <1>8 DEF Follows
  <2>. QED
    BY <1>6, <2>1, <2>2
<1>10. PICK f : f = CHOOSE e : Lit(e)
  OBVIOUS
<1>11. Lit(f)
  <2>. HIDE DEF Lit
  <2>. QED
    BY <1>9, <1>10
<1>12. FoldLeft(LAMBDA k, x : Connect(k, id, l, x), j, list) = f[1..n]
  <2>1. FoldLeft(LAMBDA k, x : Connect(k, id, l, x), j, list) = f[DOMAIN list]
    BY <1>1, <1>10 DEF Connect, FoldLeft, MapThenFoldSet, Op
  <2>. QED
    BY <1>6, <2>1
<1>13. FoldsBy(f, n, V, base, G)
  <2>1. ASSUME NEW S \in SUBSET (1..n), S # {}, f[S \ {Max(S)}] \in V
        PROVE  f[S] = G[<<Max(S), f[S \ {Max(S)}]>>]
    <3>1. Max(S) \in 1..n
      BY <1>6, <2>1, GreatestNumber
    <3>2. f[S] = Op(f[S \ {Max(S)}], list[Max(S)])
      BY <1>6, <1>11, <2>1
    <3>. QED
      BY <1>7, <2>1, <3>1, <3>2
  <2>2. f[{}] = base
    BY <1>11
  <2>. QED
    BY <2>1, <2>2 DEF FoldsBy
<1>. DEFINE OK(k, i) == /\ LinkedBack(k, g0, id) /\ Len(k.node.links[l]) <= i
                        /\ i > 0 => Linked(k.node, l) # {}
            New == j.node.links[l] = <<>> /\ LinkedBack(j, g0, id)
<1>14. PICK T : T = [i \in 0..n |-> {k \in V : New => OK(k, i)}]
  OBVIOUS
<1>15. Keeps(n, V, base, G, T)
  <2>1. ASSUME NEW i \in 1..n, NEW r \in V, r \in T[i - 1] PROVE G[<<i, r>>] \in T[i]
    <3>1. PICK x, k : x = list[i] /\ k = Connect(r, id, l, x)
      OBVIOUS
    <3>2. x \in DOMAIN g0 /\ r \in Joining(g0, id, v, level) /\ G[<<i, r>>] = k /\ k \in V
      BY <1>1, <1>7, <1>3, <3>1 DEF Op, n
    <3>3. New => OK(r, i - 1)
      <4>1. i - 1 \in 0..n
        BY <1>6
      <4>. HIDE DEF OK, New
      <4>. QED
        BY <1>14, <2>1, <4>1
    <3>4. Len(r.node.links[l]) < MaxConnections(l) =>
            /\ Len(k.node.links[l]) <= Len(r.node.links[l]) + 1
            /\ x \in Linked(k.node, l)
            /\ LinkedBack(r, g0, id) => LinkedBack(k, g0, id)
      BY <3>1, <3>2, ConnectIs
    <3>5. Len(r.node.links[l]) \in Nat /\ Len(k.node.links[l]) \in Nat
      BY <1>4, <3>2, <1>1
    <3>6. n <= MaxConnections(l) /\ MaxConnections(l) \in Nat /\ n \in Nat /\ i \in Nat /\ i <= n
      BY <1>6, <1>3 DEF n
    <3>7. ASSUME New PROVE OK(k, i)
      <4>1. LinkedBack(r, g0, id) /\ Len(r.node.links[l]) <= i - 1
        BY <3>3, <3>7
      <4>2. Len(r.node.links[l]) < MaxConnections(l)
        BY <3>5, <3>6, <4>1
      <4>3. Len(k.node.links[l]) <= i
        BY <3>4, <3>5, <3>6, <4>1, <4>2
      <4>. QED
        BY <3>4, <4>1, <4>2, <4>3
    <3>8. i \in 0..n
      BY <1>6
    <3>. HIDE DEF OK, New
    <3>. QED
      BY <1>14, <3>2, <3>7, <3>8
  <2>2. base \in T[0]
    <3>1. New => OK(base, 0)
      <4>1. Len(<<>>) <= 0 /\ ~(0 > 0)
        OBVIOUS
      <4>. QED
        BY <1>1, <4>1
    <3>. HIDE DEF OK, New
    <3>. QED
      BY <1>2, <1>6, <1>14, <3>1
  <2>. QED
    BY <1>2, <1>7, <2>1, <2>2 DEF Keeps
<1>16. f[1..n] \in V /\ f[1..n] \in T[n]
  BY <1>6, <1>13, <1>15, FoldStays
<1>17. PICK k, c, r : k = f[1..n] /\ c = Head(candidates) /\ r = [k EXCEPT !.curr = c]
  OBVIOUS
<1>18. /\ k \in Joining(g0, id, v, level)
       /\ \A m \in 0..level : m # l => k.node.links[m] = j.node.links[m]
  BY <1>1, <1>16, <1>17
<1>19. New => LinkedBack(k, g0, id) /\ Linked(k.node, l) # {}
  <2>1. n \in 0..n /\ n > 0
    BY <1>6, <1>3 DEF n
  <2>2. New => OK(k, n)
    <3>. HIDE DEF OK, New
    <3>. QED
      BY <1>14, <1>16, <1>17, <2>1
  <2>. QED
    BY <2>1, <2>2
<1>20. c \in DOMAIN g0
  BY <1>17, <1>5
<1>21. r \in Joining(g0, id, v, level) /\ r.g = k.g /\ r.node = k.node
  BY <1>17, <1>18, <1>20, CurrIs
<1>22. JoinLayer(j, id, l) = r
  BY <1>1, <1>12, <1>17 DEF JoinLayer
<1>. QED
  BY <1>18, <1>19, <1>21, <1>22 DEF LinkedBack



LEMMA NewNodeIs ==
  ASSUME NEW g0, NEW v \in Points, NEW level \in Layers
  PROVE  /\ Node(v, level) \in Nodes /\ NewNode(Node(v, level), g0, v, level)
         /\ \A m \in 0..level : Node(v, level).links[m] = <<>>
         /\ \A m : Linked(Node(v, level), m) = {}
<1>1. PICK ls, n : ls = [l \in 0..level |-> <<>>] /\ n = Node(v, level)
  OBVIOUS
<1>2. n = [vec |-> v, level |-> level, tombstone |-> FALSE, links |-> ls]
  BY <1>1 DEF Node
<1>3. IsInjective(<<>>) /\ ToSet(<<>>) = {} /\ Len(<<>>) = 0 /\ <<>> \in Seq(Ids)
  BY DEF IsInjective, ToSet
<1>4. \A m \in 0..level : ls[m] = <<>>
  BY <1>1
<1>5. ls \in [0..level -> Seq(Ids)]
  BY <1>1, <1>3
<1>6. \A m \in 0..level : IsInjective(ls[m]) /\ Len(ls[m]) <= MaxConnections(m)
  BY <1>3, <1>4, HnswConstants DEF MaxConnections
<1>7. n \in Nodes
  BY <1>2, <1>5, <1>6, NodeFrom
<1>8. ASSUME NEW m PROVE Linked(n, m) = {}
  BY <1>1, <1>2, <1>3 DEF Linked
<1>9. NewNode(n, g0, v, level)
  BY <1>2, <1>8 DEF NewNode
<1>10. \A m \in 0..level : n.links[m] = <<>>
  BY <1>2, <1>4
<1>. QED
  BY <1>1, <1>7, <1>8, <1>9, <1>10

\* A new node is linked on layer 0, and every node that links to it has its link.
LEMMA JoinedIs ==
  ASSUME NEW s, Graph(s.nodes), s.entry \in DOMAIN s.nodes, s.top \in Layers,
         NEW id \in Ids, NEW v \in Points, NEW level \in Layers
  PROVE  LET j == Joined(s, id, v, level)
         IN /\ j \in Joining(s.nodes, id, v, level)
            /\ LinkedBack(j, s.nodes, id) /\ Linked(j.node, 0) # {}
<1>1. PICK g0, top0, low, start, list, base, V :
        /\ g0 = s.nodes /\ top0 = s.top
        /\ low = IF level < s.top THEN level ELSE s.top
        /\ start = Descend(s.nodes, v, s.entry, s.top, level + 1)
        /\ list = Downwards(low, 0)
        /\ base = [g |-> s.nodes, node |-> Node(v, level), curr |-> start]
        /\ V = Joining(g0, id, v, level)
  OBVIOUS
<1>2. /\ level \in Nat /\ top0 \in Nat /\ low \in Nat /\ low <= level
       /\ Graph(g0) /\ s.entry \in DOMAIN g0
  <2>1. level \in Nat /\ top0 \in Nat
    BY <1>1 DEF Layers
  <2>2. low = IF level < top0 THEN level ELSE top0
    BY <1>1
  <2>. QED
    BY <1>1, <2>1, <2>2
<1>3. start \in DOMAIN g0
  <2>1. start \in Live(g0, s.entry)
    <3>1. PICK e, to : e = s.entry /\ to = level + 1
      OBVIOUS
    <3>2. e \in DOMAIN g0 /\ to \in Int /\ top0 \in Int
      BY <1>2, <3>1
    <3>3. start = Descend(g0, v, e, top0, to)
      BY <1>1, <3>1
    <3>4. start \in Live(g0, e)
      BY <1>2, <3>2, <3>3, DescendIs
    <3>. QED
      BY <3>1, <3>4
  <2>. QED
    BY <2>1 DEF Live
<1>4. base \in V
  <2>1. MoreLinks(g0, g0, id)
    BY DEF MoreLinks, Alike
  <2>2. PICK n : n = Node(v, level)
    OBVIOUS
  <2>3. n \in Nodes /\ NewNode(n, g0, v, level)
    BY <2>2, NewNodeIs
  <2>4. g0 \in [DOMAIN g0 -> Nodes]
    BY <1>2 DEF Graph
  <2>5. base = [g |-> g0, node |-> n, curr |-> start]
    BY <1>1, <2>2
  <2>6. base \in Joining(g0, id, v, level)
    BY <1>3, <2>1, <2>3, <2>4, <2>5 DEF Joining
  <2>. QED
    BY <1>1, <2>6
<1>5. ASSUME NEW i \in 1..(low + 1) PROVE list[i] = low + 1 - i /\ list[i] \in 0..level
  <2>1. low - 0 + 1 = low + 1
    BY <1>2
  <2>2. list = [k \in 1..(low + 1) |-> low + 1 - k]
    BY <1>1, <2>1 DEF Downwards
  <2>3. list[i] = low + 1 - i
    BY <2>2
  <2>. QED
    BY <1>2, <2>3
<1>. DEFINE n == low + 1
            Op(r, x) == JoinLayer(r, id, x)
            G == [p \in (1..n) \X V |-> Op(p[2], list[p[1]])]
            Lit(f) == f = [S \in SUBSET DOMAIN list |->
                             IF S = {} THEN base ELSE Op(f[S \ {Max(S)}], list[Max(S)])]
<1>6. n \in Nat /\ DOMAIN list = 1..n
  <2>1. low - 0 + 1 = low + 1 /\ low - 0 + 1 >= 0
    BY <1>2
  <2>2. DOMAIN list = 1..(low - 0 + 1)
    BY <1>1 DEF Downwards
  <2>. QED
    BY <1>2, <2>1, <2>2
<1>7. ASSUME NEW i \in 1..n, NEW r \in V
      PROVE  G[<<i, r>>] = Op(r, list[i]) /\ G[<<i, r>>] \in V
  <2>1. G[<<i, r>>] = Op(r, list[i])
    OBVIOUS
  <2>2. PICK l, k : l = list[i] /\ k = JoinLayer(r, id, l)
    OBVIOUS
  <2>3. l \in 0..level /\ r \in Joining(g0, id, v, level)
    BY <1>1, <1>5, <2>2
  <2>4. k \in Joining(g0, id, v, level)
    BY <1>2, <2>2, <2>3, JoinLayerIs
  <2>. QED
    BY <1>1, <2>1, <2>2, <2>4
<1>. HIDE DEF G, Op, n
<1>8. PICK h0 : Follows(h0, n, V, base, G)
  BY <1>4, <1>6, <1>7, FoldExists
<1>9. Lit(h0)
  <2>1. ASSUME NEW S \in SUBSET (1..n)
        PROVE  h0[S] = IF S = {} THEN base ELSE Op(h0[S \ {Max(S)}], list[Max(S)])
    BY <1>7, <1>8 DEF Follows
  <2>2. h0 = [S \in SUBSET (1..n) |-> h0[S]]
    BY <1>8 DEF Follows
  <2>. QED
    BY <1>6, <2>1, <2>2
<1>10. PICK f : f = CHOOSE e : Lit(e)
  OBVIOUS
<1>11. Lit(f)
  <2>. HIDE DEF Lit
  <2>. QED
    BY <1>9, <1>10
<1>12. Joined(s, id, v, level) = f[1..n]
  <2>1. Joined(s, id, v, level) = f[DOMAIN list]
    BY <1>1, <1>10 DEF Joined, FoldLeft, MapThenFoldSet, Op
  <2>. QED
    BY <1>6, <2>1
<1>13. FoldsBy(f, n, V, base, G)
  <2>1. ASSUME NEW S \in SUBSET (1..n), S # {}, f[S \ {Max(S)}] \in V
        PROVE  f[S] = G[<<Max(S), f[S \ {Max(S)}]>>]
    <3>1. Max(S) \in 1..n
      BY <1>6, <2>1, GreatestNumber
    <3>2. f[S] = Op(f[S \ {Max(S)}], list[Max(S)])
      BY <1>6, <1>11, <2>1
    <3>. QED
      BY <1>7, <2>1, <3>1, <3>2
  <2>2. f[{}] = base
    BY <1>11
  <2>. QED
    BY <2>1, <2>2 DEF FoldsBy
<1>. DEFINE OK(k, i) == /\ LinkedBack(k, g0, id)
                        /\ \A m \in 0..level : m <= low - i => k.node.links[m] = <<>>
                        /\ i > low => Linked(k.node, 0) # {}
<1>14. PICK T : T = [i \in 0..n |-> {k \in V : OK(k, i)}]
  OBVIOUS
<1>15. Keeps(n, V, base, G, T)
  <2>1. ASSUME NEW i \in 1..n, NEW r \in V, r \in T[i - 1] PROVE G[<<i, r>>] \in T[i]
    <3>1. PICK l, k : l = list[i] /\ k = JoinLayer(r, id, l)
      OBVIOUS
    <3>2. /\ l = low + 1 - i /\ l \in 0..level
          /\ r \in Joining(g0, id, v, level) /\ G[<<i, r>>] = k /\ k \in V
      BY <1>1, <1>7, <1>5, <3>1 DEF Op, n
    <3>3. OK(r, i - 1)
      <4>1. i - 1 \in 0..n
        BY <1>6
      <4>. HIDE DEF OK
      <4>. QED
        BY <1>14, <2>1, <4>1
    <3>4. /\ \A m \in 0..level : m # l => k.node.links[m] = r.node.links[m]
          /\ r.node.links[l] = <<>> /\ LinkedBack(r, g0, id) =>
               LinkedBack(k, g0, id) /\ Linked(k.node, l) # {}
      <4>1. Graph(g0) /\ l \in 0..level /\ r \in Joining(g0, id, v, level)
        BY <1>2, <3>2
      <4>2. LET e == JoinLayer(r, id, l)
            IN /\ \A m \in 0..level : m # l => e.node.links[m] = r.node.links[m]
               /\ r.node.links[l] = <<>> /\ LinkedBack(r, g0, id) =>
                    LinkedBack(e, g0, id) /\ Linked(e.node, l) # {}
        <5>. HIDE DEF OK
        <5>. QED
          BY <4>1, JoinLayerIs
      <4>. QED
        BY <3>1, <4>2
    <3>5. i \in Nat /\ i >= 1 /\ i <= low + 1 /\ low \in Nat
      BY <1>2 DEF n
    <3>6. l <= low - (i - 1) /\ \A m \in 0..level : m <= low - i => m # l /\ m <= low - (i - 1)
      BY <3>2, <3>5
    <3>7. LinkedBack(k, g0, id) /\ Linked(k.node, l) # {}
      BY <3>2, <3>3, <3>4, <3>6
    <3>8. \A m \in 0..level : m <= low - i => k.node.links[m] = <<>>
      BY <3>3, <3>4, <3>6
    <3>9. i > low => l = 0
      BY <3>2, <3>5
    <3>10. OK(k, i)
      BY <3>7, <3>8, <3>9
    <3>11. i \in 0..n
      BY <1>6
    <3>. HIDE DEF OK
    <3>. QED
      BY <1>14, <3>2, <3>10, <3>11
  <2>2. base \in T[0]
    <3>1. OK(base, 0)
      <4>1. LinkedBack(base, g0, id)
        BY <1>1 DEF LinkedBack
      <4>2. \A m \in 0..level : base.node.links[m] = <<>>
        BY <1>1, NewNodeIs
      <4>3. ~(0 > low)
        BY <1>2
      <4>. QED
        BY <4>1, <4>2, <4>3
    <3>. HIDE DEF OK
    <3>. QED
      BY <1>4, <1>6, <1>14, <3>1
  <2>. QED
    BY <1>4, <1>7, <2>1, <2>2 DEF Keeps
<1>16. f[1..n] \in V /\ f[1..n] \in T[n]
  BY <1>6, <1>13, <1>15, FoldStays
<1>17. OK(f[1..n], n)
  <2>1. n \in 0..n
    BY <1>6
  <2>. HIDE DEF OK
  <2>. QED
    BY <1>14, <1>16, <2>1
<1>18. n > low
  BY <1>2 DEF n
<1>. QED
  BY <1>1, <1>12, <1>16, <1>17, <1>18



-----------------------------------------------------------------------------
(* remove.                                                                 *)

\* Links lead to nodes of the graph, and back.
MutualLinks(g) ==
  \A x \in DOMAIN g : \A l \in Layers : \A y \in Linked(g[x], l) :
    y \in DOMAIN g /\ x \in Linked(g[y], l)

GraphOK(g, e, t) ==
  /\ Graph(g) /\ t \in Layers
  /\ e \in Ids \cup {None}
  /\ e = None <=> DOMAIN g = {}
  /\ e # None => e \in DOMAIN g
  /\ \A x \in DOMAIN g : g[x].level <= t

LEMMA LinkedIs ==
  ASSUME NEW n \in Nodes, NEW l
  PROVE  /\ l \in 0..n.level => /\ n.links[l] \in Seq(Ids) /\ Linked(n, l) = ToSet(n.links[l])
         /\ l \notin 0..n.level => Linked(n, l) = {}
<1>1. n.links \in [0..n.level -> Seq(Ids)]
  BY NodeIs
<1>. QED
  BY <1>1 DEF Linked

LEMMA UnlinkedIs ==
  ASSUME NEW g, Graph(g), NEW id \in DOMAIN g
  PROVE  LET h == Unlinked(g, id)
         IN /\ Graph(h) /\ DOMAIN h = DOMAIN g \ {id}
            /\ \A y \in DOMAIN h :
                 /\ Alike(h[y], g[y])
                 /\ \A l \in Layers :
                      Linked(h[y], l) = IF y \in Linked(g[id], l) THEN Linked(g[y], l) \ {id}
                                                                  ELSE Linked(g[y], l)
<1>1. PICK h, D : h = Unlinked(g, id) /\ D = DOMAIN g \ {id}
  OBVIOUS
<1>2. /\ D \subseteq Ids /\ IsFiniteSet(D) /\ id \in Ids
      /\ \A y \in DOMAIN g : g[y] \in Nodes
  <2>1. IsFiniteSet(D)
    BY <1>1, FS_Subset DEF Graph
  <2>. QED
    BY <1>1, <2>1 DEF Graph
<1>3. DOMAIN h = D
  BY <1>1 DEF Unlinked
<1>4. ASSUME NEW y \in D
      PROVE  /\ h[y] \in Nodes /\ Alike(h[y], g[y])
             /\ \A l \in Layers :
                  Linked(h[y], l) = IF y \in Linked(g[id], l) THEN Linked(g[y], l) \ {id}
                                                              ELSE Linked(g[y], l)
  <2>1. PICK n, ls, r : /\ n = g[y] /\ r = h[y]
                        /\ ls = [l \in DOMAIN n.links |-> WithoutLink(g, y, l, id)]
    OBVIOUS
  <2>2. n \in Nodes /\ y \in DOMAIN g
    BY <1>1, <1>2, <2>1
  <2>3. n.links \in [0..n.level -> Seq(Ids)] /\ n.level \in Layers
    BY <2>2, NodeIs
  <2>4. r = [n EXCEPT !.links = ls]
    <3>1. h[y] = [g[y] EXCEPT !.links = [l \in DOMAIN g[y].links |-> WithoutLink(g, y, l, id)]]
      BY <1>1 DEF Unlinked
    <3>. QED
      BY <2>1, <3>1
  <2>5. ASSUME NEW l \in 0..n.level
        PROVE  /\ ls[l] \in Seq(Ids) /\ IsInjective(ls[l]) /\ Len(ls[l]) <= MaxConnections(l)
               /\ ToSet(ls[l]) = IF y \in Linked(g[id], l) THEN Linked(n, l) \ {id}
                                                           ELSE Linked(n, l)
    <3>1. PICK list, d : list = n.links[l] /\ d = Dropped(list, id)
      OBVIOUS
    <3>2. /\ list \in Seq(Ids) /\ IsInjective(list) /\ Len(list) <= MaxConnections(l)
          /\ ToSet(list) = Linked(n, l)
      BY <2>2, <3>1, NodeIs, LinkedIs
    <3>3. /\ d \in Seq(Ids) /\ Len(d) <= Len(list) /\ ToSet(d) = ToSet(list) \ {id}
          /\ IsInjective(d)
      BY <3>1, <3>2, DroppedIs
    <3>4. Contains(Links(g, id, l), y) <=> y \in Linked(g[id], l)
      <4>1. Links(g, id, l) \in Seq(Ids) /\ ToSet(Links(g, id, l)) = Linked(g[id], l)
        BY LinksAre
      <4>. QED
        BY <4>1, ContainsIs
    <3>5. ls[l] = IF y \in Linked(g[id], l) THEN d ELSE list
      <4>1. ls[l] = WithoutLink(g, y, l, id)
        BY <2>1, <2>3
      <4>. QED
        BY <2>1, <3>1, <3>4, <4>1 DEF WithoutLink
    <3>6. Len(d) <= MaxConnections(l)
      <4>1. l \in Layers
        BY <2>3, HnswConstants DEF Layers
      <4>2. MaxConnections(l) \in Nat /\ Len(d) \in Nat /\ Len(list) \in Nat
        BY <3>2, <3>3, <4>1, Places
      <4>. QED
        BY <3>2, <3>3, <4>2
    <3>. QED
      BY <3>2, <3>3, <3>5, <3>6
  <2>6. ls \in [0..n.level -> Seq(Ids)]
    BY <2>1, <2>3, <2>5
  <2>7. /\ r \in Nodes /\ r.links = ls
        /\ r.vec = n.vec /\ r.level = n.level /\ r.tombstone = n.tombstone
    <3>1. ListsOK(ls, n.level)
      BY <2>5, <2>6 DEF ListsOK
    <3>. QED
      BY <2>2, <2>4, <3>1, NodeWithLinks
  <2>8. ASSUME NEW l \in Layers
        PROVE  Linked(r, l) = IF y \in Linked(g[id], l) THEN Linked(n, l) \ {id}
                                                        ELSE Linked(n, l)
    <3>1. CASE l \in 0..n.level
      BY <2>5, <2>7, <3>1, LinkedIs
    <3>2. CASE l \notin 0..n.level
      BY <2>2, <2>7, <3>2, LinkedIs
    <3>. QED
      BY <3>1, <3>2
  <2>. QED
    BY <2>1, <2>7, <2>8 DEF Alike
<1>5. h \in [D -> Nodes]
  <2>1. h = [y \in D |-> h[y]]
    BY <1>1 DEF Unlinked
  <2>. QED
    BY <1>4, <2>1
<1>6. Graph(h)
  BY <1>2, <1>3, <1>5 DEF Graph
<1>. QED
  BY <1>1, <1>3, <1>4, <1>6

LEMMA UnlinkedMutual ==
  ASSUME NEW g, Graph(g), MutualLinks(g), NEW id \in DOMAIN g, NEW h, h = Unlinked(g, id)
  PROVE  /\ MutualLinks(h)
         /\ \A x \in DOMAIN h : \A l \in Layers : id \notin Linked(h[x], l)
<1>1. /\ DOMAIN h = DOMAIN g \ {id}
      /\ \A y \in DOMAIN h : \A l \in Layers :
           Linked(h[y], l) = IF y \in Linked(g[id], l) THEN Linked(g[y], l) \ {id}
                                                       ELSE Linked(g[y], l)
  BY UnlinkedIs
<1>2. ASSUME NEW x \in DOMAIN h, NEW l \in Layers
      PROVE  Linked(h[x], l) = Linked(g[x], l) \ {id}
  <2>1. id \in Linked(g[x], l) => x \in Linked(g[id], l)
    BY <1>1 DEF MutualLinks
  <2>. QED
    BY <1>1, <2>1
<1>3. ASSUME NEW x \in DOMAIN h, NEW l \in Layers, NEW y \in Linked(h[x], l)
      PROVE  y \in DOMAIN h /\ x \in Linked(h[y], l)
  <2>1. y \in Linked(g[x], l) /\ y # id /\ x \in DOMAIN g /\ x # id
    BY <1>1, <1>2
  <2>2. y \in DOMAIN g /\ x \in Linked(g[y], l)
    BY <2>1 DEF MutualLinks
  <2>. QED
    BY <1>1, <1>2, <2>1, <2>2
<1>. QED
  BY <1>2, <1>3 DEF MutualLinks



LEMMA NewTopIs ==
  ASSUME NEW g, Graph(g), DOMAIN g # {}, NEW e
  PROVE  /\ NewTop(g, e) \in Layers
         /\ \A x \in DOMAIN g : g[x].level <= NewTop(g, e)
<1>1. PICK S : S = Levels(g)
  OBVIOUS
<1>2. S \in SUBSET Layers /\ S # {} /\ \A x \in DOMAIN g : g[x].level \in S
  <2>1. \A x \in DOMAIN g : g[x].level \in Layers
    BY NodeIs DEF Graph
  <2>. QED
    BY <1>1, <2>1 DEF Levels
<1>. DEFINE U == {MaxLevel - k : k \in S}
<1>3. MaxLevel \in Nat /\ \A k \in S : k \in Nat /\ k <= MaxLevel
  BY <1>2, HnswConstants DEF Layers
<1>4. U \in SUBSET Nat /\ U # {}
  BY <1>2, <1>3
<1>5. PICK u \in U : \A w \in U : u <= w
  <2>. HIDE DEF U
  <2>. QED
    BY <1>4, LeastNumber
<1>6. PICK n \in S : u = MaxLevel - n
  OBVIOUS
<1>7. ASSUME NEW k \in S PROVE k <= n
  <2>1. u <= MaxLevel - k
    BY <1>5
  <2>. QED
    BY <1>3, <1>6, <2>1
<1>8. PICK t : t = NewTop(g, e)
  OBVIOUS
<1>9. t \in S /\ \A k \in S : k <= t
  BY <1>1, <1>7, <1>8 DEF NewTop
<1>. QED
  BY <1>2, <1>8, <1>9

LEMMA WithoutIs ==
  ASSUME GraphOK(nodes, entry, top), NEW id \in DOMAIN nodes, NEW s \in Without(id)
  PROVE  s.nodes = Unlinked(nodes, id) /\ GraphOK(s.nodes, s.entry, s.top)
<1>1. PICK g : g = Unlinked(nodes, id)
  OBVIOUS
<1>2. /\ Graph(nodes) /\ top \in Layers /\ entry \in Ids \cup {None}
      /\ entry \in DOMAIN nodes
      /\ \A x \in DOMAIN nodes : nodes[x].level <= top
  BY DEF GraphOK
<1>3. /\ Graph(g) /\ DOMAIN g = DOMAIN nodes \ {id}
      /\ \A y \in DOMAIN g : Alike(g[y], nodes[y])
  BY <1>1, <1>2, UnlinkedIs
<1>4. DOMAIN g \subseteq Ids /\ None \notin DOMAIN g
  BY <1>3, HnswConstants DEF Graph
<1>5. CASE entry # id
  <2>1. s = [nodes |-> g, entry |-> entry, top |-> top]
    BY <1>1, <1>5 DEF Without
  <2>2. \A x \in DOMAIN g : g[x].level <= top
    BY <1>2, <1>3 DEF Alike
  <2>3. entry \in DOMAIN g
    BY <1>2, <1>3, <1>5
  <2>4. GraphOK(g, entry, top)
    BY <1>2, <1>3, <1>4, <2>2, <2>3 DEF GraphOK
  <2>. QED
    BY <1>1, <2>1, <2>4
<1>6. CASE entry = id /\ DOMAIN g = {}
  <2>1. s = [nodes |-> g, entry |-> None, top |-> 0]
    BY <1>1, <1>6 DEF Without
  <2>2. 0 \in Layers
    BY HnswConstants DEF Layers
  <2>3. GraphOK(g, None, 0)
    BY <1>3, <1>6, <2>2 DEF GraphOK
  <2>. QED
    BY <1>1, <2>1, <2>3
<1>7. CASE entry = id /\ DOMAIN g # {}
  <2>1. PICK e \in DOMAIN g : s = [nodes |-> g, entry |-> e, top |-> NewTop(g, e)]
    BY <1>1, <1>7 DEF Without
  <2>2. /\ NewTop(g, e) \in Layers
        /\ \A x \in DOMAIN g : g[x].level <= NewTop(g, e)
    BY <1>3, <1>7, NewTopIs
  <2>3. GraphOK(g, e, NewTop(g, e))
    BY <1>3, <1>4, <2>2 DEF GraphOK
  <2>. QED
    BY <1>1, <2>1, <2>3
<1>. QED
  BY <1>5, <1>6, <1>7

\* Before an insert: the id is not in the graph, and no list has it.
LEMMA ClearedIs ==
  ASSUME GraphOK(nodes, entry, top), NEW id \in Ids, NEW s \in Cleared(id)
  PROVE  /\ GraphOK(s.nodes, s.entry, s.top) /\ id \notin DOMAIN s.nodes
         /\ MutualLinks(nodes) =>
              /\ MutualLinks(s.nodes)
              /\ \A x \in DOMAIN s.nodes : \A l \in Layers : id \notin Linked(s.nodes[x], l)
         /\ id \notin DOMAIN nodes => s.nodes = nodes /\ s.entry = entry
<1>1. Graph(nodes)
  BY DEF GraphOK
<1>2. CASE id \in DOMAIN nodes
  <2>1. s \in Without(id)
    BY <1>2 DEF Cleared
  <2>2. PICK h : h = s.nodes
    OBVIOUS
  <2>3. h = Unlinked(nodes, id) /\ GraphOK(s.nodes, s.entry, s.top)
    BY <1>2, <2>1, <2>2, WithoutIs
  <2>4. DOMAIN h = DOMAIN nodes \ {id}
    BY <2>3 DEF Unlinked
  <2>5. MutualLinks(nodes) =>
          /\ MutualLinks(h)
          /\ \A x \in DOMAIN h : \A l \in Layers : id \notin Linked(h[x], l)
    BY <1>1, <1>2, <2>3, UnlinkedMutual
  <2>. QED
    BY <1>2, <2>2, <2>3, <2>4, <2>5
<1>3. CASE id \notin DOMAIN nodes
  <2>1. s = [nodes |-> nodes, entry |-> entry, top |-> top]
    BY <1>3 DEF Cleared
  <2>2. MutualLinks(nodes) =>
          \A x \in DOMAIN nodes : \A l \in Layers : id \notin Linked(nodes[x], l)
    BY <1>3 DEF MutualLinks
  <2>. QED
    BY <1>3, <2>1, <2>2
<1>. QED
  BY <1>2, <1>3



-----------------------------------------------------------------------------
(* insert: the graph after it.                                             *)

\* On layer 0 the links lead from e to every node of g.
Reach(g, e) ==
  \A S \in SUBSET DOMAIN g :
    e \in S /\ (\A x \in S : Linked(g[x], 0) \cap DOMAIN g \subseteq S) => S = DOMAIN g

LEMMA WithIs ==
  ASSUME NEW g, Graph(g), NEW id \in Ids, NEW n \in Nodes
  PROVE  LET h == With(g, id, n)
         IN /\ Graph(h) /\ DOMAIN h = DOMAIN g \cup {id} /\ h[id] = n
            /\ \A x \in DOMAIN g : x # id => h[x] = g[x]
<1>1. PICK h : h = With(g, id, n)
  OBVIOUS
<1>2. /\ DOMAIN h = DOMAIN g \cup {id} /\ h[id] = n
      /\ \A x \in DOMAIN g : x # id => h[x] = g[x]
  BY <1>1 DEF With
<1>3. h \in [DOMAIN h -> Nodes]
  BY <1>1 DEF With, Graph
<1>4. IsFiniteSet(DOMAIN g \cup {id})
  BY FS_AddElement DEF Graph
<1>. QED
  BY <1>1, <1>2, <1>3, <1>4 DEF Graph

LEMMA FirstIs ==
  ASSUME NEW s, GraphOK(s.nodes, s.entry, s.top), s.entry = None, NEW id \in Ids,
         NEW v \in Points, NEW level \in Layers,
         NEW h, h = With(s.nodes, id, Node(v, level))
  PROVE  GraphOK(h, id, level) /\ MutualLinks(h) /\ Reach(h, id)
<1>1. PICK g, n : g = s.nodes /\ n = Node(v, level)
  OBVIOUS
<1>2. Graph(g) /\ DOMAIN g = {}
  BY <1>1 DEF GraphOK
<1>3. n \in Nodes /\ n.level = level /\ \A m : Linked(n, m) = {}
  BY <1>1, NewNodeIs DEF NewNode
<1>4. Graph(h) /\ DOMAIN h = {id} /\ h[id] = n
  <2>1. h = With(g, id, n)
    BY <1>1
  <2>2. LET e == With(g, id, n)
        IN Graph(e) /\ DOMAIN e = DOMAIN g \cup {id} /\ e[id] = n
    <3>1. Graph(g) /\ n \in Nodes
      BY <1>2, <1>3
    <3>. QED
      BY <3>1, WithIs
  <2>. QED
    BY <1>2, <2>1, <2>2
<1>5. GraphOK(h, id, level)
  <2>1. level <= level /\ id # None
    BY HnswConstants DEF Layers
  <2>. QED
    BY <1>3, <1>4, <2>1 DEF GraphOK
<1>6. MutualLinks(h)
  BY <1>3, <1>4 DEF MutualLinks
<1>7. Reach(h, id)
  BY <1>4 DEF Reach
<1>. QED
  BY <1>5, <1>6, <1>7

LEMMA OneWayIs ==
  ASSUME NEW g0, NEW id \in Ids, NEW v, NEW level \in Layers, Graph(g0),
         NEW j \in Joining(g0, id, v, level), ~OneWay(j, id),
         NEW l \in Layers, NEW x \in Linked(j.node, l)
  PROVE  x \in DOMAIN g0 /\ id \in Linked(j.g[x], l)
<1>1. PICK g, n : g = j.g /\ n = j.node
  OBVIOUS
<1>2. g \in [DOMAIN g0 -> Nodes] /\ n \in Nodes /\ NewNode(n, g0, v, level)
  BY <1>1 DEF Joining
<1>3. x \in DOMAIN g0
  BY <1>1, <1>2 DEF NewNode
<1>4. l \in DOMAIN n.links /\ x \in ToSet(n.links[l])
  BY <1>1 DEF Linked
<1>5. Contains(Links(g, x, l), id)
  BY <1>1, <1>4 DEF OneWay
<1>6. Graph(g) /\ DOMAIN g = DOMAIN g0
  BY <1>2 DEF Graph
<1>7. Links(g, x, l) \in Seq(Ids) /\ ToSet(Links(g, x, l)) = Linked(g[x], l)
  BY <1>3, <1>6, LinksAre
<1>8. id \in ToSet(Links(g, x, l))
  BY <1>5, <1>7, ContainsIs
<1>. QED
  BY <1>1, <1>3, <1>7, <1>8

\* Links were mutual, and they are when every neighbor took the link back.
LEMMA JoinedMutual ==
  ASSUME NEW g0, Graph(g0), MutualLinks(g0), NEW id \in Ids \ DOMAIN g0, NEW v \in Points,
         NEW level \in Layers,
         \A x \in DOMAIN g0 : \A l \in Layers : id \notin Linked(g0[x], l),
         NEW j \in Joining(g0, id, v, level), LinkedBack(j, g0, id), ~OneWay(j, id),
         NEW h, DOMAIN h = DOMAIN g0 \cup {id}, h[id] = j.node,
         \A x \in DOMAIN g0 : h[x] = j.g[x]
  PROVE  MutualLinks(h)
<1>1. MoreLinks(j.g, g0, id)
  BY DEF Joining
<1>2. ASSUME NEW l \in Layers, NEW y \in Linked(h[id], l)
      PROVE  y \in DOMAIN h /\ id \in Linked(h[y], l)
  BY <1>2, OneWayIs
<1>3. ASSUME NEW x \in DOMAIN g0, NEW l \in Layers, NEW y \in Linked(h[x], l)
      PROVE  y \in DOMAIN h /\ x \in Linked(h[y], l)
  <2>1. y \in Linked(g0[x], l) \/ y = id
    BY <1>1, <1>3 DEF MoreLinks
  <2>2. CASE y \in Linked(g0[x], l)
    <3>1. y \in DOMAIN g0 /\ x \in Linked(g0[y], l)
      BY <2>2 DEF MutualLinks
    <3>2. x \in Linked(j.g[y], l)
      BY <1>1, <3>1 DEF MoreLinks
    <3>. QED
      BY <3>1, <3>2
  <2>3. CASE y = id
    <3>1. x \in Linked(j.node, l)
      BY <1>3, <2>3 DEF LinkedBack
    <3>. QED
      BY <2>3, <3>1
  <2>. QED
    BY <2>1, <2>2, <2>3
<1>. QED
  BY <1>2, <1>3 DEF MutualLinks



\* h is g0 with one node more, and no link less on layer 0.
Grown(h, g0, id) ==
  /\ id \notin DOMAIN g0 /\ DOMAIN h = DOMAIN g0 \cup {id}
  /\ \A x \in DOMAIN g0 : Linked(g0[x], 0) \subseteq Linked(h[x], 0)

\* Every node was reached, and is when the new one is linked.
LEMMA JoinedReach ==
  ASSUME NEW g0, MutualLinks(g0), NEW e0 \in DOMAIN g0, Reach(g0, e0),
         NEW id, NEW e \in {e0, id}, NEW h, Grown(h, g0, id), MutualLinks(h),
         NEW x \in Linked(h[id], 0), x \in DOMAIN g0
  PROVE  Reach(h, e)
<1>. USE DEF Grown
<1>. SUFFICES ASSUME NEW S \in SUBSET DOMAIN h, e \in S,
                     \A y \in S : Linked(h[y], 0) \cap DOMAIN h \subseteq S
              PROVE  S = DOMAIN h
  BY DEF Reach
<1>1. 0 \in Layers
  BY HnswConstants DEF Layers
<1>2. id \in S <=> x \in S
  <2>1. id \in Linked(h[x], 0)
    BY <1>1 DEF MutualLinks
  <2>. QED
    BY <2>1
<1>3. ASSUME NEW y \in DOMAIN g0, NEW z \in Linked(g0[y], 0) \cap DOMAIN g0, y \in S
      PROVE  z \in S
  BY <1>3
<1>4. CASE e0 \in S
  <2>1. PICK R : R = S \cap DOMAIN g0
    OBVIOUS
  <2>2. \A y \in R : Linked(g0[y], 0) \cap DOMAIN g0 \subseteq R
    BY <1>3, <2>1
  <2>3. R = DOMAIN g0
    BY <1>4, <2>1, <2>2 DEF Reach
  <2>. QED
    BY <1>2, <2>1, <2>3
<1>5. CASE e0 \notin S
  <2>1. PICK R : R = DOMAIN g0 \ S
    OBVIOUS
  <2>2. ASSUME NEW y \in R, NEW z \in Linked(g0[y], 0) \cap DOMAIN g0 PROVE z \in R
    <3>1. y \in Linked(g0[z], 0) /\ y \in DOMAIN g0 /\ y \notin S
      BY <1>1, <2>1 DEF MutualLinks
    <3>. QED
      BY <1>3, <2>1, <3>1
  <2>3. R = DOMAIN g0
    BY <1>5, <2>1, <2>2 DEF Reach
  <2>. QED
    BY <1>2, <1>5, <2>1, <2>3
<1>. QED
  BY <1>4, <1>5

LEMMA NextIs ==
  ASSUME NEW s, GraphOK(s.nodes, s.entry, s.top), s.entry # None,
         NEW id \in Ids, id \notin DOMAIN s.nodes, NEW v \in Points, NEW level \in Layers,
         NEW j, j = Joined(s, id, v, level), NEW h, h = With(j.g, id, j.node),
         NEW e, e = IF level > s.top THEN id ELSE s.entry,
         NEW t, t = IF level > s.top THEN level ELSE s.top
  PROVE  /\ GraphOK(h, e, t)
         /\ /\ MutualLinks(s.nodes) /\ ~OneWay(j, id)
            /\ \A x \in DOMAIN s.nodes : \A l \in Layers : id \notin Linked(s.nodes[x], l)
            => MutualLinks(h) /\ (Reach(s.nodes, s.entry) => Reach(h, e))
<1>1. PICK g0, e0, t0, g, n : /\ g0 = s.nodes /\ e0 = s.entry /\ t0 = s.top
                              /\ g = j.g /\ n = j.node
  OBVIOUS
<1>2. /\ Graph(g0) /\ e0 \in DOMAIN g0 /\ t0 \in Layers
      /\ \A x \in DOMAIN g0 : g0[x].level <= t0
  BY <1>1 DEF GraphOK
<1>3. j \in Joining(g0, id, v, level) /\ LinkedBack(j, g0, id) /\ Linked(n, 0) # {}
  BY <1>1, <1>2, JoinedIs
<1>4. /\ g \in [DOMAIN g0 -> Nodes] /\ n \in Nodes
      /\ NewNode(n, g0, v, level) /\ MoreLinks(g, g0, id)
  BY <1>1, <1>3 DEF Joining
<1>5. Graph(g) /\ DOMAIN g = DOMAIN g0
  BY <1>2, <1>4 DEF Graph
<1>6. /\ Graph(h) /\ DOMAIN h = DOMAIN g0 \cup {id} /\ h[id] = n
      /\ \A x \in DOMAIN g0 : h[x] = g[x]
  <2>1. h = With(g, id, n)
    BY <1>1
  <2>2. LET f == With(g, id, n)
        IN /\ Graph(f) /\ DOMAIN f = DOMAIN g \cup {id} /\ f[id] = n
           /\ \A x \in DOMAIN g : x # id => f[x] = g[x]
    BY <1>4, <1>5, WithIs
  <2>3. id \notin DOMAIN g0
    BY <1>1
  <2>. QED
    BY <1>5, <2>1, <2>2, <2>3
<1>7. GraphOK(h, e, t)
  <2>1. t \in Layers /\ level <= t /\ t0 <= t /\ t \in Int /\ t0 \in Int
    <3>1. level \in Int /\ t0 \in Int /\ level \in Layers /\ t = IF level > t0 THEN level ELSE t0
      BY <1>1, <1>2 DEF Layers
    <3>. QED
      BY <1>2, <3>1
  <2>2. ASSUME NEW x \in DOMAIN g0 PROVE h[x].level <= t
    <3>1. h[x].level = g0[x].level /\ g0[x].level <= t0 /\ g0[x].level \in Layers
      BY <1>2, <1>4, <1>6, NodeIs DEF MoreLinks, Alike, Graph
    <3>. QED
      BY <2>1, <3>1 DEF Layers
  <2>3. h[id].level <= t
    BY <1>4, <1>6, <2>1 DEF NewNode
  <2>4. e \in DOMAIN h /\ e # None /\ e \in Ids
    BY <1>1, <1>2, <1>6, HnswConstants DEF Graph
  <2>. QED
    BY <1>6, <2>1, <2>2, <2>3, <2>4 DEF GraphOK
<1>8. ASSUME MutualLinks(g0), ~OneWay(j, id),
             \A x \in DOMAIN g0 : \A l \in Layers : id \notin Linked(g0[x], l)
      PROVE  MutualLinks(h) /\ (Reach(g0, e0) => Reach(h, e))
  <2>1. MutualLinks(h)
    BY <1>1, <1>2, <1>3, <1>6, <1>8, JoinedMutual
  <2>2. PICK x : x \in Linked(n, 0)
    BY <1>3
  <2>3. x \in DOMAIN g0 /\ x \in Linked(h[id], 0)
    <3>1. 0 \in Layers
      BY HnswConstants DEF Layers
    <3>. QED
      BY <1>4, <1>6, <2>2, <3>1 DEF NewNode
  <2>4. ASSUME NEW y \in DOMAIN g0 PROVE Linked(g0[y], 0) \subseteq Linked(h[y], 0)
    <3>1. 0 \in Layers
      BY HnswConstants DEF Layers
    <3>. QED
      BY <1>4, <1>6, <3>1 DEF MoreLinks
  <2>5. e \in {e0, id} /\ id \notin DOMAIN g0
    BY <1>1
  <2>6. Grown(h, g0, id)
    BY <1>6, <2>4, <2>5 DEF Grown
  <2>7. Reach(g0, e0) => Reach(h, e)
    BY <1>2, <1>8, <2>1, <2>3, <2>5, <2>6, JoinedReach
  <2>. QED
    BY <2>1, <2>7
<1>. QED
  BY <1>1, <1>7, <1>8



-----------------------------------------------------------------------------
(* The theorems.                                                           *)

IndInv ==
  /\ GraphOK(nodes, entry, top)
  /\ page \in [entry : Ids \cup {None}, top : 0..MaxLevel]
  /\ refused \in BOOLEAN /\ removals \in 0..MaxRemovals
  /\ ~refused => MutualLinks(nodes)
  /\ ~refused /\ removals = 0 => Reach(nodes, entry)

LEMMA EmptyIs ==
  ASSUME NEW g, g = <<>>, NEW e, e = None, NEW t, t = 0
  PROVE  GraphOK(g, e, t) /\ MutualLinks(g) /\ Reach(g, e)
<1>1. DOMAIN g = {} /\ IsFiniteSet(DOMAIN g) /\ g \in [{} -> Nodes]
  BY FS_EmptySet
<1>2. Graph(g) /\ 0 \in Layers
  BY <1>1, HnswConstants DEF Graph, Layers
<1>3. GraphOK(g, e, t)
  BY <1>1, <1>2 DEF GraphOK
<1>. QED
  BY <1>1, <1>3 DEF MutualLinks, Reach

LEMMA SaveKeeps ==
  ASSUME GraphOK(nodes, entry, top)', Save
  PROVE  page' \in [entry : Ids \cup {None}, top : 0..MaxLevel]
  BY DEF Save, GraphOK, Layers

LEMMA InsertFirstKeeps ==
  ASSUME IndInv, NEW id \in Ids, NEW v \in Points, NEW level \in 0..MaxLevel,
         InsertFirst(id, v, level)
  PROVE  /\ GraphOK(nodes, entry, top)' /\ MutualLinks(nodes)' /\ Reach(nodes, entry)'
         /\ refused' = refused
<1>1. PICK s \in Cleared(id) :
        /\ s.entry = None
        /\ nodes' = With(s.nodes, id, Node(v, level))
        /\ entry' = id /\ top' = level /\ refused' = refused
  BY DEF InsertFirst
<1>2. GraphOK(s.nodes, s.entry, s.top)
  BY <1>1, ClearedIs DEF IndInv
<1>3. PICK h : h = With(s.nodes, id, Node(v, level))
  OBVIOUS
<1>4. level \in Layers
  BY DEF Layers
<1>5. GraphOK(h, id, level) /\ MutualLinks(h) /\ Reach(h, id)
  BY <1>1, <1>2, <1>3, <1>4, FirstIs
<1>6. nodes' = h
  BY <1>1, <1>3
<1>. QED
  BY <1>1, <1>5, <1>6 DEF GraphOK, Graph, MutualLinks, Reach, Linked

LEMMA InsertNextKeeps ==
  ASSUME IndInv, NEW id \in Ids, NEW v \in Points, NEW level \in 0..MaxLevel,
         InsertNext(id, v, level)
  PROVE  /\ GraphOK(nodes, entry, top)'
         /\ refused' \in BOOLEAN
         /\ ~refused' => ~refused /\ MutualLinks(nodes)'
         /\ ~refused' /\ removals = 0 /\ id \notin DOMAIN nodes => Reach(nodes, entry)'
<1>1. PICK s \in Cleared(id) :
        /\ s.entry # None
        /\ nodes' = With(Joined(s, id, v, level).g, id, Joined(s, id, v, level).node)
        /\ entry' = IF level > s.top THEN id ELSE s.entry
        /\ top' = IF level > s.top THEN level ELSE s.top
        /\ refused' = (refused \/ OneWay(Joined(s, id, v, level), id))
  BY DEF InsertNext
<1>2. /\ GraphOK(s.nodes, s.entry, s.top) /\ id \notin DOMAIN s.nodes
      /\ MutualLinks(nodes) =>
           /\ MutualLinks(s.nodes)
           /\ \A x \in DOMAIN s.nodes : \A l \in Layers : id \notin Linked(s.nodes[x], l)
      /\ id \notin DOMAIN nodes => s.nodes = nodes /\ s.entry = entry
  BY <1>1, ClearedIs DEF IndInv
<1>3. PICK j, h, e, t : /\ j = Joined(s, id, v, level) /\ h = With(j.g, id, j.node)
                        /\ e = IF level > s.top THEN id ELSE s.entry
                        /\ t = IF level > s.top THEN level ELSE s.top
  OBVIOUS
<1>4. level \in Layers
  BY DEF Layers
<1>5. /\ GraphOK(h, e, t)
      /\ /\ MutualLinks(s.nodes) /\ ~OneWay(j, id)
         /\ \A x \in DOMAIN s.nodes : \A l \in Layers : id \notin Linked(s.nodes[x], l)
         => MutualLinks(h) /\ (Reach(s.nodes, s.entry) => Reach(h, e))
  BY <1>1, <1>2, <1>3, <1>4, NextIs
<1>6. /\ nodes' = h /\ entry' = e /\ top' = t
      /\ refused' = (refused \/ OneWay(j, id))
  BY <1>1, <1>3
<1>7. GraphOK(nodes, entry, top)'
  BY <1>5, <1>6 DEF GraphOK, Graph
<1>8. refused' \in BOOLEAN /\ (~refused' => ~refused /\ ~OneWay(j, id))
  BY <1>6 DEF OneWay, IndInv
<1>9. ASSUME ~refused' PROVE MutualLinks(h) /\ (Reach(s.nodes, s.entry) => Reach(h, e))
  BY <1>2, <1>5, <1>8, <1>9 DEF IndInv
<1>10. MutualLinks(h) => MutualLinks(nodes)'
  BY <1>6 DEF MutualLinks, Linked
<1>11. Reach(h, e) => Reach(nodes, entry)'
  BY <1>6 DEF Reach, Linked
<1>12. ASSUME ~refused', removals = 0, id \notin DOMAIN nodes PROVE Reach(s.nodes, s.entry)
  BY <1>2, <1>8, <1>12 DEF IndInv
<1>. QED
  BY <1>7, <1>8, <1>9, <1>10, <1>11, <1>12

LEMMA InsertKeeps ==
  ASSUME IndInv, NEW id \in Ids, NEW v \in Points, NEW level \in 0..MaxLevel,
         Insert(id, v, level)
  PROVE  IndInv'
<1>1. /\ id \in DOMAIN nodes => removals < MaxRemovals
      /\ Save /\ removals' = IF id \in DOMAIN nodes THEN removals + 1 ELSE removals
      /\ InsertFirst(id, v, level) \/ InsertNext(id, v, level)
  BY DEF Insert
<1>2. /\ removals' \in 0..MaxRemovals
      /\ removals' = 0 => removals = 0 /\ id \notin DOMAIN nodes
  BY <1>1, HnswConstants DEF IndInv
<1>3. CASE InsertFirst(id, v, level)
  <2>1. /\ GraphOK(nodes, entry, top)' /\ MutualLinks(nodes)' /\ Reach(nodes, entry)'
        /\ refused' = refused
    BY <1>3, InsertFirstKeeps
  <2>. QED
    BY <1>1, <1>2, <2>1, SaveKeeps DEF IndInv
<1>4. CASE InsertNext(id, v, level)
  <2>1. /\ GraphOK(nodes, entry, top)' /\ refused' \in BOOLEAN
        /\ ~refused' => ~refused /\ MutualLinks(nodes)'
        /\ ~refused' /\ removals = 0 /\ id \notin DOMAIN nodes => Reach(nodes, entry)'
    BY <1>4, InsertNextKeeps
  <2>. QED
    BY <1>1, <1>2, <2>1, SaveKeeps DEF IndInv
<1>. QED
  BY <1>1, <1>3, <1>4

LEMMA RemoveNodeKeeps ==
  ASSUME IndInv, NEW id \in Ids, RemoveNode(id)
  PROVE  IndInv'
<1>1. id \in DOMAIN nodes /\ removals < MaxRemovals
  BY DEF RemoveNode
<1>2. PICK s \in Without(id) : nodes' = s.nodes /\ entry' = s.entry /\ top' = s.top
  BY DEF RemoveNode
<1>3. removals' = removals + 1 /\ page' = page /\ refused' = refused
  BY DEF RemoveNode
<1>4. PICK h : h = s.nodes
  OBVIOUS
<1>5. h = Unlinked(nodes, id) /\ GraphOK(s.nodes, s.entry, s.top)
  BY <1>1, <1>2, <1>4, WithoutIs DEF IndInv
<1>6. MutualLinks(nodes) => MutualLinks(h)
  <2>1. Graph(nodes)
    BY DEF IndInv, GraphOK
  <2>. QED
    BY <1>1, <1>5, <2>1, UnlinkedMutual
<1>7. GraphOK(nodes, entry, top)'
  BY <1>2, <1>5 DEF GraphOK, Graph
<1>8. ~refused' => MutualLinks(nodes)'
  <2>1. MutualLinks(h) => MutualLinks(nodes)'
    BY <1>2, <1>4 DEF MutualLinks, Linked
  <2>. QED
    BY <1>3, <1>6, <2>1 DEF IndInv
<1>9. removals' \in 0..MaxRemovals /\ removals' # 0
  BY <1>1, <1>3, HnswConstants DEF IndInv
<1>. QED
  BY <1>3, <1>7, <1>8, <1>9 DEF IndInv

LEMMA SoftDeleteKeeps ==
  ASSUME IndInv, NEW id \in Ids, SoftDelete(id)
  PROVE  IndInv'
<1>1. id \in DOMAIN nodes /\ Graph(nodes)
  BY DEF SoftDelete, IndInv, GraphOK
<1>2. PICK n, r, h : /\ n = nodes[id] /\ r = [n EXCEPT !.tombstone = TRUE]
                     /\ h = [nodes EXCEPT ![id] = r]
  OBVIOUS
<1>3. /\ nodes' = h /\ entry' = entry /\ top' = top /\ page' = page
      /\ refused' = refused /\ removals' = removals
  BY <1>2 DEF SoftDelete
<1>4. n \in Nodes
  BY <1>1, <1>2 DEF Graph
<1>5. r \in Nodes /\ r.level = n.level /\ r.links = n.links
  <2>1. n \in NodeRecords /\ NodeOK(n)
    BY <1>4 DEF Nodes
  <2>2. /\ r \in NodeRecords /\ r.vec = n.vec /\ r.level = n.level
        /\ r.tombstone = TRUE /\ r.links = n.links
    BY <1>2, <2>1 DEF NodeRecords
  <2>3. NodeOK(r)
    BY <2>1, <2>2 DEF NodeOK
  <2>. QED
    BY <2>2, <2>3 DEF Nodes
<1>6. /\ DOMAIN h = DOMAIN nodes /\ h \in [DOMAIN nodes -> Nodes]
      /\ \A x \in DOMAIN nodes :
           h[x].level = nodes[x].level /\ \A l : Linked(h[x], l) = Linked(nodes[x], l)
  <2>1. DOMAIN h = DOMAIN nodes /\ h \in [DOMAIN nodes -> Nodes]
    BY <1>1, <1>2, <1>5 DEF Graph
  <2>2. ASSUME NEW x \in DOMAIN nodes
        PROVE  h[x].level = nodes[x].level /\ \A l : Linked(h[x], l) = Linked(nodes[x], l)
    <3>1. CASE x = id
      <4>1. h[x] = r /\ nodes[x] = n
        BY <1>1, <1>2, <3>1
      <4>. QED
        BY <1>5, <4>1 DEF Linked
    <3>2. CASE x # id
      BY <1>2, <3>2
    <3>. QED
      BY <3>1, <3>2
  <2>. QED
    BY <2>1, <2>2
<1>7. Graph(h)
  BY <1>1, <1>6 DEF Graph
<1>8. GraphOK(h, entry, top)
  BY <1>6, <1>7 DEF IndInv, GraphOK
<1>9. MutualLinks(nodes) => MutualLinks(h)
  BY <1>6 DEF MutualLinks
<1>10. Reach(nodes, entry) => Reach(h, entry)
  BY <1>6 DEF Reach
<1>11. GraphOK(nodes, entry, top)'
  BY <1>3, <1>8 DEF GraphOK, Graph
<1>12. MutualLinks(h) => MutualLinks(nodes)'
  BY <1>3 DEF MutualLinks, Linked
<1>13. Reach(h, entry) => Reach(nodes, entry)'
  BY <1>3 DEF Reach, Linked
<1>. QED
  BY <1>3, <1>9, <1>10, <1>11, <1>12, <1>13 DEF IndInv

LEMMA ReloadKeeps ==
  ASSUME IndInv, Reload
  PROVE  IndInv'
<1>1. /\ nodes' = <<>> /\ entry' = None /\ top' = 0 /\ page' = page
      /\ refused' = FALSE /\ removals' = 0
  BY DEF Reload, CellsCounted
<1>2. PICK g, e, t : g = <<>> /\ e = None /\ t = 0
  OBVIOUS
<1>3. GraphOK(g, e, t) /\ MutualLinks(g) /\ Reach(g, e)
  BY <1>2, EmptyIs
<1>4. GraphOK(nodes, entry, top)' /\ MutualLinks(nodes)' /\ Reach(nodes, entry)'
  BY <1>1, <1>2, <1>3 DEF GraphOK, Graph, MutualLinks, Reach, Linked
<1>5. 0 \in 0..MaxRemovals
  BY HnswConstants
<1>. QED
  BY <1>1, <1>4, <1>5 DEF IndInv

\* The graph keeps its entry point, its links and its connections.
THEOREM InvariantHolds == Spec => []IndInv
<1>1. Init => IndInv
  <2>. SUFFICES ASSUME Init PROVE IndInv
    OBVIOUS
  <2>1. GraphOK(nodes, entry, top) /\ MutualLinks(nodes) /\ Reach(nodes, entry)
    BY EmptyIs DEF Init
  <2>2. 0 \in 0..MaxRemovals /\ 0 \in 0..MaxLevel
    BY HnswConstants
  <2>. QED
    BY <2>1, <2>2 DEF Init, IndInv
<1>2. IndInv /\ [Next]_vars => IndInv'
  <2>. SUFFICES ASSUME IndInv, [Next]_vars PROVE IndInv'
    OBVIOUS
  <2>1. ASSUME NEW id \in Ids, NEW v \in Points, NEW level \in 0..MaxLevel,
               Insert(id, v, level)
        PROVE  IndInv'
    BY <2>1, InsertKeeps
  <2>2. ASSUME NEW id \in Ids, RemoveNode(id) PROVE IndInv'
    BY <2>2, RemoveNodeKeeps
  <2>3. ASSUME NEW id \in Ids, SoftDelete(id) PROVE IndInv'
    BY <2>3, SoftDeleteKeeps
  <2>4. CASE Reload
    BY <2>4, ReloadKeeps
  <2>5. CASE UNCHANGED vars
    BY <2>5 DEF vars, IndInv, GraphOK, Graph, MutualLinks, Reach, Linked
  <2>. QED
    BY <2>1, <2>2, <2>3, <2>4, <2>5 DEF Next
<1>. QED
  BY <1>1, <1>2, PTL DEF Spec



\* Types, and the graph's invariant in the words of the properties.
THEOREM TypeCorrect == Spec => []TypeOK
<1>1. IndInv => TypeOK
  <2>. SUFFICES ASSUME IndInv PROVE TypeOK
    OBVIOUS
  <2>1. DOMAIN nodes \subseteq Ids /\ entry \in Ids \cup {None} /\ top \in 0..MaxLevel
    BY DEF IndInv, GraphOK, Graph, Layers
  <2>2. \A x \in DOMAIN nodes : NodeOK(nodes[x])
    BY DEF IndInv, GraphOK, Graph, Nodes
  <2>. QED
    BY <2>1, <2>2 DEF IndInv, TypeOK
<1>. QED
  BY <1>1, InvariantHolds, PTL

\* Whatever was inserted, removed or reloaded: a graph with nodes has one of
\* them as its entry point, and none of them is above max_layer.
THEOREM EntryAlwaysLive == Spec => []EntryIsLive
<1>1. IndInv => EntryIsLive
  BY DEF IndInv, GraphOK, EntryIsLive
<1>. QED
  BY <1>1, InvariantHolds, PTL

\* remove leaves no link to the node it takes out, and insert links both ways,
\* as long as no list was too full to take a link back.
THEOREM LinksAlwaysMutual == Spec => []LinksAreMutual
<1>1. IndInv => LinksAreMutual
  <2>. SUFFICES ASSUME IndInv, ~refused, NEW x \in DOMAIN nodes,
                       NEW l \in DOMAIN nodes[x].links, NEW y \in ToSet(nodes[x].links[l])
                PROVE  y \in DOMAIN nodes /\ Contains(Links(nodes, y, l), x)
    BY DEF LinksAreMutual
  <2>1. Graph(nodes) /\ MutualLinks(nodes)
    BY DEF IndInv, GraphOK
  <2>2. l \in Layers
    <3>1. nodes[x] \in Nodes
      BY <2>1 DEF Graph
    <3>2. DOMAIN nodes[x].links = 0..nodes[x].level /\ nodes[x].level \in Layers
      BY <3>1, NodeIs
    <3>. QED
      BY <3>2, HnswConstants DEF Layers
  <2>3. y \in Linked(nodes[x], l)
    BY DEF Linked
  <2>4. y \in DOMAIN nodes /\ x \in Linked(nodes[y], l)
    BY <2>1, <2>2, <2>3 DEF MutualLinks
  <2>5. Links(nodes, y, l) \in Seq(Ids) /\ ToSet(Links(nodes, y, l)) = Linked(nodes[y], l)
    BY <2>1, <2>4, LinksAre
  <2>. QED
    BY <2>4, <2>5, ContainsIs
<1>. QED
  BY <1>1, InvariantHolds, PTL

\* Inserts alone never cut a node off from the entry point.
THEOREM InsertsAlwaysConnect == Spec => []InsertsConnect
<1>1. IndInv => InsertsConnect
  <2>. SUFFICES ASSUME IndInv, ~refused, removals = 0 PROVE Reachable
    BY DEF InsertsConnect
  <2>1. Graph(nodes) /\ Reach(nodes, entry)
    BY DEF IndInv, GraphOK
  <2>2. \A x \in DOMAIN nodes : ToSet(Links(nodes, x, 0)) = Linked(nodes[x], 0)
    BY <2>1, LinksAre
  <2>. QED
    BY <2>1, <2>2 DEF Reach, Reachable
<1>. QED
  BY <1>1, InvariantHolds, PTL

LEMMA FoundIs ==
  ASSUME Graph(nodes), entry \in DOMAIN nodes, top \in Layers, entry # None,
         NEW q \in Queries \cup Points, NEW k \in Ks
  PROVE  /\ Search(q, k) \in Seq(Live(nodes, entry)) /\ Search(q, k) # <<>>
         /\ Sorted(Far(nodes, q), Search(q, k))
<1>1. PICK ef, start, found, c :
        /\ ef = IF EfSearch > k THEN EfSearch ELSE k
        /\ start = Descend(nodes, q, entry, top, 1)
        /\ found = SearchLayer(nodes, q, start, ef, 0)
        /\ c = IF k < Len(found) THEN k ELSE Len(found)
  OBVIOUS
<1>2. Search(q, k) = SubSeq(found, 1, c)
  BY <1>1 DEF Search
<1>3. ef \in Nat \ {0} /\ k \in Nat \ {0}
  BY <1>1, HnswConstants
<1>4. start \in Live(nodes, entry) /\ start \in DOMAIN nodes
  <2>1. top \in Int /\ 1 \in Int
    BY DEF Layers
  <2>. QED
    BY <1>1, <2>1, DescendIs DEF Live
<1>5. found \in Seq(Live(nodes, entry)) /\ found # <<>> /\ Sorted(Far(nodes, q), found)
  <2>1. found \in Results(nodes, q, start)
    BY <1>1, <1>3, <1>4, SearchLayerIs
  <2>2. Live(nodes, start) \subseteq Live(nodes, entry)
    BY <1>4 DEF Live
  <2>3. found \in Seq(Live(nodes, start))
    BY <2>1 DEF Results
  <2>. QED
    BY <2>1, <2>2, <2>3 DEF Results
<1>6. c \in 0..Len(found) /\ c > 0
  <2>1. Len(found) \in Nat /\ Len(found) # 0
    BY <1>5
  <2>. QED
    BY <1>1, <1>3, <2>1
<1>7. PICK r : r = SubSeq(found, 1, c)
  OBVIOUS
<1>8. r \in Seq(Live(nodes, entry)) /\ Len(r) = c /\ \A i \in 1..c : r[i] = found[i]
  BY <1>5, <1>6, <1>7, PrefixIs
<1>9. DOMAIN r = 1..c /\ r # <<>> /\ \A i \in 1..c : i \in DOMAIN found
  BY <1>5, <1>6, <1>8
<1>10. Sorted(Far(nodes, q), r)
  BY <1>5, <1>8, <1>9 DEF Sorted
<1>. QED
  BY <1>2, <1>7, <1>8, <1>9, <1>10

\* Every search of a graph with nodes has an answer, nearest first, of nodes
\* that exist; of the tombstones only the entry point can be in it.
THEOREM AnswersAlwaysLive == Spec => []AnswersAreLive
<1>1. IndInv => AnswersAreLive
  <2>. SUFFICES ASSUME IndInv, NEW q \in Queries, NEW k \in Ks, NEW found, found = Search(q, k),
                       NEW far, far = [i \in DOMAIN found |-> Distance(q, nodes[found[i]].vec)]
                PROVE  /\ found = <<>> <=> DOMAIN nodes = {}
                       /\ ToSet(found) \cap Tombstones \subseteq {entry}
                       /\ \A i, j \in DOMAIN found : i < j => far[i] <= far[j]
    BY DEF AnswersAreLive
  <2>1. /\ Graph(nodes) /\ top \in Layers /\ (entry = None <=> DOMAIN nodes = {})
        /\ entry # None => entry \in DOMAIN nodes
    BY DEF IndInv, GraphOK
  <2>2. CASE entry = None
    <3>1. found = <<>>
      BY <2>2 DEF Search
    <3>. QED
      BY <2>1, <2>2, <3>1 DEF Tombstones
  <2>3. CASE entry # None
    <3>1. found \in Seq(Live(nodes, entry)) /\ found # <<>> /\ Sorted(Far(nodes, q), found)
      BY <2>1, <2>3, FoundIs
    <3>2. \A i \in DOMAIN found : found[i] \in Live(nodes, entry)
      BY <3>1
    <3>3. ToSet(found) \cap Tombstones \subseteq {entry}
      BY <3>2 DEF ToSet, Live, Tombstones
    <3>4. \A i \in DOMAIN found : far[i] = Far(nodes, q)[found[i]]
      BY <3>2 DEF Live, Far
    <3>5. \A i, j \in DOMAIN found : i < j => far[i] <= far[j]
      BY <3>1, <3>4 DEF Sorted
    <3>. QED
      BY <2>1, <2>3, <3>1, <3>3, <3>5
  <2>. QED
    BY <2>2, <2>3
<1>. QED
  BY <1>1, InvariantHolds, PTL
=============================================================================

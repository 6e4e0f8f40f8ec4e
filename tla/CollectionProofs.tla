-------------------------- MODULE CollectionProofs --------------------------
(***************************************************************************)
(* Theorems about a persistent collection, for all documents, vectors and  *)
(* metadata, every size of a page and every bound.                         *)
(***************************************************************************)
EXTENDS Collection, FiniteSetTheorems, FunctionTheorems, WellFoundedInduction, TLAPS

-----------------------------------------------------------------------------
(* The inductive invariant.                                                *)

\* The cells of a document that a reload takes from a page.
CellsFor(page, doc) == {i \in LiveCells(page) : page[i].doc = doc}
MetaCellsFor(page, doc) ==
  {i \in DOMAIN page : page[i].kind = "meta" /\ page[i].doc = doc}

\* Every document has an id that a client chose or that the counter gave.
DocsAreInUse ==
  /\ DOMAIN idMap \subseteq DocIdsInUse
  /\ \A page \in {data[1], disk.data} : \A i \in DOMAIN page : page[i].doc \in DocIdsInUse

\* On a page the documents and the internal ids that a reload takes from it
\* belong together one by one.
Consistent(page) ==
  \A i, j \in LiveCells(page) : page[i].doc = page[j].doc <=> page[i].id = page[j].id

\* As long as the chain is its root page, what the page says is in the maps; a
\* root page that another page follows is full and no longer written.
RootInMaps ==
  Len(data) = 1 =>
    \A i \in LiveCells(data[1]) :
      data[1][i].doc \in DOMAIN idMap /\ idMap[data[1][i].doc] = data[1][i].id

\* And of every document that it has no tombstone of, its last cell is the vector.
RootIsCurrent ==
  Len(data) = 1 =>
    \A d \in DocIdsInUse \ Tombstoned(data[1]) :
      /\ d \in DOMAIN Vectors <=> CellsFor(data[1], d) # {}
      /\ d \in DOMAIN Vectors =>
           Vectors[d] = data[1][LastOf(CellsFor(data[1], d))].vec

MetadataIsCurrent ==
  Len(metaPages) = 1 =>
    \A d \in DOMAIN metadata :
      /\ MetaCellsFor(metaPages[1], d) # {}
      /\ metadata[d] = metaPages[1][LastOf(MetaCellsFor(metaPages[1], d))].val

VectorsAreRight ==
  /\ MapsInverse
  /\ ~clash => /\ Consistent(data[1]) /\ Consistent(disk.data)
               /\ RootInMaps /\ RootIsCurrent

IndInv == TypeOK /\ DocsAreInUse /\ VectorsAreRight /\ MetadataIsCurrent

-----------------------------------------------------------------------------
(* The last of some cells.                                                 *)

LEMMA LastCell ==
  ASSUME NEW n \in Nat, NEW S \in SUBSET (1..n), S # {}
  PROVE  LastOf(S) \in S /\ \A i \in S : i <= LastOf(S)
<1>. DEFINE T == {n - i : i \in S}
            R == {ss \in Nat \X Nat : ss[1] < ss[2]}
<1>1. IsWellFoundedOn(R, Nat)
  <2>1. OpToRel(<, Nat) = R
    BY DEF OpToRel
  <2>. QED
    BY <2>1, NatLessThanWellFounded
<1>2. T \subseteq Nat /\ T # {}
  <2>1. \A i \in S : n - i \in Nat
    OBVIOUS
  <2>. QED
    BY <2>1
<1>3. PICK k \in T : \A j \in T : ~(<<j, k>> \in R)
  <2>. HIDE DEF T, R
  <2>. QED
    BY <1>1, <1>2, WFMin
<1>4. PICK x \in S : k = n - x
  OBVIOUS
<1>5. ASSUME NEW i \in S PROVE x >= i
  <2>1. n - i \in T /\ n - i \in Nat /\ k \in Nat
    OBVIOUS
  <2>2. ~(n - i < k)
    BY <1>3, <2>1
  <2>. QED
    BY <1>4, <2>1, <2>2
<1>6. \E m \in S : \A i \in S : m >= i
  BY <1>5
<1>7. Max(S) \in S /\ \A i \in S : Max(S) >= i
  BY <1>6 DEF Max
<1>. QED
  BY <1>7 DEF LastOf

LEMMA LastCellIs ==
  ASSUME NEW n \in Nat, NEW S \in SUBSET (1..n), NEW i \in S, \A j \in S : j <= i
  PROVE  LastOf(S) = i
<1>1. PICK m : m = LastOf(S)
  OBVIOUS
<1>2. m \in S /\ i <= m
  BY <1>1, LastCell
<1>3. m <= i /\ m \in 1..n /\ i \in 1..n
  BY <1>2
<1>4. m = i
  BY <1>2, <1>3
<1>. QED
  BY <1>1, <1>4

-----------------------------------------------------------------------------
(* Pages.                                                                  *)

VCells == VectorCell \cup Tombstone
MCells == MetaCell \cup Tombstone

LEMMA PageFacts ==
  ASSUME NEW page \in Seq(VCells)
  PROVE  /\ Len(page) \in Nat /\ DOMAIN page = 1..Len(page)
         /\ \A i \in DOMAIN page : page[i] \in VCells /\ page[i].doc \in DocIds
         /\ LiveCells(page) \in SUBSET (1..Len(page))
         /\ \A i \in LiveCells(page) :
              page[i].doc \in DocIds /\ page[i].id \in Nat /\ page[i].vec \in Vecs
<1>1. Len(page) \in Nat /\ DOMAIN page = 1..Len(page) /\ \A i \in DOMAIN page : page[i] \in VCells
  OBVIOUS
<1>2. \A c \in VCells : /\ c.doc \in DocIds
                        /\ c.kind = "vector" => c.id \in Nat /\ c.vec \in Vecs
  BY DEF VCells, VectorCell, Tombstone
<1>3. \A i \in LiveCells(page) : i \in DOMAIN page /\ page[i].kind = "vector"
  BY DEF LiveCells
<1>. QED
  BY <1>1, <1>2, <1>3

\* What a reload makes of a page.
LEMMA LoadedIds ==
  ASSUME NEW page \in Seq(VCells)
  PROVE  /\ DOMAIN LoadIds(page) = {page[i].doc : i \in LiveCells(page)}
         /\ LoadIds(page) \in [DOMAIN LoadIds(page) -> Nat]
         /\ \A d \in DOMAIN LoadIds(page) :
              /\ LastOf(CellsFor(page, d)) \in CellsFor(page, d)
              /\ LoadIds(page)[d] = page[LastOf(CellsFor(page, d))].id
<1>1. DOMAIN LoadIds(page) = {page[i].doc : i \in LiveCells(page)}
  BY DEF LoadIds
<1>2. ASSUME NEW d \in DOMAIN LoadIds(page)
      PROVE  /\ LastOf(CellsFor(page, d)) \in CellsFor(page, d)
             /\ LoadIds(page)[d] = page[LastOf(CellsFor(page, d))].id
  <2>1. CellsFor(page, d) # {} /\ CellsFor(page, d) \subseteq 1..Len(page)
    BY <1>1, PageFacts DEF CellsFor
  <2>2. LastOf(CellsFor(page, d)) \in CellsFor(page, d)
    BY <2>1, LastCell, PageFacts
  <2>3. LoadIds(page)[d] = page[LastOf(CellsFor(page, d))].id
    BY <1>1 DEF LoadIds, CellsFor
  <2>. QED
    BY <2>2, <2>3
<1>3. \A d \in DOMAIN LoadIds(page) : LoadIds(page)[d] \in Nat
  BY <1>2, PageFacts DEF CellsFor
<1>4. LoadIds(page) = [d \in DOMAIN LoadIds(page) |-> LoadIds(page)[d]]
  BY DEF LoadIds
<1>. QED
  BY <1>1, <1>2, <1>3, <1>4

IdCells(page, n) == {i \in LiveCells(page) : page[i].id = n}

LEMMA LoadedById ==
  ASSUME NEW page \in Seq(VCells)
  PROVE  /\ DOMAIN LoadReverse(page) = {page[i].id : i \in LiveCells(page)}
         /\ DOMAIN LoadIndex(page) = {page[i].id : i \in LiveCells(page)}
         /\ LoadReverse(page) \in [DOMAIN LoadReverse(page) -> DocIds]
         /\ LoadIndex(page) \in [DOMAIN LoadIndex(page) -> Vecs]
         /\ \A n \in DOMAIN LoadIndex(page) :
              /\ LastOf(IdCells(page, n)) \in IdCells(page, n)
              /\ LoadReverse(page)[n] = page[LastOf(IdCells(page, n))].doc
              /\ LoadIndex(page)[n] = page[LastOf(IdCells(page, n))].vec
<1>1. /\ DOMAIN LoadReverse(page) = {page[i].id : i \in LiveCells(page)}
      /\ DOMAIN LoadIndex(page) = {page[i].id : i \in LiveCells(page)}
  BY DEF LoadReverse, LoadIndex
<1>2. ASSUME NEW n \in DOMAIN LoadIndex(page)
      PROVE  /\ LastOf(IdCells(page, n)) \in IdCells(page, n)
             /\ LoadReverse(page)[n] = page[LastOf(IdCells(page, n))].doc
             /\ LoadIndex(page)[n] = page[LastOf(IdCells(page, n))].vec
  <2>1. IdCells(page, n) # {} /\ IdCells(page, n) \subseteq 1..Len(page)
    BY <1>1, PageFacts DEF IdCells
  <2>2. LastOf(IdCells(page, n)) \in IdCells(page, n)
    BY <2>1, LastCell, PageFacts
  <2>3. LoadReverse(page)[n] = page[LastOf(IdCells(page, n))].doc
    BY <1>1 DEF LoadReverse, IdCells
  <2>4. LoadIndex(page)[n] = page[LastOf(IdCells(page, n))].vec
    BY <1>1 DEF LoadIndex, IdCells
  <2>. QED
    BY <2>2, <2>3, <2>4
<1>3. \A n \in DOMAIN LoadIndex(page) :
        LoadReverse(page)[n] \in DocIds /\ LoadIndex(page)[n] \in Vecs
  BY <1>2, PageFacts DEF IdCells
<1>4. /\ LoadReverse(page) = [n \in DOMAIN LoadReverse(page) |-> LoadReverse(page)[n]]
      /\ LoadIndex(page) = [n \in DOMAIN LoadIndex(page) |-> LoadIndex(page)[n]]
  BY DEF LoadReverse, LoadIndex
<1>. QED
  BY <1>1, <1>2, <1>3, <1>4

LEMMA LoadedIsFinite ==
  ASSUME NEW page \in Seq(VCells)
  PROVE  Cardinality(DOMAIN LoadIndex(page)) \in Nat
<1>. DEFINE f == [i \in LiveCells(page) |-> page[i].id]
<1>1. IsFiniteSet(LiveCells(page))
  <2>1. IsFiniteSet(1..Len(page)) /\ LiveCells(page) \subseteq 1..Len(page)
    BY PageFacts, FS_Interval
  <2>. QED
    BY <2>1, FS_Subset
<1>2. f \in Surjection(LiveCells(page), DOMAIN LoadIndex(page))
  <2>1. /\ f \in [LiveCells(page) -> DOMAIN LoadIndex(page)]
        /\ \A n \in DOMAIN LoadIndex(page) : \E i \in LiveCells(page) : f[i] = n
    <3>. DEFINE T == {page[i].id : i \in LiveCells(page)}
    <3>1. f \in [LiveCells(page) -> T] /\ \A n \in T : \E i \in LiveCells(page) : f[i] = n
      OBVIOUS
    <3>2. DOMAIN LoadIndex(page) = T
      BY LoadedById
    <3>. QED
      BY <3>1, <3>2
  <2>. QED
    BY <2>1, Fun_IsSurj
<1>. QED
  BY <1>1, <1>2, FS_Surjection, FS_CardinalityType

\* load_metadata.
LEMMA LoadedMetadata ==
  ASSUME NEW page \in Seq(MCells)
  PROVE  /\ DOMAIN page = 1..Len(page) /\ Len(page) \in Nat
         /\ \A d \in DOMAIN LoadMetadata(page) : d \in DocIds
         /\ LoadMetadata(page) \in [DOMAIN LoadMetadata(page) -> Metas]
         /\ \A d : d \in DOMAIN LoadMetadata(page) <=> MetaCellsFor(page, d) # {}
         /\ \A d \in DOMAIN LoadMetadata(page) :
              LoadMetadata(page)[d] = page[LastOf(MetaCellsFor(page, d))].val
<1>1. Len(page) \in Nat /\ DOMAIN page = 1..Len(page) /\ \A i \in DOMAIN page : page[i] \in MCells
  OBVIOUS
<1>2. \A c \in MCells : c.doc \in DocIds /\ (c.kind = "meta" => c.val \in Metas)
  BY DEF MCells, MetaCell, Tombstone
<1>3. /\ DOMAIN LoadMetadata(page) = {page[i].doc : i \in {i \in DOMAIN page : page[i].kind = "meta"}}
      /\ LoadMetadata(page) = [d \in DOMAIN LoadMetadata(page) |-> LoadMetadata(page)[d]]
  BY DEF LoadMetadata
<1>4. \A d : d \in DOMAIN LoadMetadata(page) <=> MetaCellsFor(page, d) # {}
  BY <1>3 DEF MetaCellsFor
<1>5. ASSUME NEW d \in DOMAIN LoadMetadata(page)
      PROVE  /\ LoadMetadata(page)[d] = page[LastOf(MetaCellsFor(page, d))].val
             /\ LoadMetadata(page)[d] \in Metas
  <2>1. LoadMetadata(page)[d] = page[LastOf(MetaCellsFor(page, d))].val
    <3>1. MetaCellsFor(page, d) =
            {i \in {i \in DOMAIN page : page[i].kind = "meta"} : page[i].doc = d}
      BY DEF MetaCellsFor
    <3>. QED
      BY <1>3, <3>1 DEF LoadMetadata
  <2>2. MetaCellsFor(page, d) # {} /\ MetaCellsFor(page, d) \subseteq 1..Len(page)
    BY <1>1, <1>4 DEF MetaCellsFor
  <2>3. LastOf(MetaCellsFor(page, d)) \in MetaCellsFor(page, d)
    BY <1>1, <2>2, LastCell
  <2>. QED
    BY <1>1, <1>2, <2>1, <2>3 DEF MetaCellsFor
<1>6. \A d \in DOMAIN LoadMetadata(page) : d \in DocIds
  BY <1>1, <1>2, <1>3
<1>. QED
  BY <1>1, <1>3, <1>4, <1>5, <1>6

\* One more cell on a page.
LEMMA AppendedCell ==
  ASSUME NEW S, NEW page \in Seq(S), NEW cell \in S
  PROVE  /\ Append(page, cell) \in Seq(S)
         /\ Len(Append(page, cell)) = Len(page) + 1
         /\ DOMAIN page = 1..Len(page) /\ Len(page) \in Nat
         /\ DOMAIN Append(page, cell) = DOMAIN page \cup {Len(page) + 1}
         /\ Len(page) + 1 \notin DOMAIN page
         /\ Append(page, cell)[Len(page) + 1] = cell
         /\ \A i \in DOMAIN page : Append(page, cell)[i] = page[i]
<1>. DEFINE r == Append(page, cell)
<1>1. /\ r \in Seq(S) /\ Len(r) = Len(page) + 1 /\ r[Len(page) + 1] = cell /\ Len(page) \in Nat
      /\ DOMAIN page = 1..Len(page) /\ DOMAIN r = 1..Len(r)
      /\ \A i \in 1..Len(page) : r[i] = page[i]
  OBVIOUS
<1>. HIDE DEF r
<1>2. 1..(Len(page) + 1) = (1..Len(page)) \cup {Len(page) + 1} /\ Len(page) + 1 \notin 1..Len(page)
  BY <1>1
<1>. QED
  BY <1>1, <1>2 DEF r

LEMMA VectorAppended ==
  ASSUME NEW page \in Seq(VCells), NEW cell \in VectorCell, NEW p2, p2 = Append(page, cell)
  PROVE  /\ Tombstoned(p2) = Tombstoned(page)
         /\ LiveCells(p2) = LiveCells(page) \cup
              (IF cell.doc \in Tombstoned(page) THEN {} ELSE {Len(page) + 1})
<1>1. /\ DOMAIN p2 = DOMAIN page \cup {Len(page) + 1} /\ p2[Len(page) + 1] = cell
      /\ \A i \in DOMAIN page : p2[i] = page[i]
  BY AppendedCell DEF VCells
<1>2. cell.kind = "vector"
  BY DEF VectorCell
<1>3. Tombstoned(p2) = Tombstoned(page)
  BY <1>1, <1>2 DEF Tombstoned
<1>. QED
  BY <1>1, <1>2, <1>3 DEF LiveCells

LEMMA TombstoneAppended ==
  ASSUME NEW page \in Seq(VCells), NEW cell \in Tombstone, NEW p2, p2 = Append(page, cell)
  PROVE  /\ Tombstoned(p2) = Tombstoned(page) \cup {cell.doc}
         /\ LiveCells(p2) = {i \in LiveCells(page) : page[i].doc # cell.doc}
<1>1. /\ DOMAIN p2 = DOMAIN page \cup {Len(page) + 1} /\ p2[Len(page) + 1] = cell
      /\ \A i \in DOMAIN page : p2[i] = page[i]
  BY AppendedCell DEF VCells
<1>2. cell.kind = "tombstone"
  BY DEF Tombstone
<1>3. Tombstoned(p2) = Tombstoned(page) \cup {cell.doc}
  BY <1>1, <1>2 DEF Tombstoned
<1>. QED
  BY <1>1, <1>2, <1>3 DEF LiveCells

\* write_cell_with_overflow changes the root page only while it is the last.
LEMMA CellWritten ==
  ASSUME NEW S, NEW chain \in Seq(Seq(S)), chain # <<>>, NEW cell \in S
  PROVE  /\ WithCell(chain, cell) \in Seq(Seq(S)) /\ WithCell(chain, cell) # <<>>
         /\ chain[1] \in Seq(S)
         /\ Len(WithCell(chain, cell)) = 1 =>
              Len(chain) = 1 /\ WithCell(chain, cell)[1] = Append(chain[1], cell)
         /\ Len(WithCell(chain, cell)) # 1 => WithCell(chain, cell)[1] = chain[1]
<1>. DEFINE n == Len(chain)
            c2 == WithCell(chain, cell)
<1>1. n \in Nat /\ n >= 1 /\ chain[n] \in Seq(S) /\ chain[1] \in Seq(S)
  OBVIOUS
<1>2. CASE Len(chain[n]) < PageCells
  <2>1. c2 = [chain EXCEPT ![n] = Append(chain[n], cell)]
    BY <1>2 DEF WithCell
  <2>2. c2 \in Seq(Seq(S)) /\ Len(c2) = n /\ c2[n] = Append(chain[n], cell) /\ (n # 1 => c2[1] = chain[1])
    <3>1. Append(chain[n], cell) \in Seq(S)
      BY <1>1
    <3>. HIDE DEF c2
    <3>. QED
      BY <1>1, <2>1, <3>1
  <2>3. c2 # <<>> /\ (Len(c2) = 1 => n = 1 /\ c2[1] = Append(chain[1], cell))
        /\ (Len(c2) # 1 => c2[1] = chain[1])
    <3>. HIDE DEF c2, n
    <3>1. c2 # <<>>
      BY <1>1, <2>2
    <3>2. CASE n = 1
      BY <2>2, <3>1, <3>2
    <3>3. CASE n # 1
      BY <2>2, <3>1, <3>3
    <3>. QED
      BY <3>2, <3>3
  <2>. QED
    BY <1>1, <2>2, <2>3
<1>3. CASE ~(Len(chain[n]) < PageCells)
  <2>1. c2 = Append(chain, <<cell>>)
    BY <1>3 DEF WithCell
  <2>2. c2 \in Seq(Seq(S)) /\ Len(c2) = n + 1 /\ c2[1] = chain[1]
    <3>1. <<cell>> \in Seq(S)
      OBVIOUS
    <3>. HIDE DEF c2
    <3>. QED
      BY <1>1, <2>1, <3>1
  <2>3. c2 # <<>> /\ Len(c2) # 1
    <3>. HIDE DEF c2
    <3>. QED
      BY <1>1, <2>2
  <2>. QED
    BY <1>1, <2>2, <2>3
<1>. QED
  BY <1>2, <1>3

-----------------------------------------------------------------------------
(* What insert does to the maps.                                           *)

\* What register leaves: without a clash, doc and id are in both maps.
Registering(doc, id) ==
  /\ doc \in DocIds /\ doc \in DocIdsInUse /\ id \in Nat /\ counter' \in Nat
  /\ clash' \in BOOLEAN /\ (clash => clash')
  /\ DOMAIN idMap' = DOMAIN idMap \cup {doc} /\ idMap'[doc] = id
  /\ \A d \in DOMAIN idMap : d # doc => idMap'[d] = idMap[d]
  /\ doc \in DOMAIN idMap => idMap[doc] = id
  /\ idMap' \in [DOMAIN idMap' -> Nat] /\ DOMAIN idMap' \subseteq DocIds
  /\ reverse' \in [DOMAIN reverse' -> DocIds] /\ DOMAIN reverse' \subseteq Nat
  /\ ~clash' => /\ DOMAIN reverse' = DOMAIN reverse \cup {id} /\ reverse'[id] = doc
                /\ \A n \in DOMAIN reverse : n # id => reverse'[n] = reverse[n]
                /\ doc \notin DOMAIN idMap => id \notin DOMAIN reverse

LEMMA Registered ==
  ASSUME IndInv, NEW doc, NEW first, Inserting(doc, first),
         NEW id, id = InternalId(doc, first)
  PROVE  Registering(doc, id)
<1>1. /\ counter \in Nat /\ counter + 2 <= MaxId /\ MaxId \in Nat
      /\ first \in {counter, counter + 1}
      /\ doc \in Names \cup DOMAIN idMap \/ doc = counter
  BY CollectionConstants DEF Inserting, Named, IndInv, TypeOK
<1>2. counter \in 0..MaxId /\ first \in Nat
  BY <1>1
<1>3. doc \in DocIds /\ doc \in DocIdsInUse
  BY <1>1, <1>2 DEF IndInv, TypeOK, DocsAreInUse, DocIds, DocIdsInUse
<1>4. /\ idMap \in [DOMAIN idMap -> Nat] /\ DOMAIN idMap \subseteq DocIds
      /\ reverse \in [DOMAIN reverse -> DocIds] /\ DOMAIN reverse \subseteq Nat
      /\ clash \in BOOLEAN
  BY DEF IndInv, TypeOK
<1>5. CASE doc \in DOMAIN idMap
  <2>1. id = idMap[doc] /\ UNCHANGED <<idMap, reverse, clash>> /\ counter' = first
    BY <1>5 DEF Inserting, Register, InternalId
  <2>2. ~clash' => id \in DOMAIN reverse /\ reverse[id] = doc
    BY <1>5, <2>1 DEF IndInv, VectorsAreRight, MapsInverse
  <2>. QED
    BY <1>2, <1>3, <1>4, <1>5, <2>1, <2>2 DEF Registering
<1>6. CASE doc \notin DOMAIN idMap
  <2>1. /\ id = first /\ idMap' = With(idMap, doc, first)
        /\ reverse' = With(reverse, first, doc) /\ counter' = first + 1
        /\ clash' = (clash \/ first \in DOMAIN reverse)
    BY <1>6 DEF Inserting, Register, InternalId
  <2>2. /\ DOMAIN idMap' = DOMAIN idMap \cup {doc} /\ idMap'[doc] = id
        /\ \A d \in DOMAIN idMap : d # doc => idMap'[d] = idMap[d]
        /\ idMap' = [d \in DOMAIN idMap' |-> idMap'[d]]
    BY <2>1 DEF With
  <2>3. /\ DOMAIN reverse' = DOMAIN reverse \cup {id} /\ reverse'[id] = doc
        /\ \A n \in DOMAIN reverse : n # id => reverse'[n] = reverse[n]
        /\ reverse' = [n \in DOMAIN reverse' |-> reverse'[n]]
    BY <2>1 DEF With
  <2>4. idMap' \in [DOMAIN idMap' -> Nat] /\ DOMAIN idMap' \subseteq DocIds
    <3>1. \A d \in DOMAIN idMap' : idMap'[d] \in Nat
      BY <1>2, <1>4, <2>1, <2>2
    <3>. QED
      BY <1>3, <1>4, <2>2, <3>1
  <2>5. reverse' \in [DOMAIN reverse' -> DocIds] /\ DOMAIN reverse' \subseteq Nat
    <3>1. \A n \in DOMAIN reverse' : reverse'[n] \in DocIds
      BY <1>3, <1>4, <2>3
    <3>. QED
      BY <1>2, <1>4, <2>1, <2>3, <3>1
  <2>6. counter' \in Nat /\ clash' \in BOOLEAN /\ id \in Nat
    BY <1>2, <1>4, <2>1
  <2>. QED
    BY <1>3, <1>6, <2>1, <2>2, <2>3, <2>4, <2>5, <2>6 DEF Registering
<1>. QED
  BY <1>5, <1>6

\* The maps stay inverse, and no other document gets another vector.
LEMMA InsertKeepsMaps ==
  ASSUME IndInv, NEW doc, NEW first, Inserting(doc, first),
         NEW id, id = InternalId(doc, first), ~clash',
         DOMAIN index' \subseteq DOMAIN index \cup {id}, DOMAIN index \subseteq DOMAIN index',
         \A n \in DOMAIN index : n # id => index'[n] = index[n]
  PROVE  /\ ~clash /\ MapsInverse'
         /\ \A d, e \in DOMAIN idMap' : idMap'[d] = idMap'[e] => d = e
         /\ \A d : d # doc =>
              /\ d \in DOMAIN Vectors' <=> d \in DOMAIN Vectors
              /\ d \in DOMAIN Vectors => Vectors'[d] = Vectors[d]
         /\ doc \in DOMAIN Vectors' <=> id \in DOMAIN index'
         /\ id \in DOMAIN index' => Vectors'[doc] = index'[id]
<1>1. /\ DOMAIN idMap' = DOMAIN idMap \cup {doc} /\ idMap'[doc] = id
      /\ \A d \in DOMAIN idMap : d # doc => idMap'[d] = idMap[d]
      /\ DOMAIN reverse' = DOMAIN reverse \cup {id} /\ reverse'[id] = doc
      /\ \A n \in DOMAIN reverse : n # id => reverse'[n] = reverse[n]
      /\ doc \in DOMAIN idMap => idMap[doc] = id
      /\ doc \notin DOMAIN idMap => id \notin DOMAIN reverse
      /\ ~clash
  <2>1. Registering(doc, id)
    BY Registered
  <2>. QED
    BY <2>1 DEF Registering
<1>2. /\ \A d \in DOMAIN idMap : idMap[d] \in DOMAIN reverse /\ reverse[idMap[d]] = d
      /\ \A n \in DOMAIN reverse : reverse[n] \in DOMAIN idMap /\ idMap[reverse[n]] = n
      /\ DOMAIN index \subseteq DOMAIN reverse
  BY <1>1 DEF IndInv, VectorsAreRight, MapsInverse
<1>3. \A d \in DOMAIN idMap : d # doc => idMap[d] # id
  BY <1>1, <1>2
<1>4. \A d \in DOMAIN idMap' : idMap'[d] \in DOMAIN reverse' /\ reverse'[idMap'[d]] = d
  BY <1>1, <1>2, <1>3
<1>5. \A n \in DOMAIN reverse' : reverse'[n] \in DOMAIN idMap' /\ idMap'[reverse'[n]] = n
  BY <1>1, <1>2
<1>6. MapsInverse'
  BY <1>1, <1>2, <1>4, <1>5 DEF MapsInverse
<1>7. ASSUME NEW d, d # doc
      PROVE  /\ d \in DOMAIN Vectors' <=> d \in DOMAIN Vectors
             /\ d \in DOMAIN Vectors => Vectors'[d] = Vectors[d]
  <2>1. CASE d \in DOMAIN idMap
    <3>1. idMap'[d] = idMap[d] /\ idMap[d] # id
      BY <1>1, <1>3, <1>7, <2>1
    <3>2. idMap[d] \in DOMAIN index' <=> idMap[d] \in DOMAIN index
      BY <3>1
    <3>. QED
      BY <1>1, <2>1, <3>1, <3>2 DEF Vectors
  <2>2. CASE d \notin DOMAIN idMap
    BY <1>1, <1>7, <2>2 DEF Vectors
  <2>. QED
    BY <2>1, <2>2
<1>8. /\ doc \in DOMAIN Vectors' <=> id \in DOMAIN index'
      /\ id \in DOMAIN index' => Vectors'[doc] = index'[id]
  BY <1>1 DEF Vectors
<1>9. \A d, e \in DOMAIN idMap' : idMap'[d] = idMap'[e] => d = e
  BY <1>4
<1>. QED
  BY <1>1, <1>6, <1>7, <1>8, <1>9

\* What the maps say of every cell makes the page consistent.
LEMMA MapsMakeConsistent ==
  ASSUME NEW page, NEW ids, \A d, e \in DOMAIN ids : ids[d] = ids[e] => d = e,
         \A i \in LiveCells(page) : page[i].doc \in DOMAIN ids /\ ids[page[i].doc] = page[i].id
  PROVE  Consistent(page)
<1>. SUFFICES ASSUME NEW i \in LiveCells(page), NEW j \in LiveCells(page)
              PROVE  page[i].doc = page[j].doc <=> page[i].id = page[j].id
  BY DEF Consistent
<1>1. /\ page[i].doc \in DOMAIN ids /\ ids[page[i].doc] = page[i].id
      /\ page[j].doc \in DOMAIN ids /\ ids[page[j].doc] = page[j].id
  OBVIOUS
<1>. QED
  BY <1>1

LEMMA RootTyped ==
  ASSUME TypeOK
  PROVE  data \in Seq(Seq(VCells)) /\ data # <<>> /\ data[1] \in Seq(VCells)
         /\ disk.data \in Seq(VCells) /\ disk.meta \in Seq(MCells)
         /\ metaPages \in Seq(Seq(MCells)) /\ metaPages # <<>> /\ metaPages[1] \in Seq(MCells)
<1>1. /\ data \in Seq(Seq(VCells)) /\ data # <<>>
      /\ disk.data \in Seq(VCells) /\ disk.meta \in Seq(MCells)
      /\ metaPages \in Seq(Seq(MCells)) /\ metaPages # <<>>
  BY DEF TypeOK, VCells, MCells
<1>. QED
  BY <1>1

\* insert without a vector.
LEMMA NoVectorKeeps ==
  ASSUME IndInv, NEW doc, NEW first, Inserting(doc, first), UNCHANGED <<index, data>>
  PROVE  DocsAreInUse' /\ VectorsAreRight'
<1>. DEFINE page == data[1]
<1>0. PICK id : id = InternalId(doc, first)
  OBVIOUS
<1>1. /\ doc \in DocIdsInUse /\ (clash => clash')
      /\ DOMAIN idMap' = DOMAIN idMap \cup {doc} /\ idMap'[doc] = id
      /\ \A d \in DOMAIN idMap : d # doc => idMap'[d] = idMap[d]
      /\ doc \in DOMAIN idMap => idMap[doc] = id
      /\ ~clash' /\ doc \notin DOMAIN idMap => id \notin DOMAIN reverse
      /\ disk' = disk
  <2>1. Registering(doc, id)
    BY <1>0, Registered
  <2>2. disk' = disk
    BY DEF Inserting
  <2>. QED
    BY <2>1, <2>2 DEF Registering
<1>2. DocsAreInUse'
  BY <1>1 DEF IndInv, DocsAreInUse, DocIdsInUse
<1>3. ASSUME ~clash'
      PROVE  MapsInverse' /\ Consistent(data[1])' /\ Consistent(disk.data)'
             /\ RootInMaps' /\ RootIsCurrent'
  <2>1. /\ ~clash /\ MapsInverse'
        /\ \A d : d # doc =>
             /\ d \in DOMAIN Vectors' <=> d \in DOMAIN Vectors
             /\ d \in DOMAIN Vectors => Vectors'[d] = Vectors[d]
        /\ doc \in DOMAIN Vectors' <=> id \in DOMAIN index'
        /\ id \in DOMAIN index' => Vectors'[doc] = index'[id]
    BY <1>0, <1>3, InsertKeepsMaps
  <2>2. Consistent(data[1]) /\ Consistent(disk.data) /\ RootInMaps /\ RootIsCurrent
    BY <2>1 DEF IndInv, VectorsAreRight
  <2>3. Consistent(data[1])' /\ Consistent(disk.data)'
    BY <1>1, <2>2 DEF Consistent, LiveCells, Tombstoned
  <2>4. RootInMaps'
    BY <1>1, <2>2 DEF RootInMaps, LiveCells, Tombstoned
  <2>5. ASSUME Len(data) = 1, NEW d \in DocIdsInUse \ Tombstoned(page)
        PROVE  /\ d \in DOMAIN Vectors' <=> CellsFor(page, d) # {}
               /\ d \in DOMAIN Vectors' => Vectors'[d] = page[LastOf(CellsFor(page, d))].vec
    <3>1. /\ d \in DOMAIN Vectors <=> CellsFor(page, d) # {}
          /\ d \in DOMAIN Vectors => Vectors[d] = page[LastOf(CellsFor(page, d))].vec
      BY <2>2, <2>5 DEF RootIsCurrent
    <3>2. CASE d # doc
      BY <2>1, <3>1, <3>2
    <3>3. CASE d = doc /\ doc \in DOMAIN idMap
      <4>1. /\ doc \in DOMAIN Vectors <=> id \in DOMAIN index
            /\ id \in DOMAIN index => Vectors[doc] = index[id]
        BY <1>1, <3>3 DEF Vectors
      <4>. QED
        BY <2>1, <3>1, <3>3, <4>1
    <3>4. CASE d = doc /\ doc \notin DOMAIN idMap
      <4>1. id \notin DOMAIN index
        BY <1>1, <1>3, <2>1, <3>4 DEF IndInv, VectorsAreRight, MapsInverse
      <4>2. CellsFor(page, d) = {}
        BY <2>2, <2>5, <3>4 DEF RootInMaps, CellsFor
      <4>. QED
        BY <2>1, <3>4, <4>1, <4>2
    <3>. QED
      BY <3>2, <3>3, <3>4
  <2>6. RootIsCurrent'
    <3>. HIDE DEF page
    <3>1. data' = data /\ page = data[1]
      BY DEF page
    <3>. QED
      BY <2>5, <3>1 DEF RootIsCurrent, CellsFor, LiveCells, Tombstoned, LastOf
  <2>. QED
    BY <2>1, <2>3, <2>4, <2>6
<1>4. MapsInverse'
  BY <1>3 DEF MapsInverse
<1>. QED
  BY <1>2, <1>3, <1>4 DEF VectorsAreRight

\* insert with a vector: the cell follows those the page has of the document.
LEMMA VectorKeeps ==
  ASSUME IndInv, NEW doc, NEW first, Inserting(doc, first), NEW v \in Vecs,
         StoreVector(doc, InternalId(doc, first), v)
  PROVE  /\ data' \in Seq(Seq(VCells)) /\ data' # <<>>
         /\ index' \in [DOMAIN index' -> Vecs] /\ DOMAIN index' \subseteq Nat
         /\ DocsAreInUse' /\ VectorsAreRight'
<1>0. PICK id, page, p2, cell :
        /\ id = InternalId(doc, first) /\ page = data[1] /\ p2 = data'[1]
        /\ cell = [kind |-> "vector", doc |-> doc, id |-> id, vec |-> v]
  OBVIOUS
<1>a. Registering(doc, id)
  BY <1>0, Registered
<1>1. /\ doc \in DocIdsInUse /\ doc \in DocIds /\ id \in Nat /\ (clash => clash')
      /\ DOMAIN idMap' = DOMAIN idMap \cup {doc} /\ idMap'[doc] = id
      /\ \A d \in DOMAIN idMap : d # doc => idMap'[d] = idMap[d]
      /\ doc \in DOMAIN idMap => idMap[doc] = id
  BY <1>a DEF Registering
<1>2. /\ disk' = disk /\ index' = With(index, id, v) /\ data' = WithCell(data, cell)
  BY <1>0 DEF Inserting, StoreVector
<1>3. cell \in VectorCell /\ cell \in VCells /\ cell.doc = doc /\ cell.id = id /\ cell.vec = v
  BY <1>0, <1>1 DEF VectorCell, VCells
<1>4. /\ data \in Seq(Seq(VCells)) /\ data # <<>> /\ page \in Seq(VCells)
      /\ disk.data \in Seq(VCells)
  BY <1>0, RootTyped DEF IndInv
<1>5. /\ data' \in Seq(Seq(VCells)) /\ data' # <<>>
      /\ Len(data') = 1 => Len(data) = 1 /\ p2 = Append(page, cell)
      /\ Len(data') # 1 => p2 = page
  BY <1>0, <1>2, <1>3, <1>4, CellWritten
<1>6. /\ DOMAIN index' = DOMAIN index \cup {id} /\ index'[id] = v
      /\ \A n \in DOMAIN index : n # id => index'[n] = index[n]
      /\ index' = [n \in DOMAIN index' |-> index'[n]]
  BY <1>2 DEF With
<1>7. index' \in [DOMAIN index' -> Vecs] /\ DOMAIN index' \subseteq Nat
  <2>1. \A n \in DOMAIN index' : index'[n] \in Vecs /\ n \in Nat
    BY <1>1, <1>6 DEF IndInv, TypeOK
  <2>. QED
    BY <1>6, <2>1
<1>8. /\ p2 = Append(page, cell) =>
           /\ DOMAIN p2 = DOMAIN page \cup {Len(page) + 1} /\ p2[Len(page) + 1] = cell
           /\ Len(page) + 1 \notin DOMAIN page
           /\ \A i \in DOMAIN page : p2[i] = page[i]
           /\ Tombstoned(p2) = Tombstoned(page)
           /\ LiveCells(p2) = LiveCells(page) \cup
                (IF doc \in Tombstoned(page) THEN {} ELSE {Len(page) + 1})
  <2>1. /\ DOMAIN Append(page, cell) = DOMAIN page \cup {Len(page) + 1}
        /\ Append(page, cell)[Len(page) + 1] = cell
        /\ Len(page) + 1 \notin DOMAIN page
        /\ \A i \in DOMAIN page : Append(page, cell)[i] = page[i]
    BY <1>3, <1>4, AppendedCell
  <2>2. p2 = Append(page, cell) =>
          /\ Tombstoned(p2) = Tombstoned(page)
          /\ LiveCells(p2) = LiveCells(page) \cup
               (IF doc \in Tombstoned(page) THEN {} ELSE {Len(page) + 1})
    BY <1>3, <1>4, VectorAppended
  <2>. QED
    BY <2>1, <2>2
<1>9. LiveCells(page) \subseteq DOMAIN page /\ DOMAIN page = 1..Len(page) /\ Len(page) \in Nat
  BY <1>4, PageFacts
<1>10. DocsAreInUse'
  <2>1. \A i \in DOMAIN p2 : p2[i].doc \in DocIdsInUse
    BY <1>0, <1>1, <1>3, <1>5, <1>8 DEF IndInv, DocsAreInUse
  <2>. QED
    BY <1>0, <1>1, <1>2, <2>1 DEF IndInv, DocsAreInUse, DocIdsInUse
<1>11. ASSUME ~clash'
       PROVE  MapsInverse' /\ Consistent(p2) /\ Consistent(disk.data)
              /\ RootInMaps' /\ RootIsCurrent'
  <2>1. /\ ~clash /\ MapsInverse'
        /\ \A d, e \in DOMAIN idMap' : idMap'[d] = idMap'[e] => d = e
        /\ \A d : d # doc =>
             /\ d \in DOMAIN Vectors' <=> d \in DOMAIN Vectors
             /\ d \in DOMAIN Vectors => Vectors'[d] = Vectors[d]
        /\ doc \in DOMAIN Vectors' /\ Vectors'[doc] = v
    BY <1>0, <1>6, <1>11, InsertKeepsMaps
  <2>2. Consistent(page) /\ Consistent(disk.data) /\ RootInMaps /\ RootIsCurrent
    BY <1>0, <2>1 DEF IndInv, VectorsAreRight
  <2>3. ASSUME Len(data') = 1, NEW i \in LiveCells(p2)
        PROVE  p2[i].doc \in DOMAIN idMap' /\ idMap'[p2[i].doc] = p2[i].id
    <3>1. CASE i \in LiveCells(page)
      <4>1. page[i].doc \in DOMAIN idMap /\ idMap[page[i].doc] = page[i].id
        BY <1>0, <1>5, <2>2, <2>3, <3>1 DEF RootInMaps
      <4>. QED
        BY <1>1, <1>5, <1>8, <1>9, <2>3, <3>1, <4>1
    <3>2. CASE i \notin LiveCells(page)
      BY <1>1, <1>3, <1>5, <1>8, <2>3, <3>2
    <3>. QED
      BY <3>1, <3>2
  <2>4. RootInMaps'
    BY <1>0, <2>3 DEF RootInMaps
  <2>5. Consistent(p2)
    BY <1>5, <2>1, <2>2, <2>3, MapsMakeConsistent
  <2>6. ASSUME Len(data') = 1, NEW d \in DocIdsInUse \ Tombstoned(p2)
        PROVE  /\ d \in DOMAIN Vectors' <=> CellsFor(p2, d) # {}
               /\ d \in DOMAIN Vectors' => Vectors'[d] = p2[LastOf(CellsFor(p2, d))].vec
    <3>1. d \notin Tombstoned(page)
      BY <1>5, <1>8, <2>6
    <3>2. /\ d \in DOMAIN Vectors <=> CellsFor(page, d) # {}
          /\ d \in DOMAIN Vectors => Vectors[d] = page[LastOf(CellsFor(page, d))].vec
      BY <1>0, <1>5, <2>2, <2>6, <3>1 DEF RootIsCurrent
    <3>3. CASE d # doc
      <4>1. CellsFor(p2, d) = CellsFor(page, d)
        BY <1>3, <1>5, <1>8, <1>9, <2>6, <3>3 DEF CellsFor
      <4>2. CellsFor(page, d) # {} => LastOf(CellsFor(page, d)) \in DOMAIN page
        <5>1. CellsFor(page, d) \in SUBSET (1..Len(page))
          BY <1>9 DEF CellsFor
        <5>. QED
          BY <1>9, <5>1, LastCell
      <4>3. CellsFor(page, d) # {} =>
              p2[LastOf(CellsFor(page, d))] = page[LastOf(CellsFor(page, d))]
        BY <1>5, <1>8, <2>6, <4>2
      <4>. QED
        BY <2>1, <3>2, <3>3, <4>1, <4>3
    <3>4. CASE d = doc
      <4>1. Len(page) + 1 \in LiveCells(p2)
        BY <1>5, <1>8, <2>6, <3>1, <3>4
      <4>2. Len(page) + 1 \in CellsFor(p2, d)
        BY <1>3, <1>5, <1>8, <2>6, <3>4, <4>1 DEF CellsFor
      <4>3. CellsFor(p2, d) \in SUBSET (1..(Len(page) + 1))
        <5>1. \A i \in LiveCells(p2) : i \in 1..Len(page) \/ i = Len(page) + 1
          BY <1>5, <1>8, <1>9, <2>6
        <5>2. \A i \in 1..Len(page) : i \in 1..(Len(page) + 1)
          BY <1>9
        <5>. QED
          BY <1>9, <5>1, <5>2 DEF CellsFor
      <4>4. LastOf(CellsFor(p2, d)) = Len(page) + 1
        <5>1. \A i \in CellsFor(p2, d) : i <= Len(page) + 1
          BY <1>9, <4>3
        <5>2. Len(page) + 1 \in Nat
          BY <1>9
        <5>. QED
          BY <4>2, <4>3, <5>1, <5>2, LastCellIs
      <4>. QED
        BY <1>3, <1>5, <1>8, <2>1, <2>6, <3>4, <4>2, <4>4
    <3>. QED
      BY <3>3, <3>4
  <2>7. RootIsCurrent'
    BY <1>0, <2>6 DEF RootIsCurrent
  <2>. QED
    BY <2>1, <2>2, <2>4, <2>5, <2>7
<1>12. VectorsAreRight'
  <2>1. MapsInverse'
    BY <1>11 DEF MapsInverse
  <2>. QED
    BY <1>0, <1>2, <1>11, <2>1 DEF VectorsAreRight
<1>. QED
  BY <1>5, <1>7, <1>10, <1>12

-----------------------------------------------------------------------------
(* delete.                                                                 *)

LEMMA DeleteKeepsVectors ==
  ASSUME IndInv, NEW doc, Delete(doc)
  PROVE  /\ data' \in Seq(Seq(VCells)) /\ data' # <<>>
         /\ idMap' \in [DOMAIN idMap' -> Nat] /\ DOMAIN idMap' \subseteq DocIds
         /\ reverse' \in [DOMAIN reverse' -> DocIds] /\ DOMAIN reverse' \subseteq Nat
         /\ index' \in [DOMAIN index' -> Vecs] /\ DOMAIN index' \subseteq Nat
         /\ DocsAreInUse' /\ VectorsAreRight'
         /\ doc \in DocIdsInUse
         /\ ~clash' => \A d : d # doc =>
              /\ d \in DOMAIN Vectors' <=> d \in DOMAIN Vectors
              /\ d \in DOMAIN Vectors => Vectors'[d] = Vectors[d]
<1>0. PICK id, page, p2, cell :
        /\ id = idMap[doc] /\ page = data[1] /\ p2 = data'[1]
        /\ cell = [kind |-> "tombstone", doc |-> doc]
  OBVIOUS
<1>1. /\ doc \in DOMAIN idMap /\ doc \in DocIds /\ doc \in DocIdsInUse
      /\ clash' = clash /\ disk' = disk /\ data' = WithCell(data, cell)
      /\ idMap' = Without(idMap, doc) /\ index' = Without(index, id)
      /\ reverse' = Without(reverse, id)
  BY <1>0 DEF Delete, Forget, IndInv, TypeOK, DocsAreInUse
<1>2. /\ DOMAIN idMap' = DOMAIN idMap \ {doc} /\ \A d \in DOMAIN idMap' : idMap'[d] = idMap[d]
      /\ DOMAIN index' = DOMAIN index \ {id} /\ \A n \in DOMAIN index' : index'[n] = index[n]
      /\ DOMAIN reverse' = DOMAIN reverse \ {id}
      /\ \A n \in DOMAIN reverse' : reverse'[n] = reverse[n]
  BY <1>1 DEF Without
<1>3. /\ idMap' \in [DOMAIN idMap' -> Nat] /\ DOMAIN idMap' \subseteq DocIds
      /\ reverse' \in [DOMAIN reverse' -> DocIds] /\ DOMAIN reverse' \subseteq Nat
      /\ index' \in [DOMAIN index' -> Vecs] /\ DOMAIN index' \subseteq Nat
  BY <1>1 DEF Without, IndInv, TypeOK
<1>4. cell \in Tombstone /\ cell \in VCells /\ cell.doc = doc
  BY <1>0, <1>1 DEF Tombstone, VCells
<1>5. /\ data \in Seq(Seq(VCells)) /\ data # <<>> /\ page \in Seq(VCells)
  BY <1>0, RootTyped DEF IndInv
<1>6. /\ data' \in Seq(Seq(VCells)) /\ data' # <<>>
      /\ Len(data') = 1 => Len(data) = 1 /\ p2 = Append(page, cell)
      /\ Len(data') # 1 => p2 = page
  BY <1>0, <1>1, <1>4, <1>5, CellWritten
<1>7. /\ p2 = Append(page, cell) =>
           /\ DOMAIN p2 = DOMAIN page \cup {Len(page) + 1} /\ p2[Len(page) + 1] = cell
           /\ \A i \in DOMAIN page : p2[i] = page[i]
           /\ Tombstoned(p2) = Tombstoned(page) \cup {doc}
           /\ LiveCells(p2) = {i \in LiveCells(page) : page[i].doc # doc}
  <2>1. /\ DOMAIN Append(page, cell) = DOMAIN page \cup {Len(page) + 1}
        /\ Append(page, cell)[Len(page) + 1] = cell
        /\ \A i \in DOMAIN page : Append(page, cell)[i] = page[i]
    BY <1>4, <1>5, AppendedCell
  <2>2. p2 = Append(page, cell) =>
          /\ Tombstoned(p2) = Tombstoned(page) \cup {doc}
          /\ LiveCells(p2) = {i \in LiveCells(page) : page[i].doc # doc}
    <3>1. ASSUME p2 = Append(page, cell)
          PROVE  /\ Tombstoned(p2) = Tombstoned(page) \cup {cell.doc}
                 /\ LiveCells(p2) = {i \in LiveCells(page) : page[i].doc # cell.doc}
      BY <1>4, <1>5, <3>1, TombstoneAppended
    <3>2. cell.doc = doc
      BY <1>4
    <3>. QED
      BY <3>1, <3>2
  <2>. QED
    BY <2>1, <2>2
<1>8. LiveCells(page) \subseteq DOMAIN page /\ DOMAIN page = 1..Len(page) /\ Len(page) \in Nat
  BY <1>5, PageFacts
<1>9. DocsAreInUse'
  <2>1. \A i \in DOMAIN p2 : p2[i].doc \in DocIdsInUse
    BY <1>0, <1>1, <1>4, <1>6, <1>7 DEF IndInv, DocsAreInUse
  <2>. QED
    BY <1>0, <1>1, <1>2, <2>1 DEF IndInv, DocsAreInUse, DocIdsInUse
<1>10. ASSUME ~clash'
       PROVE  MapsInverse' /\ Consistent(p2) /\ Consistent(disk.data)
              /\ RootInMaps' /\ RootIsCurrent'
              /\ \A d : d # doc =>
                   /\ d \in DOMAIN Vectors' <=> d \in DOMAIN Vectors
                   /\ d \in DOMAIN Vectors => Vectors'[d] = Vectors[d]
  <2>1. /\ \A d \in DOMAIN idMap : idMap[d] \in DOMAIN reverse /\ reverse[idMap[d]] = d
        /\ \A n \in DOMAIN reverse : reverse[n] \in DOMAIN idMap /\ idMap[reverse[n]] = n
        /\ DOMAIN index \subseteq DOMAIN reverse
    BY <1>1, <1>10 DEF IndInv, VectorsAreRight, MapsInverse
  <2>2. Consistent(page) /\ Consistent(disk.data) /\ RootInMaps /\ RootIsCurrent
    BY <1>0, <1>1, <1>10 DEF IndInv, VectorsAreRight
  <2>3. \A d \in DOMAIN idMap : d # doc => idMap[d] # id
    BY <1>0, <1>1, <2>1
  <2>4. \A d \in DOMAIN idMap' : idMap'[d] \in DOMAIN reverse' /\ reverse'[idMap'[d]] = d
    BY <1>2, <2>1, <2>3
  <2>5. \A n \in DOMAIN reverse' : reverse'[n] \in DOMAIN idMap' /\ idMap'[reverse'[n]] = n
    BY <1>0, <1>2, <2>1
  <2>6. MapsInverse'
    BY <1>2, <2>1, <2>4, <2>5 DEF MapsInverse
  <2>7. ASSUME NEW d, d # doc
        PROVE  /\ d \in DOMAIN Vectors' <=> d \in DOMAIN Vectors
               /\ d \in DOMAIN Vectors => Vectors'[d] = Vectors[d]
    <3>1. CASE d \in DOMAIN idMap
      <4>1. d \in DOMAIN idMap' /\ idMap'[d] = idMap[d] /\ idMap[d] # id
        BY <1>2, <2>3, <2>7, <3>1
      <4>2. idMap[d] \in DOMAIN index' <=> idMap[d] \in DOMAIN index
        BY <1>2, <4>1
      <4>. QED
        BY <1>2, <3>1, <4>1, <4>2 DEF Vectors
    <3>2. CASE d \notin DOMAIN idMap
      BY <1>2, <3>2 DEF Vectors
    <3>. QED
      BY <3>1, <3>2
  <2>8. ASSUME Len(data') = 1, NEW i \in LiveCells(p2)
        PROVE  p2[i].doc \in DOMAIN idMap' /\ idMap'[p2[i].doc] = p2[i].id
    <3>1. i \in LiveCells(page) /\ page[i].doc # doc /\ p2[i] = page[i]
      BY <1>6, <1>7, <1>8, <2>8
    <3>2. page[i].doc \in DOMAIN idMap /\ idMap[page[i].doc] = page[i].id
      BY <1>0, <1>6, <2>2, <2>8, <3>1 DEF RootInMaps
    <3>. QED
      BY <1>2, <3>1, <3>2
  <2>9. RootInMaps'
    BY <1>0, <2>8 DEF RootInMaps
  <2>10. \A d, e \in DOMAIN idMap' : idMap'[d] = idMap'[e] => d = e
    BY <2>4
  <2>11. Consistent(p2)
    BY <1>6, <2>2, <2>8, <2>10, MapsMakeConsistent
  <2>12. ASSUME Len(data') = 1, NEW d \in DocIdsInUse \ Tombstoned(p2)
         PROVE  /\ d \in DOMAIN Vectors' <=> CellsFor(p2, d) # {}
                /\ d \in DOMAIN Vectors' => Vectors'[d] = p2[LastOf(CellsFor(p2, d))].vec
    <3>1. d \notin Tombstoned(page) /\ d # doc
      BY <1>6, <1>7, <2>12
    <3>2. /\ d \in DOMAIN Vectors <=> CellsFor(page, d) # {}
          /\ d \in DOMAIN Vectors => Vectors[d] = page[LastOf(CellsFor(page, d))].vec
      BY <1>0, <1>6, <2>2, <2>12, <3>1 DEF RootIsCurrent
    <3>3. CellsFor(p2, d) = CellsFor(page, d)
      BY <1>6, <1>7, <1>8, <2>12, <3>1 DEF CellsFor
    <3>4. CellsFor(page, d) # {} => LastOf(CellsFor(page, d)) \in DOMAIN page
      <4>1. CellsFor(page, d) \in SUBSET (1..Len(page))
        BY <1>8 DEF CellsFor
      <4>. QED
        BY <1>8, <4>1, LastCell
    <3>5. CellsFor(page, d) # {} =>
            p2[LastOf(CellsFor(page, d))] = page[LastOf(CellsFor(page, d))]
      BY <1>6, <1>7, <2>12, <3>4
    <3>. QED
      BY <2>7, <3>1, <3>2, <3>3, <3>5
  <2>13. RootIsCurrent'
    BY <1>0, <2>12 DEF RootIsCurrent
  <2>. QED
    BY <2>2, <2>6, <2>7, <2>9, <2>11, <2>13
<1>11. VectorsAreRight'
  <2>1. MapsInverse'
    BY <1>10 DEF MapsInverse
  <2>. QED
    BY <1>0, <1>1, <1>10, <2>1 DEF VectorsAreRight
<1>12. ~clash' => \A d : d # doc =>
         /\ d \in DOMAIN Vectors' <=> d \in DOMAIN Vectors
         /\ d \in DOMAIN Vectors => Vectors'[d] = Vectors[d]
  BY <1>10
<1>. QED
  BY <1>1, <1>3, <1>6, <1>9, <1>11, <1>12

-----------------------------------------------------------------------------
(* Metadata.                                                               *)

MetadataIsRight ==
  /\ metadata \in [DOMAIN metadata -> Metas] /\ DOMAIN metadata \subseteq DocIds
  /\ metaPages \in Seq(Seq(MCells)) /\ metaPages # <<>>
  /\ MetadataIsCurrent

LEMMA MetadataAtStart == IndInv => MetadataIsRight
  BY DEF IndInv, TypeOK, MetadataIsRight, MCells

\* One more cell hides none of the others, and the last one of a document is
\* the one that was written for it.
LEMMA MetadataStored ==
  ASSUME IndInv, NEW doc \in DocIds, NEW m \in Metas, StoreMetadata(doc, m)
  PROVE  MetadataIsRight'
<1>0. PICK page, p2, cell :
        /\ page = metaPages[1] /\ p2 = metaPages'[1]
        /\ cell = [kind |-> "meta", doc |-> doc, val |-> m]
  OBVIOUS
<1>1. metaPages' = WithCell(metaPages, cell) /\ metadata' = With(metadata, doc, m)
  BY <1>0 DEF StoreMetadata
<1>2. cell \in MCells /\ cell.doc = doc /\ cell.kind = "meta" /\ cell.val = m
  BY <1>0 DEF MetaCell, MCells
<1>3. metaPages \in Seq(Seq(MCells)) /\ metaPages # <<>> /\ page \in Seq(MCells)
  BY <1>0, RootTyped DEF IndInv
<1>4. /\ metaPages' \in Seq(Seq(MCells)) /\ metaPages' # <<>>
      /\ Len(metaPages') = 1 => Len(metaPages) = 1 /\ p2 = Append(page, cell)
  BY <1>0, <1>1, <1>2, <1>3, CellWritten
<1>5. /\ DOMAIN metadata' = DOMAIN metadata \cup {doc} /\ metadata'[doc] = m
      /\ \A d \in DOMAIN metadata : d # doc => metadata'[d] = metadata[d]
      /\ metadata' = [d \in DOMAIN metadata' |-> metadata'[d]]
  BY <1>1 DEF With
<1>6. metadata' \in [DOMAIN metadata' -> Metas] /\ DOMAIN metadata' \subseteq DocIds
  <2>1. \A d \in DOMAIN metadata' : metadata'[d] \in Metas /\ d \in DocIds
    BY <1>5 DEF IndInv, TypeOK
  <2>. QED
    BY <1>5, <2>1
<1>7. p2 = Append(page, cell) =>
        /\ DOMAIN p2 = DOMAIN page \cup {Len(page) + 1} /\ p2[Len(page) + 1] = cell
        /\ DOMAIN page = 1..Len(page) /\ Len(page) \in Nat
        /\ \A i \in DOMAIN page : p2[i] = page[i]
  BY <1>2, <1>3, AppendedCell
<1>8. ASSUME Len(metaPages') = 1, NEW d \in DOMAIN metadata'
      PROVE  /\ MetaCellsFor(p2, d) # {}
             /\ metadata'[d] = p2[LastOf(MetaCellsFor(p2, d))].val
  <2>1. CASE d = doc
    <3>1. Len(page) + 1 \in MetaCellsFor(p2, d)
      BY <1>2, <1>4, <1>7, <1>8, <2>1 DEF MetaCellsFor
    <3>2. MetaCellsFor(p2, d) \in SUBSET (1..(Len(page) + 1))
      <4>1. \A i \in DOMAIN p2 : i \in 1..Len(page) \/ i = Len(page) + 1
        BY <1>4, <1>7, <1>8
      <4>2. \A i \in DOMAIN p2 : i \in 1..(Len(page) + 1)
        BY <1>4, <1>7, <1>8, <4>1
      <4>. QED
        BY <4>2 DEF MetaCellsFor
    <3>3. LastOf(MetaCellsFor(p2, d)) = Len(page) + 1
      <4>1. Len(page) \in Nat
        BY <1>4, <1>7, <1>8
      <4>2. Len(page) + 1 \in Nat /\ \A i \in MetaCellsFor(p2, d) : i <= Len(page) + 1
        BY <3>2, <4>1
      <4>. QED
        BY <3>1, <3>2, <4>2, LastCellIs
    <3>. QED
      BY <1>2, <1>4, <1>5, <1>7, <1>8, <2>1, <3>1, <3>3
  <2>2. CASE d # doc
    <3>1. d \in DOMAIN metadata /\ metadata'[d] = metadata[d]
      BY <1>5, <1>8, <2>2
    <3>2. /\ MetaCellsFor(page, d) # {}
          /\ metadata[d] = page[LastOf(MetaCellsFor(page, d))].val
      BY <1>0, <1>4, <1>8, <3>1 DEF IndInv, MetadataIsCurrent
    <3>3. MetaCellsFor(p2, d) = MetaCellsFor(page, d)
      BY <1>2, <1>4, <1>7, <1>8, <2>2 DEF MetaCellsFor
    <3>4. LastOf(MetaCellsFor(page, d)) \in DOMAIN page
      <4>1. MetaCellsFor(page, d) \in SUBSET (1..Len(page)) /\ Len(page) \in Nat
        BY <1>4, <1>7, <1>8 DEF MetaCellsFor
      <4>2. LastOf(MetaCellsFor(page, d)) \in MetaCellsFor(page, d)
        BY <3>2, <4>1, LastCell
      <4>. QED
        BY <4>2 DEF MetaCellsFor
    <3>. QED
      BY <1>4, <1>7, <1>8, <3>1, <3>2, <3>3, <3>4
  <2>. QED
    BY <2>1, <2>2
<1>9. MetadataIsCurrent'
  BY <1>0, <1>8 DEF MetadataIsCurrent
<1>. QED
  BY <1>4, <1>6, <1>9 DEF MetadataIsRight

\* A tombstone leaves the metadata cells on the page as they are.
LEMMA MetadataRemoved ==
  ASSUME IndInv, NEW doc \in DocIds, metadata' = Without(metadata, doc),
         metaPages' = WithCell(metaPages, [kind |-> "tombstone", doc |-> doc])
  PROVE  MetadataIsRight'
<1>0. PICK page, p2, cell :
        /\ page = metaPages[1] /\ p2 = metaPages'[1]
        /\ cell = [kind |-> "tombstone", doc |-> doc]
  OBVIOUS
<1>1. metaPages' = WithCell(metaPages, cell)
  BY <1>0
<1>2. cell \in MCells /\ cell.kind = "tombstone"
  BY <1>0 DEF Tombstone, MCells
<1>3. metaPages \in Seq(Seq(MCells)) /\ metaPages # <<>> /\ page \in Seq(MCells)
  BY <1>0, RootTyped DEF IndInv
<1>4. /\ metaPages' \in Seq(Seq(MCells)) /\ metaPages' # <<>>
      /\ Len(metaPages') = 1 => Len(metaPages) = 1 /\ p2 = Append(page, cell)
  BY <1>0, <1>1, <1>2, <1>3, CellWritten
<1>5. /\ DOMAIN metadata' = DOMAIN metadata \ {doc}
      /\ \A d \in DOMAIN metadata' : metadata'[d] = metadata[d]
      /\ metadata' = [d \in DOMAIN metadata' |-> metadata'[d]]
  BY DEF Without
<1>6. metadata' \in [DOMAIN metadata' -> Metas] /\ DOMAIN metadata' \subseteq DocIds
  <2>1. \A d \in DOMAIN metadata' : metadata'[d] \in Metas /\ d \in DocIds
    BY <1>5 DEF IndInv, TypeOK
  <2>. QED
    BY <1>5, <2>1
<1>7. p2 = Append(page, cell) =>
        /\ DOMAIN p2 = DOMAIN page \cup {Len(page) + 1} /\ p2[Len(page) + 1] = cell
        /\ DOMAIN page = 1..Len(page) /\ Len(page) \in Nat
        /\ \A i \in DOMAIN page : p2[i] = page[i]
  BY <1>2, <1>3, AppendedCell
<1>8. ASSUME Len(metaPages') = 1, NEW d \in DOMAIN metadata'
      PROVE  /\ MetaCellsFor(p2, d) # {}
             /\ metadata'[d] = p2[LastOf(MetaCellsFor(p2, d))].val
  <2>1. /\ MetaCellsFor(page, d) # {}
        /\ metadata[d] = page[LastOf(MetaCellsFor(page, d))].val
    BY <1>0, <1>4, <1>5, <1>8 DEF IndInv, MetadataIsCurrent
  <2>2. MetaCellsFor(p2, d) = MetaCellsFor(page, d)
    BY <1>2, <1>4, <1>7, <1>8 DEF MetaCellsFor
  <2>3. LastOf(MetaCellsFor(page, d)) \in DOMAIN page
    <3>1. MetaCellsFor(page, d) \in SUBSET (1..Len(page)) /\ Len(page) \in Nat
      BY <1>4, <1>7, <1>8 DEF MetaCellsFor
    <3>2. LastOf(MetaCellsFor(page, d)) \in MetaCellsFor(page, d)
      BY <2>1, <3>1, LastCell
    <3>. QED
      BY <3>2 DEF MetaCellsFor
  <2>. QED
    BY <1>4, <1>5, <1>7, <1>8, <2>1, <2>2, <2>3
<1>9. MetadataIsCurrent'
  BY <1>0, <1>8 DEF MetadataIsCurrent
<1>. QED
  BY <1>4, <1>6, <1>9 DEF MetadataIsRight

-----------------------------------------------------------------------------
(* Every step keeps the invariant.                                         *)

VectorsAreTyped ==
  /\ phase \in {"open", "closing", "closed", "crashed"}
  /\ counter \in Nat
  /\ idMap \in [DOMAIN idMap -> Nat] /\ DOMAIN idMap \subseteq DocIds
  /\ reverse \in [DOMAIN reverse -> DocIds] /\ DOMAIN reverse \subseteq Nat
  /\ index \in [DOMAIN index -> Vecs] /\ DOMAIN index \subseteq Nat
  /\ data \in Seq(Seq(VCells)) /\ data # <<>>
  /\ disk \in [data : Seq(VCells), meta : Seq(MCells)]
  /\ clash \in BOOLEAN

LEMMA InvariantParts ==
  IndInv <=> VectorsAreTyped /\ MetadataIsRight /\ DocsAreInUse /\ VectorsAreRight
  BY DEF IndInv, TypeOK, VectorsAreTyped, MetadataIsRight, VCells, MCells

\* A step changes the vector of this document and of no other.
OnlyChanges(doc) ==
  /\ doc \in DocIdsInUse
  /\ ~clash' => \A d : d # doc =>
       /\ d \in DOMAIN Vectors' <=> d \in DOMAIN Vectors
       /\ d \in DOMAIN Vectors => Vectors'[d] = Vectors[d]

\* insert, whichever of the two fields it comes with.
LEMMA InsertingKeeps ==
  ASSUME IndInv, NEW doc, NEW first, Inserting(doc, first),
         \/ UNCHANGED <<index, data>>
         \/ \E v \in Vecs : StoreVector(doc, InternalId(doc, first), v),
         \/ UNCHANGED <<metadata, metaPages>>
         \/ \E m \in Metas : StoreMetadata(doc, m)
  PROVE  IndInv' /\ OnlyChanges(doc)
<1>0. PICK id : id = InternalId(doc, first)
  OBVIOUS
<1>a. Registering(doc, id)
  BY <1>0, Registered
<1>1. /\ doc \in DocIds /\ doc \in DocIdsInUse /\ counter' \in Nat /\ clash' \in BOOLEAN
      /\ idMap' \in [DOMAIN idMap' -> Nat] /\ DOMAIN idMap' \subseteq DocIds
      /\ reverse' \in [DOMAIN reverse' -> DocIds] /\ DOMAIN reverse' \subseteq Nat
  BY <1>a DEF Registering
<1>2. UNCHANGED <<phase, disk>>
  BY DEF Inserting
<1>3. MetadataIsRight'
  <2>1. CASE UNCHANGED <<metadata, metaPages>>
    BY <2>1, MetadataAtStart DEF MetadataIsRight, MetadataIsCurrent, MetaCellsFor, LastOf
  <2>2. ASSUME NEW m \in Metas, StoreMetadata(doc, m) PROVE MetadataIsRight'
    BY <1>1, <2>2, MetadataStored
  <2>. QED
    BY <2>1, <2>2
<1>4. CASE UNCHANGED <<index, data>>
  <2>1. DocsAreInUse' /\ VectorsAreRight'
    BY <1>4, NoVectorKeeps
  <2>2. VectorsAreTyped'
    BY <1>1, <1>2, <1>4 DEF IndInv, TypeOK, VectorsAreTyped, VCells, MCells
  <2>3. IndInv'
    BY <1>3, <2>1, <2>2, InvariantParts, PTL
  <2>4. ASSUME ~clash'
        PROVE  \A d : d # doc =>
                 /\ d \in DOMAIN Vectors' <=> d \in DOMAIN Vectors
                 /\ d \in DOMAIN Vectors => Vectors'[d] = Vectors[d]
    <3>1. /\ DOMAIN index' \subseteq DOMAIN index \cup {id} /\ DOMAIN index \subseteq DOMAIN index'
          /\ \A n \in DOMAIN index : n # id => index'[n] = index[n]
      BY <1>4
    <3>. QED
      BY <1>0, <2>4, <3>1, InsertKeepsMaps
  <2>. QED
    BY <1>1, <2>3, <2>4 DEF OnlyChanges
<1>5. ASSUME NEW v \in Vecs, StoreVector(doc, id, v)
      PROVE  IndInv' /\ OnlyChanges(doc)
  <2>1. /\ data' \in Seq(Seq(VCells)) /\ data' # <<>>
        /\ index' \in [DOMAIN index' -> Vecs] /\ DOMAIN index' \subseteq Nat
        /\ DocsAreInUse' /\ VectorsAreRight'
    BY <1>0, <1>5, VectorKeeps
  <2>2. VectorsAreTyped'
    BY <1>1, <1>2, <2>1 DEF IndInv, TypeOK, VectorsAreTyped, VCells, MCells
  <2>3. IndInv'
    BY <1>3, <2>1, <2>2, InvariantParts, PTL
  <2>4. ASSUME ~clash'
        PROVE  \A d : d # doc =>
                 /\ d \in DOMAIN Vectors' <=> d \in DOMAIN Vectors
                 /\ d \in DOMAIN Vectors => Vectors'[d] = Vectors[d]
    <3>1. /\ DOMAIN index' \subseteq DOMAIN index \cup {id} /\ DOMAIN index \subseteq DOMAIN index'
          /\ \A n \in DOMAIN index : n # id => index'[n] = index[n]
      BY <1>5 DEF StoreVector, With
    <3>. QED
      BY <1>0, <2>4, <3>1, InsertKeepsMaps
  <2>. QED
    BY <1>1, <2>3, <2>4 DEF OnlyChanges
<1>. QED
  BY <1>0, <1>4, <1>5

LEMMA InsertKeeps ==
  ASSUME IndInv, NEW doc, NEW first, Insert(doc, first)
  PROVE  IndInv' /\ OnlyChanges(doc)
<1>1. /\ Inserting(doc, first)
      /\ \/ UNCHANGED <<index, data>>
         \/ \E v \in Vecs : StoreVector(doc, InternalId(doc, first), v)
      /\ \/ UNCHANGED <<metadata, metaPages>>
         \/ \E m \in Metas : StoreMetadata(doc, m)
  BY DEF Insert, InsertVector, InsertMetadata, InsertBoth, InsertNothing, chains
<1>. QED
  BY <1>1, InsertingKeeps

LEMMA DeleteKeeps ==
  ASSUME IndInv, NEW doc, Delete(doc)
  PROVE  IndInv' /\ OnlyChanges(doc)
<1>1. /\ data' \in Seq(Seq(VCells)) /\ data' # <<>>
      /\ idMap' \in [DOMAIN idMap' -> Nat] /\ DOMAIN idMap' \subseteq DocIds
      /\ reverse' \in [DOMAIN reverse' -> DocIds] /\ DOMAIN reverse' \subseteq Nat
      /\ index' \in [DOMAIN index' -> Vecs] /\ DOMAIN index' \subseteq Nat
      /\ DocsAreInUse' /\ VectorsAreRight'
      /\ doc \in DocIdsInUse
      /\ ~clash' => \A d : d # doc =>
           /\ d \in DOMAIN Vectors' <=> d \in DOMAIN Vectors
           /\ d \in DOMAIN Vectors => Vectors'[d] = Vectors[d]
  BY DeleteKeepsVectors
<1>2. /\ doc \in DocIds /\ UNCHANGED <<phase, counter, disk, clash>>
      /\ metadata' = Without(metadata, doc)
      /\ metaPages' = WithCell(metaPages, [kind |-> "tombstone", doc |-> doc])
  BY DEF Delete, IndInv, TypeOK
<1>3. MetadataIsRight'
  BY <1>2, MetadataRemoved
<1>4. VectorsAreTyped'
  BY <1>1, <1>2 DEF IndInv, TypeOK, VectorsAreTyped, VCells, MCells
<1>5. IndInv'
  BY <1>1, <1>3, <1>4, InvariantParts, PTL
<1>. QED
  BY <1>1, <1>5 DEF OnlyChanges

LEMMA RootUnchanged ==
  ASSUME UNCHANGED data, Vectors' = Vectors, RootIsCurrent
  PROVE  RootIsCurrent'
<1>1. PICK page : page = data[1] /\ page = data'[1]
  OBVIOUS
<1>2. Len(data) = 1 =>
        \A d \in DocIdsInUse \ Tombstoned(page) :
          /\ d \in DOMAIN Vectors <=> CellsFor(page, d) # {}
          /\ d \in DOMAIN Vectors => Vectors[d] = page[LastOf(CellsFor(page, d))].vec
  BY <1>1 DEF RootIsCurrent
<1>3. Len(data') = 1 =>
        \A d \in DocIdsInUse \ Tombstoned(page) :
          /\ d \in DOMAIN Vectors' <=> CellsFor(page, d) # {}
          /\ d \in DOMAIN Vectors' => Vectors'[d] = page[LastOf(CellsFor(page, d))].vec
  BY <1>2
<1>. QED
  BY <1>1, <1>3 DEF RootIsCurrent

LEMMA VectorsUnchanged ==
  ASSUME UNCHANGED <<idMap, reverse, index, data, disk, clash>>
  PROVE  /\ DocsAreInUse => DocsAreInUse'
         /\ VectorsAreRight => VectorsAreRight'
         /\ Vectors' = Vectors
<1>1. DocsAreInUse => DocsAreInUse'
  BY DEF DocsAreInUse, DocIdsInUse
<1>2. Vectors' = Vectors
  BY DEF Vectors
<1>3. MapsInverse => MapsInverse'
  BY DEF MapsInverse
<1>4. /\ Consistent(data[1]) => Consistent(data[1])'
      /\ Consistent(disk.data) => Consistent(disk.data)'
  BY DEF Consistent, LiveCells, Tombstoned
<1>5. RootInMaps => RootInMaps'
  BY DEF RootInMaps, LiveCells, Tombstoned
<1>6. RootIsCurrent => RootIsCurrent'
  BY <1>2, RootUnchanged
<1>. QED
  BY <1>1, <1>2, <1>3, <1>4, <1>5, <1>6 DEF VectorsAreRight

LEMMA DeleteUnknownKeeps ==
  ASSUME IndInv, NEW doc, doc \in Names \cup DOMAIN idMap \cup DOMAIN metadata,
         DeleteUnknown(doc)
  PROVE  IndInv' /\ Vectors' = Vectors
<1>1. /\ doc \in DocIds
      /\ UNCHANGED <<phase, counter, idMap, reverse, index, data, disk, clash>>
      /\ metadata' = Without(metadata, doc)
      /\ metaPages' = WithCell(metaPages, [kind |-> "tombstone", doc |-> doc])
  BY DEF DeleteUnknown, IndInv, TypeOK, DocIds
<1>2. MetadataIsRight'
  BY <1>1, MetadataRemoved
<1>3. VectorsAreTyped'
  BY <1>1 DEF IndInv, TypeOK, VectorsAreTyped, VCells, MCells
<1>4. DocsAreInUse' /\ VectorsAreRight' /\ Vectors' = Vectors
  BY <1>1, VectorsUnchanged DEF IndInv
<1>. QED
  BY <1>2, <1>3, <1>4, InvariantParts, PTL

-----------------------------------------------------------------------------
(* Sessions.                                                               *)

\* What a reload makes of a page whose documents and internal ids belong
\* together: maps that are inverse, and the last vector of every document.
LEMMA LoadedConsistent ==
  ASSUME NEW page \in Seq(VCells), Consistent(page)
  PROVE  /\ \A d \in DOMAIN LoadIds(page) :
              /\ LoadIds(page)[d] \in DOMAIN LoadReverse(page)
              /\ LoadReverse(page)[LoadIds(page)[d]] = d
              /\ LoadIndex(page)[LoadIds(page)[d]] = page[LastOf(CellsFor(page, d))].vec
         /\ \A n \in DOMAIN LoadReverse(page) :
              /\ LoadReverse(page)[n] \in DOMAIN LoadIds(page)
              /\ LoadIds(page)[LoadReverse(page)[n]] = n
         /\ \A i \in LiveCells(page) : LoadIds(page)[page[i].doc] = page[i].id
         /\ DOMAIN LoadIndex(page) = DOMAIN LoadReverse(page)
<1>1. \A i, j \in LiveCells(page) : page[i].doc = page[j].doc <=> page[i].id = page[j].id
  BY DEF Consistent
<1>2. /\ DOMAIN LoadIds(page) = {page[i].doc : i \in LiveCells(page)}
      /\ \A d \in DOMAIN LoadIds(page) :
           /\ LastOf(CellsFor(page, d)) \in CellsFor(page, d)
           /\ LoadIds(page)[d] = page[LastOf(CellsFor(page, d))].id
  BY LoadedIds
<1>3. /\ DOMAIN LoadReverse(page) = {page[i].id : i \in LiveCells(page)}
      /\ DOMAIN LoadIndex(page) = {page[i].id : i \in LiveCells(page)}
      /\ \A n \in DOMAIN LoadIndex(page) :
           /\ LastOf(IdCells(page, n)) \in IdCells(page, n)
           /\ LoadReverse(page)[n] = page[LastOf(IdCells(page, n))].doc
           /\ LoadIndex(page)[n] = page[LastOf(IdCells(page, n))].vec
  BY LoadedById
<1>4. ASSUME NEW i \in LiveCells(page) PROVE LoadIds(page)[page[i].doc] = page[i].id
  <2>1. PICK k \in CellsFor(page, page[i].doc) : LoadIds(page)[page[i].doc] = page[k].id
    BY <1>2
  <2>. QED
    BY <1>1, <2>1 DEF CellsFor
<1>5. ASSUME NEW d \in DOMAIN LoadIds(page)
      PROVE  /\ LoadIds(page)[d] \in DOMAIN LoadReverse(page)
             /\ LoadReverse(page)[LoadIds(page)[d]] = d
             /\ LoadIndex(page)[LoadIds(page)[d]] = page[LastOf(CellsFor(page, d))].vec
  <2>1. PICK n : n = LoadIds(page)[d]
    OBVIOUS
  <2>2. PICK i \in LiveCells(page) : page[i].doc = d /\ page[i].id = n
    BY <1>2, <2>1 DEF CellsFor
  <2>3. n \in DOMAIN LoadReverse(page) /\ n \in DOMAIN LoadIndex(page)
    BY <1>3, <2>2
  <2>4. IdCells(page, n) = CellsFor(page, d)
    BY <1>1, <2>2 DEF IdCells, CellsFor
  <2>5. page[LastOf(CellsFor(page, d))].doc = d
    BY <1>2 DEF CellsFor
  <2>. QED
    BY <1>3, <2>1, <2>3, <2>4, <2>5
<1>6. ASSUME NEW n \in DOMAIN LoadReverse(page)
      PROVE  /\ LoadReverse(page)[n] \in DOMAIN LoadIds(page)
             /\ LoadIds(page)[LoadReverse(page)[n]] = n
  <2>1. PICK j \in IdCells(page, n) : LoadReverse(page)[n] = page[j].doc
    BY <1>3
  <2>2. j \in LiveCells(page) /\ page[j].id = n
    BY <2>1 DEF IdCells
  <2>. QED
    BY <1>2, <1>4, <2>1, <2>2
<1>. QED
  BY <1>3, <1>4, <1>5, <1>6

LEMMA OpenKeeps ==
  ASSUME IndInv, Open
  PROVE  IndInv'
<1>1. PICK page, meta : page = disk.data /\ meta = disk.meta
  OBVIOUS
<1>2. page \in Seq(VCells) /\ meta \in Seq(MCells)
  BY <1>1, RootTyped DEF IndInv
<1>3. /\ phase' = "open" /\ data' = <<page>> /\ metaPages' = <<meta>>
      /\ idMap' = LoadIds(page) /\ reverse' = LoadReverse(page) /\ index' = LoadIndex(page)
      /\ metadata' = LoadMetadata(meta) /\ disk' = disk /\ clash' = clash
      /\ counter' = Cardinality(DOMAIN LoadIndex(page)) + Offset
  BY <1>1 DEF Open
<1>4. \A i \in DOMAIN page : page[i].doc \in DocIdsInUse
  BY <1>1 DEF IndInv, DocsAreInUse
<1>5. \A i \in LiveCells(page) : i \in DOMAIN page /\ page[i].doc \in DocIds /\ page[i].id \in Nat
  BY <1>2, PageFacts DEF LiveCells
<1>6. VectorsAreTyped'
  <2>1. counter' \in Nat
    BY <1>2, <1>3, LoadedIsFinite, CollectionConstants
  <2>a. /\ LoadIds(page) \in [DOMAIN LoadIds(page) -> Nat]
        /\ DOMAIN LoadIds(page) = {page[i].doc : i \in LiveCells(page)}
    BY <1>2, LoadedIds
  <2>b. /\ LoadReverse(page) \in [DOMAIN LoadReverse(page) -> DocIds]
        /\ LoadIndex(page) \in [DOMAIN LoadIndex(page) -> Vecs]
        /\ DOMAIN LoadReverse(page) = {page[i].id : i \in LiveCells(page)}
        /\ DOMAIN LoadIndex(page) = {page[i].id : i \in LiveCells(page)}
    BY <1>2, LoadedById
  <2>2. idMap' \in [DOMAIN idMap' -> Nat] /\ DOMAIN idMap' \subseteq DocIds
    <3>1. DOMAIN LoadIds(page) \subseteq DocIds
      BY <1>5, <2>a
    <3>. QED
      BY <1>3, <2>a, <3>1
  <2>3. reverse' \in [DOMAIN reverse' -> DocIds] /\ DOMAIN reverse' \subseteq Nat
    <3>1. DOMAIN LoadReverse(page) \subseteq Nat
      BY <1>5, <2>b
    <3>. QED
      BY <1>3, <2>b, <3>1
  <2>4. index' \in [DOMAIN index' -> Vecs] /\ DOMAIN index' \subseteq Nat
    <3>1. DOMAIN LoadIndex(page) \subseteq Nat
      BY <1>5, <2>b
    <3>. QED
      BY <1>3, <2>b, <3>1
  <2>5. data' \in Seq(Seq(VCells)) /\ data' # <<>>
    BY <1>2, <1>3
  <2>. QED
    BY <1>3, <2>1, <2>2, <2>3, <2>4, <2>5 DEF IndInv, TypeOK, VectorsAreTyped, VCells, MCells
<1>7. MetadataIsRight'
  <2>1. metaPages' \in Seq(Seq(MCells)) /\ metaPages' # <<>> /\ metaPages'[1] = meta
    BY <1>2, <1>3
  <2>2. /\ metadata' \in [DOMAIN metadata' -> Metas] /\ DOMAIN metadata' \subseteq DocIds
        /\ \A d \in DOMAIN metadata' :
             /\ MetaCellsFor(meta, d) # {}
             /\ metadata'[d] = meta[LastOf(MetaCellsFor(meta, d))].val
    BY <1>2, <1>3, LoadedMetadata
  <2>. QED
    BY <2>1, <2>2 DEF MetadataIsRight, MetadataIsCurrent
<1>8. data'[1] = page /\ disk'.data = page
  BY <1>1, <1>3
<1>9. DocsAreInUse'
  <2>1. DOMAIN idMap' \subseteq DocIdsInUse
    <3>1. DOMAIN LoadIds(page) = {page[i].doc : i \in LiveCells(page)}
      BY <1>2, LoadedIds
    <3>. QED
      BY <1>3, <1>4, <1>5, <3>1
  <2>. QED
    BY <1>4, <1>8, <2>1 DEF DocsAreInUse, DocIdsInUse
<1>10. ASSUME ~clash
       PROVE  /\ MapsInverse' /\ Consistent(data[1])' /\ Consistent(disk.data)'
              /\ RootInMaps' /\ RootIsCurrent'
  <2>1. Consistent(page)
    BY <1>1, <1>10 DEF IndInv, VectorsAreRight
  <2>2. /\ \A d \in DOMAIN idMap' :
             /\ idMap'[d] \in DOMAIN reverse' /\ reverse'[idMap'[d]] = d
             /\ index'[idMap'[d]] = page[LastOf(CellsFor(page, d))].vec
        /\ \A n \in DOMAIN reverse' : reverse'[n] \in DOMAIN idMap' /\ idMap'[reverse'[n]] = n
        /\ \A i \in LiveCells(page) : idMap'[page[i].doc] = page[i].id
        /\ DOMAIN index' = DOMAIN reverse'
    BY <1>2, <1>3, <2>1, LoadedConsistent
  <2>3. DOMAIN idMap' = {page[i].doc : i \in LiveCells(page)}
    BY <1>2, <1>3, LoadedIds
  <2>4. MapsInverse'
    BY <2>2 DEF MapsInverse
  <2>5. Consistent(data[1])' /\ Consistent(disk.data)'
    BY <1>8, <2>1 DEF Consistent, LiveCells, Tombstoned
  <2>6. RootInMaps'
    <3>1. \A i \in LiveCells(page) : page[i].doc \in DOMAIN idMap' /\ idMap'[page[i].doc] = page[i].id
      BY <2>2, <2>3
    <3>. QED
      BY <1>8, <3>1 DEF RootInMaps
  <2>7. RootIsCurrent'
    <3>1. ASSUME NEW d
          PROVE  /\ d \in DOMAIN Vectors' <=> CellsFor(page, d) # {}
                 /\ d \in DOMAIN Vectors' => Vectors'[d] = page[LastOf(CellsFor(page, d))].vec
      <4>1. d \in DOMAIN idMap' <=> CellsFor(page, d) # {}
        BY <2>3 DEF CellsFor
      <4>2. d \in DOMAIN Vectors' <=> d \in DOMAIN idMap'
        BY <2>2 DEF Vectors
      <4>3. d \in DOMAIN Vectors' => Vectors'[d] = index'[idMap'[d]]
        BY DEF Vectors
      <4>. QED
        BY <2>2, <4>1, <4>2, <4>3
    <3>. QED
      BY <1>8, <3>1 DEF RootIsCurrent
  <2>. QED
    BY <2>4, <2>5, <2>6, <2>7
<1>11. VectorsAreRight'
  <2>1. MapsInverse'
    BY <1>3, <1>10 DEF MapsInverse
  <2>. QED
    BY <1>3, <1>10, <2>1 DEF VectorsAreRight
<1>. QED
  BY <1>6, <1>7, <1>9, <1>11, InvariantParts, PTL

\* close, Drop and their writes: the root page of the file is the one in memory.
LEMMA ClosingKeeps ==
  ASSUME IndInv, Close \/ FlushData \/ FlushMetadata \/ Closed
  PROVE  IndInv'
<1>1. /\ UNCHANGED <<counter, idMap, reverse, index, metadata, data, metaPages, clash>>
      /\ phase' \in {"open", "closing", "closed", "crashed"}
      /\ \/ disk' = disk
         \/ disk' = [disk EXCEPT !.data = data[1]]
         \/ disk' = [disk EXCEPT !.meta = metaPages[1]]
  BY DEF Close, FlushData, FlushMetadata, Closed, IndInv, TypeOK, tables, chains
<1>2. /\ disk \in [data : Seq(VCells), meta : Seq(MCells)]
      /\ data[1] \in Seq(VCells) /\ metaPages[1] \in Seq(MCells)
  <2>1. disk \in [data : Seq(VCells), meta : Seq(MCells)]
    BY DEF IndInv, TypeOK, VCells, MCells
  <2>. QED
    BY <2>1, RootTyped DEF IndInv
<1>3. /\ disk' \in [data : Seq(VCells), meta : Seq(MCells)]
      /\ disk'.data = disk.data \/ disk'.data = data[1]
  BY <1>1, <1>2
<1>4. VectorsAreTyped'
  BY <1>1, <1>3 DEF IndInv, TypeOK, VectorsAreTyped, VCells, MCells
<1>5. MetadataIsRight'
  BY <1>1, MetadataAtStart DEF MetadataIsRight, MetadataIsCurrent, MetaCellsFor, LastOf
<1>6. DocsAreInUse'
  BY <1>1, <1>3 DEF IndInv, DocsAreInUse, DocIdsInUse
<1>7. VectorsAreRight'
  <2>1. Vectors' = Vectors
    BY <1>1 DEF Vectors
  <2>2. MapsInverse /\ MapsInverse'
    BY <1>1 DEF IndInv, VectorsAreRight, MapsInverse
  <2>3. ASSUME ~clash'
        PROVE  /\ Consistent(data[1])' /\ Consistent(disk.data)'
               /\ RootInMaps' /\ RootIsCurrent'
    <3>1. Consistent(data[1]) /\ Consistent(disk.data) /\ RootInMaps /\ RootIsCurrent
      BY <1>1, <2>3 DEF IndInv, VectorsAreRight
    <3>2. Consistent(data[1])'
      BY <1>1, <3>1 DEF Consistent, LiveCells, Tombstoned
    <3>3. Consistent(disk.data)'
      <4>1. PICK page : page = disk'.data /\ (page = disk.data \/ page = data[1])
        BY <1>3
      <4>2. Consistent(page)
        <5>1. CASE page = disk.data
          BY <3>1, <5>1
        <5>2. CASE page = data[1]
          BY <3>1, <5>2
        <5>. QED
          BY <4>1, <5>1, <5>2
      <4>3. Consistent(disk.data)' <=> Consistent(page)
        BY <4>1 DEF Consistent, LiveCells, Tombstoned
      <4>. QED
        BY <4>2, <4>3
    <3>4. RootInMaps'
      BY <1>1, <3>1 DEF RootInMaps, LiveCells, Tombstoned
    <3>5. RootIsCurrent'
      BY <1>1, <2>1, <3>1, RootUnchanged
    <3>. QED
      BY <3>2, <3>3, <3>4, <3>5
  <2>. QED
    BY <2>2, <2>3 DEF VectorsAreRight
<1>. QED
  BY <1>4, <1>5, <1>6, <1>7, InvariantParts, PTL

\* Nothing in memory, as before the first open and after a crash.
Empty ==
  /\ phase \in {"closed", "crashed"} /\ counter = 1 /\ clash \in BOOLEAN
  /\ idMap = <<>> /\ reverse = <<>> /\ index = <<>> /\ metadata = <<>>
  /\ data = << <<>> >> /\ metaPages = << <<>> >>
  /\ disk \in [data : Seq(VCells), meta : Seq(MCells)]
  /\ \A i \in DOMAIN disk.data : disk.data[i].doc \in DocIdsInUse
  /\ ~clash => Consistent(disk.data)

LEMMA EmptyIsRight == Empty => IndInv
<1>. SUFFICES ASSUME Empty PROVE IndInv
  OBVIOUS
<1>1. /\ DOMAIN idMap = {} /\ DOMAIN reverse = {} /\ DOMAIN index = {} /\ DOMAIN metadata = {}
      /\ data[1] = <<>> /\ metaPages[1] = <<>> /\ DOMAIN data[1] = {}
  BY DEF Empty
<1>2. LiveCells(data[1]) = {} /\ DOMAIN Vectors = {} /\ \A d : CellsFor(data[1], d) = {}
  BY <1>1 DEF LiveCells, Vectors, CellsFor
<1>3. VectorsAreTyped
  <2>1. /\ idMap \in [DOMAIN idMap -> Nat] /\ reverse \in [DOMAIN reverse -> DocIds]
        /\ index \in [DOMAIN index -> Vecs]
    BY DEF Empty
  <2>2. data \in Seq(Seq(VCells)) /\ data # <<>>
    BY DEF Empty
  <2>. QED
    BY <1>1, <2>1, <2>2 DEF Empty, VectorsAreTyped
<1>4. MetadataIsRight
  <2>1. metadata \in [DOMAIN metadata -> Metas]
    BY DEF Empty
  <2>2. metaPages \in Seq(Seq(MCells)) /\ metaPages # <<>>
    BY DEF Empty
  <2>. QED
    BY <1>1, <2>1, <2>2 DEF MetadataIsRight, MetadataIsCurrent
<1>5. DocsAreInUse
  BY <1>1 DEF Empty, DocsAreInUse
<1>6. VectorsAreRight
  <2>1. MapsInverse
    BY <1>1 DEF MapsInverse
  <2>2. RootInMaps /\ RootIsCurrent /\ Consistent(data[1])
    BY <1>2 DEF RootInMaps, RootIsCurrent, Consistent
  <2>. QED
    BY <2>1, <2>2 DEF Empty, VectorsAreRight
<1>. QED
  BY <1>3, <1>4, <1>5, <1>6, InvariantParts

LEMMA InitEstablishes == Init => IndInv
<1>. SUFFICES ASSUME Init PROVE Empty
  BY EmptyIsRight
<1>1. disk = [data |-> <<>>, meta |-> <<>>] /\ clash = FALSE
  BY DEF Init
<1>2. disk \in [data : Seq(VCells), meta : Seq(MCells)]
  BY <1>1
<1>3. DOMAIN disk.data = {}
  BY <1>1
<1>4. Consistent(disk.data)
  BY <1>3 DEF Consistent, LiveCells
<1>. QED
  BY <1>1, <1>2, <1>3, <1>4 DEF Init, Empty

LEMMA CrashKeeps ==
  ASSUME IndInv, Crash
  PROVE  IndInv'
<1>1. UNCHANGED <<disk, clash>>
  BY DEF Crash
<1>2. /\ disk \in [data : Seq(VCells), meta : Seq(MCells)] /\ clash \in BOOLEAN
      /\ \A i \in DOMAIN disk.data : disk.data[i].doc \in DocIdsInUse
      /\ ~clash => Consistent(disk.data)
  BY DEF IndInv, TypeOK, DocsAreInUse, VectorsAreRight, VCells, MCells
<1>3. Consistent(disk.data)' <=> Consistent(disk.data)
  BY <1>1 DEF Consistent, LiveCells, Tombstoned
<1>4. Empty'
  BY <1>1, <1>2, <1>3 DEF Crash, Empty, DocIdsInUse
<1>. QED
  BY <1>4, EmptyIsRight, PTL

LEMMA NextKeeps ==
  ASSUME IndInv, [Next]_vars
  PROVE  IndInv'
<1>1. CASE Open
  BY <1>1, OpenKeeps
<1>2. ASSUME NEW doc \in Known, NEW first \in {counter, counter + 1}, Insert(doc, first)
      PROVE  IndInv'
  BY <1>2, InsertKeeps
<1>3. ASSUME NEW doc \in Names \cup DOMAIN idMap \cup DOMAIN metadata,
             Delete(doc) \/ DeleteUnknown(doc)
      PROVE  IndInv'
  BY <1>3, DeleteKeeps, DeleteUnknownKeeps
<1>4. CASE Close \/ FlushData \/ FlushMetadata \/ Closed
  BY <1>4, ClosingKeeps
<1>5. CASE Crash
  BY <1>5, CrashKeeps
<1>6. CASE UNCHANGED vars
  <2>1. UNCHANGED <<phase, counter, idMap, reverse, index, metadata, data, metaPages,
                    disk, clash>>
    BY <1>6 DEF vars
  <2>2. VectorsAreTyped'
    BY <2>1 DEF IndInv, TypeOK, VectorsAreTyped, VCells, MCells
  <2>3. MetadataIsRight'
    BY <2>1, MetadataAtStart DEF MetadataIsRight, MetadataIsCurrent, MetaCellsFor, LastOf
  <2>4. DocsAreInUse' /\ VectorsAreRight'
    BY <2>1, VectorsUnchanged DEF IndInv
  <2>. QED
    BY <2>2, <2>3, <2>4, InvariantParts, PTL
<1>. QED
  BY <1>1, <1>2, <1>3, <1>4, <1>5, <1>6 DEF Next

-----------------------------------------------------------------------------
(* What the invariant says of a reload, and of a call.                     *)

LEMMA RootHoldsVectors ==
  ASSUME IndInv, ~clash, Len(data) = 1, DOMAIN Vectors \cap Tombstoned(data[1]) = {}
  PROVE  VectorsOf(data[1]) = Vectors
<1>1. PICK page : page = data[1]
  OBVIOUS
<1>2. page \in Seq(VCells) /\ Consistent(page) /\ RootIsCurrent
  BY <1>1, RootTyped DEF IndInv, VectorsAreRight
<1>3. /\ DOMAIN LoadIds(page) = {page[i].doc : i \in LiveCells(page)}
      /\ \A d \in DOMAIN LoadIds(page) :
           LoadIndex(page)[LoadIds(page)[d]] = page[LastOf(CellsFor(page, d))].vec
  <2>1. DOMAIN LoadIds(page) = {page[i].doc : i \in LiveCells(page)}
    BY <1>2, LoadedIds
  <2>2. \A d \in DOMAIN LoadIds(page) :
          LoadIndex(page)[LoadIds(page)[d]] = page[LastOf(CellsFor(page, d))].vec
    BY <1>2, LoadedConsistent
  <2>. QED
    BY <2>1, <2>2
<1>4. \A d : d \in DOMAIN LoadIds(page) <=> CellsFor(page, d) # {}
  BY <1>3 DEF CellsFor
<1>5. \A d \in DOMAIN LoadIds(page) : d \in DocIdsInUse \ Tombstoned(page)
  BY <1>1, <1>3 DEF LiveCells, IndInv, DocsAreInUse
<1>6. \A d \in DOMAIN Vectors : d \in DocIdsInUse \ Tombstoned(page)
  BY <1>1 DEF IndInv, DocsAreInUse, Vectors
<1>7. \A d \in DocIdsInUse \ Tombstoned(page) :
        /\ d \in DOMAIN Vectors <=> CellsFor(page, d) # {}
        /\ d \in DOMAIN Vectors => Vectors[d] = page[LastOf(CellsFor(page, d))].vec
  BY <1>1, <1>2 DEF RootIsCurrent
<1>8. /\ DOMAIN LoadIds(page) = DOMAIN Vectors
      /\ \A d \in DOMAIN Vectors : LoadIndex(page)[LoadIds(page)[d]] = Vectors[d]
  BY <1>3, <1>4, <1>5, <1>6, <1>7
<1>9. /\ VectorsOf(page) = [d \in DOMAIN Vectors |-> LoadIndex(page)[LoadIds(page)[d]]]
      /\ Vectors = [d \in DOMAIN Vectors |-> Vectors[d]]
  <2>1. VectorsOf(page) = [d \in DOMAIN LoadIds(page) |-> LoadIndex(page)[LoadIds(page)[d]]]
    BY DEF VectorsOf
  <2>2. Vectors = [d \in DOMAIN Vectors |-> Vectors[d]]
    BY DEF Vectors
  <2>. QED
    BY <1>8, <2>1, <2>2
<1>. QED
  BY <1>1, <1>8, <1>9

LEMMA RootHoldsMetadata ==
  ASSUME IndInv, Len(metaPages) = 1, NEW d \in DOMAIN metadata
  PROVE  /\ d \in DOMAIN LoadMetadata(metaPages[1])
         /\ LoadMetadata(metaPages[1])[d] = metadata[d]
<1>1. PICK page : page = metaPages[1]
  OBVIOUS
<1>2. page \in Seq(MCells)
  BY <1>1, RootTyped DEF IndInv
<1>3. /\ d \in DOMAIN LoadMetadata(page) <=> MetaCellsFor(page, d) # {}
      /\ d \in DOMAIN LoadMetadata(page) =>
           LoadMetadata(page)[d] = page[LastOf(MetaCellsFor(page, d))].val
  BY <1>2, LoadedMetadata
<1>4. /\ MetaCellsFor(page, d) # {}
      /\ metadata[d] = page[LastOf(MetaCellsFor(page, d))].val
  BY <1>1 DEF IndInv, MetadataIsCurrent
<1>. QED
  BY <1>1, <1>3, <1>4

OneDocument ==
  phase = "open" /\ phase' = "open" /\ ~clash' =>
    \E doc \in DocIdsInUse :
      \A d \in (DOMAIN Vectors \cup DOMAIN Vectors') \ {doc} :
        d \in DOMAIN Vectors /\ d \in DOMAIN Vectors' /\ Vectors'[d] = Vectors[d]

LEMMA CallChangesOne ==
  ASSUME IndInv, Next
  PROVE  OneDocument
<1>. SUFFICES ASSUME phase = "open", phase' = "open", ~clash'
              PROVE  \E doc \in DocIdsInUse :
                       \A d \in (DOMAIN Vectors \cup DOMAIN Vectors') \ {doc} :
                         /\ d \in DOMAIN Vectors /\ d \in DOMAIN Vectors'
                         /\ Vectors'[d] = Vectors[d]
  BY DEF OneDocument
<1>1. ASSUME NEW doc, OnlyChanges(doc)
      PROVE  \E e \in DocIdsInUse :
               \A d \in (DOMAIN Vectors \cup DOMAIN Vectors') \ {e} :
                 /\ d \in DOMAIN Vectors /\ d \in DOMAIN Vectors'
                 /\ Vectors'[d] = Vectors[d]
  <2>1. doc \in DocIdsInUse
    BY <1>1 DEF OnlyChanges
  <2>2. \A d : d # doc => /\ d \in DOMAIN Vectors' <=> d \in DOMAIN Vectors
                          /\ d \in DOMAIN Vectors => Vectors'[d] = Vectors[d]
    BY <1>1 DEF OnlyChanges
  <2>. QED
    BY <2>1, <2>2
<1>2. CASE \E doc, first : Insert(doc, first)
  BY <1>1, <1>2, InsertKeeps
<1>3. CASE \E doc : Delete(doc)
  BY <1>1, <1>3, DeleteKeeps
<1>4. ASSUME NEW doc \in Names \cup DOMAIN idMap \cup DOMAIN metadata, DeleteUnknown(doc)
      PROVE  \E e \in DocIdsInUse :
               \A d \in (DOMAIN Vectors \cup DOMAIN Vectors') \ {e} :
                 /\ d \in DOMAIN Vectors /\ d \in DOMAIN Vectors'
                 /\ Vectors'[d] = Vectors[d]
  <2>1. Vectors' = Vectors
    BY <1>4, DeleteUnknownKeeps
  <2>2. 0 \in DocIdsInUse
    BY CollectionConstants DEF DocIdsInUse
  <2>. QED
    BY <2>1, <2>2
<1>5. ~Open /\ ~Close /\ ~FlushData /\ ~FlushMetadata /\ ~Closed /\ ~Crash
  BY DEF Open, Close, FlushData, FlushMetadata, Closed, Crash
<1>. QED
  BY <1>2, <1>3, <1>4, <1>5 DEF Next

-----------------------------------------------------------------------------
(* The theorems.                                                           *)

\* The strengthened invariant holds in every reachable state: it is what the
\* others follow from.
THEOREM InvariantHolds == Spec => []IndInv
<1>1. Init => IndInv
  BY InitEstablishes
<1>2. IndInv /\ [Next]_vars => IndInv'
  BY NextKeeps
<1>. QED
  BY <1>1, <1>2, PTL DEF Spec

\* Every table and every page of the collection keeps its type through inserts,
\* deletes, crashes and reloads: a reload reads back cells of the kind written.
THEOREM TypeCorrect == Spec => []TypeOK
<1>1. IndInv => TypeOK
  BY DEF IndInv
<1>. QED
  BY <1>1, InvariantHolds, PTL

\* id_map and reverse_id_map stay inverse and no vector of the index is without a
\* document, in every session, unless NEXT_DOC_ID gave an internal id out twice.
THEOREM MapsAreInverse == Spec => []MapsInverse
<1>1. IndInv => MapsInverse
  BY DEF IndInv, VectorsAreRight
<1>. QED
  BY <1>1, InvariantHolds, PTL

\* The root pages always hold what a reload needs, while nothing overflowed and
\* no document came back after a delete.
THEOREM PagesHoldTheTables == Spec => []PagesAreCurrent
<1>1. IndInv => PagesAreCurrent
  BY RootHoldsVectors, RootHoldsMetadata DEF PagesAreCurrent
<1>. QED
  BY <1>1, InvariantHolds, PTL

\* A call of insert or delete changes the vector of one document at most, unless
\* it is given an internal id that is in use.
THEOREM CallsTouchOneDocument == Spec => OneDocumentPerCallUnlessClash
<1>1. IndInv /\ [Next]_vars => [OneDocument]_vars
  BY CallChangesOne
<1>2. Spec => [][OneDocument]_vars
  BY <1>1, InvariantHolds, PTL DEF Spec
<1>. QED
  BY <1>2 DEF OneDocument, OneDocumentChanges, OneDocumentPerCallUnlessClash
=============================================================================

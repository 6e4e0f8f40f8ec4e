---------------------------- MODULE QueryProofs -----------------------------
(***************************************************************************)
(* Theorems about a collection in memory, for all documents, vectors and   *)
(* metadata: the flat index and the metadata store together implement the  *)
(* documents that module Documents promises.                               *)
(***************************************************************************)
EXTENDS Query, Algorithms, FoldLemmas, FiniteSetTheorems, WellFoundedInduction, TLAPS

Entries == [doc : Docs, vec : Vecs]

\* The index has one entry per document at most.
OneEntryEach(s) == \A i, j \in DOMAIN s : s[i].doc = s[j].doc => i = j

IndInv ==
  /\ vectors \in Seq(Entries)
  /\ OneEntryEach(vectors)
  /\ metadata \in [DOMAIN metadata -> Metas] /\ DOMAIN metadata \subseteq Docs

-----------------------------------------------------------------------------
(* find_idx.                                                               *)

LEMMA LeastPosition ==
  ASSUME NEW S \in SUBSET Nat, S # {}
  PROVE  Min(S) \in S
<1>. DEFINE R == {ss \in Nat \X Nat : ss[1] < ss[2]}
<1>1. IsWellFoundedOn(R, Nat)
  <2>1. OpToRel(<, Nat) = R
    BY DEF OpToRel
  <2>. QED
    BY <2>1, NatLessThanWellFounded
<1>2. PICK x \in S : \A y \in S : ~(<<y, x>> \in R)
  <2>. HIDE DEF R
  <2>. QED
    BY <1>1, WFMin
<1>3. ASSUME NEW y \in S PROVE x <= y
  <2>1. x \in Nat /\ y \in Nat
    OBVIOUS
  <2>2. ~(y < x)
    BY <1>2, <2>1
  <2>. QED
    BY <2>1, <2>2
<1>. QED
  BY <1>3 DEF Min

LEMMA FindIdxFinds ==
  ASSUME NEW s \in Seq(Entries), NEW d
  PROVE  \/ FindIdx(s, d) = 0 /\ \A i \in DOMAIN s : s[i].doc # d
         \/ /\ FindIdx(s, d) # 0 /\ FindIdx(s, d) \in DOMAIN s
            /\ s[FindIdx(s, d)].doc = d
<1>. DEFINE I == {i \in 1..Len(s) : s[i].doc = d}
<1>1. FindIdx(s, d) = IF I # {} THEN Min(I) ELSE 0
  BY DEF FindIdx, SelectInSeq
<1>2. DOMAIN s = 1..Len(s) /\ Len(s) \in Nat
  OBVIOUS
<1>3. I \in SUBSET Nat
  <2>1. I \subseteq 1..Len(s) /\ 1..Len(s) \subseteq Nat
    BY <1>2
  <2>. QED
    BY <2>1
<1>4. CASE I = {}
  <2>1. FindIdx(s, d) = 0
    BY <1>1, <1>4
  <2>2. \A i \in 1..Len(s) : s[i].doc # d
    BY <1>4
  <2>. QED
    BY <1>2, <2>1, <2>2
<1>5. CASE I # {}
  <2>1. Min(I) \in I
    BY <1>3, <1>5, LeastPosition
  <2>. QED
    BY <1>1, <1>2, <1>5, <2>1
<1>. QED
  BY <1>4, <1>5

\* The vector that an index has for a document.
VecIn(s, d) == IF FindIdx(s, d) = 0 THEN NoVec ELSE s[FindIdx(s, d)].vec

LEMMA VecInIs ==
  ASSUME NEW s \in Seq(Entries), OneEntryEach(s), NEW d
  PROVE  /\ \A i \in DOMAIN s : s[i].doc = d => VecIn(s, d) = s[i].vec
         /\ (\A i \in DOMAIN s : s[i].doc # d) => VecIn(s, d) = NoVec
<1>1. PICK n : n = FindIdx(s, d)
  OBVIOUS
<1>2. \/ n = 0 /\ \A i \in DOMAIN s : s[i].doc # d
      \/ n # 0 /\ n \in DOMAIN s /\ s[n].doc = d
  BY <1>1, FindIdxFinds
<1>3. VecIn(s, d) = IF n = 0 THEN NoVec ELSE s[n].vec
  BY <1>1 DEF VecIn
<1>. QED
  BY <1>2, <1>3 DEF OneEntryEach

\* An entry is replaced in place, or goes to the end.
LEMMA InsertedIs ==
  ASSUME NEW s \in Seq(Entries), OneEntryEach(s), NEW d \in Docs, NEW v \in Vecs,
         NEW r, r = Inserted(s, d, v)
  PROVE  /\ r \in Seq(Entries) /\ OneEntryEach(r)
         /\ \A e : VecIn(r, e) = IF e = d THEN v ELSE VecIn(s, e)
<1>1. PICK n, cell : n = FindIdx(s, d) /\ cell = [doc |-> d, vec |-> v]
  OBVIOUS
<1>2. \/ n = 0 /\ \A i \in DOMAIN s : s[i].doc # d
      \/ n # 0 /\ n \in DOMAIN s /\ s[n].doc = d
  BY <1>1, FindIdxFinds
<1>3. cell \in Entries /\ cell.doc = d /\ cell.vec = v
  BY <1>1 DEF Entries
<1>4. r = IF n = 0 THEN Append(s, cell) ELSE [s EXCEPT ![n] = cell]
  BY <1>1 DEF Inserted
<1>5. PICK k :
        /\ r \in Seq(Entries) /\ k \in DOMAIN r /\ r[k] = cell
        /\ DOMAIN r = DOMAIN s \cup {k}
        /\ \A i \in DOMAIN s \ {k} : r[i] = s[i] /\ s[i].doc # d
        /\ k \in DOMAIN s => s[k].doc = d
  <2>1. CASE n = 0
    <3>1. r = Append(s, cell)
      BY <1>4, <2>1
    <3>2. /\ r \in Seq(Entries) /\ Len(r) = Len(s) + 1 /\ r[Len(s) + 1] = cell
          /\ Len(s) \in Nat /\ DOMAIN s = 1..Len(s) /\ DOMAIN r = 1..(Len(s) + 1)
          /\ \A i \in 1..Len(s) : r[i] = s[i]
      BY <1>3, <3>1
    <3>3. 1..(Len(s) + 1) = (1..Len(s)) \cup {Len(s) + 1} /\ Len(s) + 1 \notin 1..Len(s)
      BY <3>2
    <3>. QED
      BY <1>2, <2>1, <3>2, <3>3
  <2>2. CASE n # 0
    <3>1. r = [s EXCEPT ![n] = cell] /\ n \in DOMAIN s /\ s[n].doc = d
      BY <1>2, <1>4, <2>2
    <3>2. r \in Seq(Entries) /\ DOMAIN r = DOMAIN s /\ r[n] = cell
          /\ \A i \in DOMAIN s \ {n} : r[i] = s[i]
      BY <1>3, <3>1
    <3>3. \A i \in DOMAIN s \ {n} : s[i].doc # d
      BY <3>1 DEF OneEntryEach
    <3>. QED
      BY <3>1, <3>2, <3>3
  <2>. QED
    BY <2>1, <2>2
<1>6. OneEntryEach(r)
  BY <1>3, <1>5 DEF OneEntryEach
<1>7. VecIn(r, d) = v
  BY <1>3, <1>5, <1>6, VecInIs
<1>8. ASSUME NEW e, e # d PROVE VecIn(r, e) = VecIn(s, e)
  <2>1. CASE \E i \in DOMAIN s : s[i].doc = e
    <3>1. PICK i \in DOMAIN s : s[i].doc = e
      BY <2>1
    <3>2. i \in DOMAIN r /\ r[i] = s[i]
      BY <1>5, <1>8, <3>1
    <3>3. VecIn(s, e) = s[i].vec
      BY <3>1, VecInIs
    <3>4. VecIn(r, e) = r[i].vec
      BY <1>5, <1>6, <3>1, <3>2, VecInIs
    <3>. QED
      BY <3>2, <3>3, <3>4
  <2>2. CASE \A i \in DOMAIN s : s[i].doc # e
    <3>1. \A i \in DOMAIN r : r[i].doc # e
      BY <1>3, <1>5, <1>8, <2>2
    <3>2. VecIn(s, e) = NoVec
      BY <2>2, VecInIs
    <3>3. VecIn(r, e) = NoVec
      BY <1>5, <1>6, <3>1, VecInIs
    <3>. QED
      BY <3>2, <3>3
  <2>. QED
    BY <2>1, <2>2
<1>. QED
  BY <1>5, <1>6, <1>7, <1>8

\* The last entry moves to the place of the removed one; no other is lost.
LEMMA SwapRemoveIs ==
  ASSUME NEW s \in Seq(Entries), OneEntryEach(s), NEW d, FindIdx(s, d) # 0,
         NEW r, r = SwapRemove(s, FindIdx(s, d))
  PROVE  /\ r \in Seq(Entries) /\ OneEntryEach(r)
         /\ \A e : VecIn(r, e) = IF e = d THEN NoVec ELSE VecIn(s, e)
<1>1. PICK n, len : n = FindIdx(s, d) /\ len = Len(s)
  OBVIOUS
<1>2. n \in 1..len /\ s[n].doc = d /\ len \in Nat /\ DOMAIN s = 1..len /\ len >= 1
  <2>1. n \in DOMAIN s /\ s[n].doc = d
    BY <1>1, FindIdxFinds
  <2>2. DOMAIN s = 1..len /\ len \in Nat
    BY <1>1
  <2>. QED
    BY <2>1, <2>2
<1>3. PICK t : t = [s EXCEPT ![n] = s[len]]
  OBVIOUS
<1>4. t \in Seq(Entries) /\ Len(t) = len /\ t[n] = s[len] /\ \A i \in 1..len : i # n => t[i] = s[i]
  <2>1. s[len] \in Entries
    BY <1>1, <1>2
  <2>. QED
    BY <1>1, <1>2, <1>3, <2>1
<1>5. r = SubSeq(t, 1, len - 1)
  BY <1>1, <1>3, <1>4 DEF SwapRemove, Front, Last
<1>6. /\ r \in Seq(Entries) /\ DOMAIN r = 1..(len - 1)
      /\ \A i \in 1..(len - 1) : r[i] = IF i = n THEN s[len] ELSE s[i]
  <2>1. r \in Seq(Entries) /\ Len(r) = len - 1 /\ \A i \in 1..(len - 1) : r[i] = t[i]
    BY <1>2, <1>4, <1>5
  <2>2. DOMAIN r = 1..(len - 1)
    BY <2>1
  <2>. QED
    BY <1>2, <1>4, <2>1, <2>2
<1>7. /\ 1..(len - 1) = (1..len) \ {len}
      /\ len \in 1..len
  BY <1>2
<1>8. OneEntryEach(r)
  BY <1>2, <1>6, <1>7 DEF OneEntryEach
<1>9. \A i \in DOMAIN r : r[i].doc # d
  BY <1>2, <1>6, <1>7 DEF OneEntryEach
<1>10. VecIn(r, d) = NoVec
  BY <1>6, <1>8, <1>9, VecInIs
<1>11. ASSUME NEW e, e # d PROVE VecIn(r, e) = VecIn(s, e)
  <2>1. CASE \E i \in DOMAIN s : s[i].doc = e
    <3>1. PICK i \in 1..len : s[i].doc = e
      BY <1>2, <2>1
    <3>2. PICK j \in DOMAIN r : r[j] = s[i]
      <4>1. i # n
        BY <1>2, <1>11, <3>1
      <4>2. CASE i # len
        BY <1>6, <1>7, <3>1, <4>1, <4>2
      <4>3. CASE i = len
        BY <1>2, <1>6, <1>7, <4>1, <4>3
      <4>. QED
        BY <4>2, <4>3
    <3>3. VecIn(s, e) = s[i].vec
      BY <1>2, <3>1, VecInIs
    <3>4. VecIn(r, e) = r[j].vec
      BY <1>6, <1>8, <3>1, <3>2, VecInIs
    <3>. QED
      BY <3>2, <3>3, <3>4
  <2>2. CASE \A i \in DOMAIN s : s[i].doc # e
    <3>1. \A i \in DOMAIN r : r[i].doc # e
      BY <1>2, <1>6, <1>7, <2>2
    <3>2. VecIn(s, e) = NoVec
      BY <2>2, VecInIs
    <3>3. VecIn(r, e) = NoVec
      BY <1>6, <1>8, <3>1, VecInIs
    <3>. QED
      BY <3>2, <3>3
  <2>. QED
    BY <2>1, <2>2
<1>. QED
  BY <1>6, <1>8, <1>10, <1>11

-----------------------------------------------------------------------------
(* Every step keeps the invariant and is one of the documents.             *)

LEMMA InitEstablishes == CollectionInit => IndInv
<1>. SUFFICES ASSUME CollectionInit PROVE IndInv
  OBVIOUS
<1>1. vectors = <<>> /\ metadata = <<>>
  BY DEF CollectionInit
<1>2. vectors \in Seq(Entries) /\ DOMAIN vectors = {}
  BY <1>1
<1>3. metadata \in [DOMAIN metadata -> Metas] /\ DOMAIN metadata = {}
  BY <1>1
<1>. QED
  BY <1>2, <1>3 DEF IndInv, OneEntryEach

LEMMA VecOfIs == \A d : VecOf(d) = VecIn(vectors, d)
  BY DEF VecOf, VecIn

LEMMA InsertKeeps ==
  ASSUME IndInv, NEW d \in Docs, NEW v \in Vecs \cup {NoVec}, NEW m \in Metas \cup {NoMeta},
         Insert(d, v, m)
  PROVE  /\ IndInv'
         /\ \A e : VecOf(e)' = IF e = d /\ v # NoVec THEN v ELSE VecOf(e)
         /\ \A e : MetaOf(e)' = IF e = d /\ m # NoMeta THEN m ELSE MetaOf(e)
<1>1. vectors \in Seq(Entries) /\ OneEntryEach(vectors)
  BY DEF IndInv
<1>2. /\ vectors' \in Seq(Entries) /\ OneEntryEach(vectors)'
      /\ \A e : VecOf(e)' = IF e = d /\ v # NoVec THEN v ELSE VecOf(e)
  <2>1. CASE v = NoVec
    <3>1. vectors' = vectors
      BY <2>1 DEF Insert
    <3>. QED
      BY <1>1, <2>1, <3>1 DEF OneEntryEach, VecOf
  <2>2. CASE v # NoVec
    <3>1. v \in Vecs /\ vectors' = Inserted(vectors, d, v)
      BY <2>2 DEF Insert
    <3>2. PICK r : r = vectors'
      OBVIOUS
    <3>3. /\ r \in Seq(Entries) /\ OneEntryEach(r)
          /\ \A e : VecIn(r, e) = IF e = d THEN v ELSE VecIn(vectors, e)
      BY <1>1, <3>1, <3>2, InsertedIs
    <3>4. \A e : VecOf(e)' = VecIn(r, e)
      BY <3>2 DEF VecOf, VecIn
    <3>5. OneEntryEach(vectors)'
      BY <3>2, <3>3 DEF OneEntryEach
    <3>. QED
      BY <2>2, <3>2, <3>3, <3>4, <3>5, VecOfIs
  <2>. QED
    BY <2>1, <2>2
<1>3. /\ metadata' \in [DOMAIN metadata' -> Metas] /\ DOMAIN metadata' \subseteq Docs
      /\ \A e : MetaOf(e)' = IF e = d /\ m # NoMeta THEN m ELSE MetaOf(e)
  <2>1. CASE m = NoMeta
    <3>1. metadata' = metadata
      BY <2>1 DEF Insert, WithMetadata
    <3>. QED
      BY <2>1, <3>1 DEF IndInv, MetaOf
  <2>2. CASE m # NoMeta
    <3>1. /\ DOMAIN metadata' = DOMAIN metadata \cup {d}
          /\ \A x \in DOMAIN metadata' : metadata'[x] = IF x = d THEN m ELSE metadata[x]
          /\ metadata' = [x \in DOMAIN metadata' |-> metadata'[x]]
      BY <2>2 DEF Insert, WithMetadata
    <3>2. \A x \in DOMAIN metadata' : metadata'[x] \in Metas /\ x \in Docs
      BY <2>2, <3>1 DEF IndInv
    <3>3. metadata' \in [DOMAIN metadata' -> Metas] /\ DOMAIN metadata' \subseteq Docs
      BY <3>1, <3>2
    <3>4. \A e : MetaOf(e)' = IF e = d THEN m ELSE MetaOf(e)
      BY <3>1 DEF MetaOf
    <3>. QED
      BY <2>2, <3>3, <3>4
  <2>. QED
    BY <2>1, <2>2
<1>. QED
  BY <1>2, <1>3 DEF IndInv

LEMMA DeleteKeeps ==
  ASSUME IndInv, NEW d \in Docs, Delete(d)
  PROVE  /\ IndInv'
         /\ \A e : VecOf(e)' = IF e = d THEN NoVec ELSE VecOf(e)
         /\ \A e : MetaOf(e)' = IF e = d THEN NoMeta ELSE MetaOf(e)
<1>1. vectors \in Seq(Entries) /\ OneEntryEach(vectors)
  BY DEF IndInv
<1>2. /\ vectors' \in Seq(Entries) /\ OneEntryEach(vectors)'
      /\ \A e : VecOf(e)' = IF e = d THEN NoVec ELSE VecOf(e)
  <2>1. CASE FindIdx(vectors, d) = 0
    <3>1. vectors' = vectors /\ VecOf(d) = NoVec
      BY <2>1 DEF Delete, VecOf
    <3>2. \A e : VecOf(e)' = VecOf(e)
      BY <3>1 DEF VecOf
    <3>. QED
      BY <1>1, <3>1, <3>2 DEF OneEntryEach
  <2>2. CASE FindIdx(vectors, d) # 0
    <3>1. vectors' = SwapRemove(vectors, FindIdx(vectors, d))
      BY <2>2 DEF Delete
    <3>2. PICK r : r = vectors'
      OBVIOUS
    <3>3. /\ r \in Seq(Entries) /\ OneEntryEach(r)
          /\ \A e : VecIn(r, e) = IF e = d THEN NoVec ELSE VecIn(vectors, e)
      BY <1>1, <2>2, <3>1, <3>2, SwapRemoveIs
    <3>4. \A e : VecOf(e)' = VecIn(r, e)
      BY <3>2 DEF VecOf, VecIn
    <3>5. OneEntryEach(vectors)'
      BY <3>2, <3>3 DEF OneEntryEach
    <3>. QED
      BY <3>2, <3>3, <3>4, <3>5, VecOfIs
  <2>. QED
    BY <2>1, <2>2
<1>3. /\ DOMAIN metadata' = DOMAIN metadata \ {d}
      /\ \A x \in DOMAIN metadata' : metadata'[x] = metadata[x]
      /\ metadata' = [x \in DOMAIN metadata' |-> metadata'[x]]
  BY DEF Delete
<1>4. metadata' \in [DOMAIN metadata' -> Metas] /\ DOMAIN metadata' \subseteq Docs
  <2>1. \A x \in DOMAIN metadata' : metadata'[x] \in Metas /\ x \in Docs
    BY <1>3 DEF IndInv
  <2>. QED
    BY <1>3, <2>1
<1>5. \A e : MetaOf(e)' = IF e = d THEN NoMeta ELSE MetaOf(e)
  BY <1>3 DEF MetaOf
<1>. QED
  BY <1>2, <1>4, <1>5 DEF IndInv

LEMMA NextKeeps ==
  ASSUME IndInv, [CollectionNext]_vars
  PROVE  IndInv'
<1>1. CASE CollectionNext
  BY <1>1, InsertKeeps, DeleteKeeps DEF CollectionNext
<1>2. CASE UNCHANGED vars
  BY <1>2 DEF IndInv, OneEntryEach, vars
<1>. QED
  BY <1>1, <1>2

-----------------------------------------------------------------------------
(* The refinement.                                                         *)

\* The documents that the index and the metadata store stand for.
Standing == [d \in Docs |-> [vec |-> VecOf(d), meta |-> MetaOf(d)]]

LEMMA InitIsInit == CollectionInit => Abstract!Init
<1>. SUFFICES ASSUME CollectionInit
              PROVE  Standing = [d \in Docs |-> [vec |-> NoVec, meta |-> NoMeta]]
  BY DEF Abstract!Init, Abstract!Absent, Standing
<1>1. vectors = <<>> /\ metadata = <<>>
  BY DEF CollectionInit
<1>2. vectors \in Seq(Entries) /\ DOMAIN vectors = {} /\ DOMAIN metadata = {}
  BY <1>1
<1>3. \A d : VecOf(d) = NoVec
  BY <1>2, VecInIs, VecOfIs DEF OneEntryEach
<1>4. \A d : MetaOf(d) = NoMeta
  BY <1>2 DEF MetaOf
<1>. QED
  BY <1>3, <1>4 DEF Standing

LEMMA InsertIsPut ==
  ASSUME IndInv, NEW d \in Docs, NEW v \in Vecs \cup {NoVec}, NEW m \in Metas \cup {NoMeta},
         Insert(d, v, m)
  PROVE  Abstract!Put(d, v, m)
<1>1. /\ \A e : VecOf(e)' = IF e = d /\ v # NoVec THEN v ELSE VecOf(e)
      /\ \A e : MetaOf(e)' = IF e = d /\ m # NoMeta THEN m ELSE MetaOf(e)
  BY InsertKeeps
<1>2. Standing' = [e \in Docs |-> [vec |-> VecOf(e)', meta |-> MetaOf(e)']]
  BY DEF Standing
<1>3. Standing' = [Standing EXCEPT ![d] = [vec |-> IF v = NoVec THEN Standing[d].vec ELSE v,
                                           meta |-> IF m = NoMeta THEN Standing[d].meta ELSE m]]
  BY <1>1, <1>2 DEF Standing
<1>. QED
  BY <1>3 DEF Abstract!Put, Standing

LEMMA DeleteIsRemove ==
  ASSUME IndInv, NEW d \in Docs, Delete(d)
  PROVE  Abstract!Remove(d)
<1>1. /\ \A e : VecOf(e)' = IF e = d THEN NoVec ELSE VecOf(e)
      /\ \A e : MetaOf(e)' = IF e = d THEN NoMeta ELSE MetaOf(e)
  BY DeleteKeeps
<1>2. Standing' = [e \in Docs |-> [vec |-> VecOf(e)', meta |-> MetaOf(e)']]
  BY DEF Standing
<1>3. Standing' = [Standing EXCEPT ![d] = [vec |-> NoVec, meta |-> NoMeta]]
  BY <1>1, <1>2 DEF Standing
<1>. QED
  BY <1>3 DEF Abstract!Remove, Abstract!Absent, Standing

LEMMA StepIsStep ==
  ASSUME IndInv, [CollectionNext]_vars
  PROVE  [Abstract!Next]_Standing
<1>1. ASSUME NEW d \in Docs, NEW v \in Vecs \cup {NoVec}, NEW m \in Metas \cup {NoMeta},
             Insert(d, v, m)
      PROVE  Abstract!Next
  BY <1>1, InsertIsPut DEF Abstract!Next
<1>2. ASSUME NEW d \in Docs, Delete(d) PROVE Abstract!Next
  BY <1>2, DeleteIsRemove DEF Abstract!Next
<1>3. CASE UNCHANGED vars
  BY <1>3 DEF vars, Standing, VecOf, MetaOf
<1>. QED
  BY <1>1, <1>2, <1>3 DEF CollectionNext

-----------------------------------------------------------------------------
(* The theorems.                                                           *)

\* The strengthened invariant holds in every reachable state: it is what the
\* others follow from.
THEOREM InvariantHolds == Spec => []IndInv
<1>1. CollectionInit => IndInv
  BY InitEstablishes
<1>2. IndInv /\ [CollectionNext]_vars => IndInv'
  BY NextKeeps
<1>. QED
  BY <1>1, <1>2, PTL DEF Spec

\* The flat index never has two entries of one id, whatever is replaced in place
\* and whatever swap_remove moves.
THEOREM TypeCorrect == Spec => []TypeOK
<1>1. ASSUME IndInv PROVE TypeOK
  <2>1. vectors \in Seq([doc : Docs, vec : Vecs])
    BY <1>1 DEF IndInv, Entries
  <2>2. IsInjective([i \in DOMAIN vectors |-> vectors[i].doc])
    BY <1>1 DEF IndInv, OneEntryEach, IsInjective
  <2>3. metadata \in UNION {[S -> Metas] : S \in SUBSET Docs}
    BY <1>1 DEF IndInv
  <2>. QED
    BY <2>1, <2>2, <2>3 DEF TypeOK
<1>. QED
  BY <1>1, InvariantHolds, PTL

\* insert and delete of the flat index and of the metadata store are, taken
\* together, insert and delete of whole documents.
THEOREM CollectionImplementsDocuments == Spec => ImplementsDocuments
<1>1. CollectionInit => Abstract!Init
  BY InitIsInit
<1>2. IndInv /\ [CollectionNext]_vars => [Abstract!Next]_Standing
  BY StepIsStep
<1>. QED
  BY <1>1, <1>2, InvariantHolds, PTL DEF Spec, Abstract!Spec, ImplementsDocuments, Standing

-----------------------------------------------------------------------------
(* Sums.                                                                   *)

\* P[i] is the sum of the first i elements.
Adds(P, s) ==
  /\ P \in [0..Len(s) -> Int] /\ P[0] = 0
  /\ \A i \in 1..Len(s) : P[i] = P[i - 1] + s[i]

LEMMA FoldAdds ==
  ASSUME NEW s \in Seq(Int)
  PROVE  \E P : Adds(P, s) /\ FoldLeft(Plus, 0, s) = P[Len(s)]
<1>. DEFINE n == Len(s)
            G == [p \in (1..n) \X Int |-> p[2] + s[p[1]]]
            Lit(h) == h = [S \in SUBSET DOMAIN s |->
                             IF S = {} THEN 0 ELSE h[S \ {Max(S)}] + s[Max(S)]]
<1>1. n \in Nat /\ DOMAIN s = 1..n /\ \A i \in 1..n : s[i] \in Int
  OBVIOUS
<1>2. ASSUME NEW i \in 1..n, NEW x \in Int
      PROVE  G[<<i, x>>] = x + s[i] /\ G[<<i, x>>] \in Int
  BY <1>1
<1>3. PICK h : Follows(h, n, Int, 0, G)
  <2>1. 0 \in Int
    OBVIOUS
  <2>. HIDE DEF G, n
  <2>. QED
    BY <1>1, <1>2, <2>1, FoldExists
<1>4. Lit(h)
  <2>1. ASSUME NEW S \in SUBSET (1..n)
        PROVE  h[S] = IF S = {} THEN 0 ELSE h[S \ {Max(S)}] + s[Max(S)]
    <3>. HIDE DEF G, n
    <3>. QED
      BY <1>2, <1>3 DEF Follows
  <2>2. h = [S \in SUBSET (1..n) |-> h[S]]
    BY <1>3 DEF Follows
  <2>. HIDE DEF n
  <2>. QED
    BY <1>1, <2>1, <2>2
<1>5. PICK f : f = CHOOSE g : Lit(g)
  OBVIOUS
<1>6. Lit(f)
  <2>. HIDE DEF Lit
  <2>. QED
    BY <1>4, <1>5
<1>7. FoldLeft(Plus, 0, s) = f[1..n]
  <2>1. FoldLeft(Plus, 0, s) = f[DOMAIN s]
    BY <1>5 DEF FoldLeft, MapThenFoldSet, Plus
  <2>. QED
    BY <1>1, <2>1
<1>8. Upto(f, 0) = 0
  <2>1. 1..0 = {} /\ {} \in SUBSET DOMAIN s
    OBVIOUS
  <2>2. f[{}] = 0
    BY <1>6, <2>1
  <2>. QED
    BY <2>1, <2>2 DEF Upto
<1>9. ASSUME NEW i \in 1..n PROVE Upto(f, i) = Upto(f, i - 1) + s[i]
  <2>1. PICK S : S = 1..i
    OBVIOUS
  <2>2. S \in SUBSET DOMAIN s /\ S # {} /\ Max(S) = i /\ S \ {i} = 1..(i - 1)
    BY <1>1, <2>1, UptoNext
  <2>3. f[S] = f[S \ {Max(S)}] + s[Max(S)]
    BY <1>6, <2>2
  <2>. QED
    BY <2>1, <2>2, <2>3 DEF Upto
<1>10. \A i \in 0..n : Upto(f, i) \in Int
  <2>. DEFINE P == {i \in 0..n : Upto(f, i) \in Int}
  <2>1. 0 \in P
    BY <1>1, <1>8
  <2>2. \A i \in 1..n : i - 1 \in P => i \in P
    BY <1>1, <1>9
  <2>3. \A i \in 0..n : i \in P
    <3>. HIDE DEF P, n
    <3>. QED
      BY <1>1, <2>1, <2>2, Upwards
  <2>. QED
    BY <2>3
<1>11. PICK P : P = [i \in 0..n |-> Upto(f, i)]
  OBVIOUS
<1>12. Adds(P, s)
  <2>1. P \in [0..n -> Int] /\ P[0] = 0
    BY <1>1, <1>8, <1>10, <1>11
  <2>2. \A i \in 1..n : i - 1 \in 0..n /\ i \in 0..n
    BY <1>1
  <2>3. \A i \in 1..n : P[i] = P[i - 1] + s[i]
    BY <1>9, <1>11, <2>2
  <2>. QED
    BY <2>1, <2>3 DEF Adds
<1>13. P[n] = Upto(f, n)
  BY <1>1, <1>11
<1>. QED
  BY <1>7, <1>12, <1>13 DEF Upto

LEMMA AddsOnce ==
  ASSUME NEW s \in Seq(Int), NEW P, NEW Q, Adds(P, s), Adds(Q, s)
  PROVE  P = Q
<1>1. PICK n : n = Len(s)
  OBVIOUS
<1>2. n \in Nat
  BY <1>1
<1>. DEFINE T == {i \in 0..n : P[i] = Q[i]}
<1>3. 0 \in T
  BY <1>2 DEF Adds
<1>4. ASSUME NEW i \in 1..n, i - 1 \in T PROVE i \in T
  BY <1>1, <1>2, <1>4 DEF Adds
<1>5. \A i \in 0..n : i \in T
  <2>. HIDE DEF T
  <2>. QED
    BY <1>2, <1>3, <1>4, Upwards
<1>. QED
  BY <1>1, <1>5 DEF Adds

\* The sums of the beginnings of s.
Added(s) == CHOOSE P : Adds(P, s)

LEMMA AddedIs ==
  ASSUME NEW s \in Seq(Int)
  PROVE  Adds(Added(s), s) /\ FoldLeft(Plus, 0, s) = Added(s)[Len(s)]
<1>1. PICK P : Adds(P, s) /\ FoldLeft(Plus, 0, s) = P[Len(s)]
  BY FoldAdds
<1>2. PICK Q : Q = Added(s)
  OBVIOUS
<1>3. Adds(Q, s)
  BY <1>1, <1>2 DEF Added
<1>4. P = Q
  BY <1>1, <1>3, AddsOnce
<1>. QED
  BY <1>1, <1>2, <1>4

LEMMA AddedIf ==
  ASSUME NEW s \in Seq(Int), NEW P, Adds(P, s)
  PROVE  Added(s) = P
<1>1. PICK Q : Q = Added(s)
  OBVIOUS
<1>2. Adds(Q, s)
  BY <1>1, AddedIs
<1>. QED
  BY <1>1, <1>2, AddsOnce

\* A sum from an element on is what the sum of all has more than that of the
\* elements before it.
LEMMA SumFromIs ==
  ASSUME NEW s \in Seq(Int), NEW i \in 1..(Len(s) + 1)
  PROVE  SumFrom(s, i) = Added(s)[Len(s)] - Added(s)[i - 1]
<1>1. PICK n, t, P : n = Len(s) /\ t = SubSeq(s, i, n) /\ P = Added(s)
  OBVIOUS
<1>2. n \in Nat /\ i \in 1..(n + 1) /\ \A j \in 1..n : s[j] \in Int
  BY <1>1
<1>3. /\ t \in Seq(Int) /\ Len(t) = n - i + 1
      /\ \A j \in 1..(n - i + 1) : t[j] = s[i + j - 1]
  BY <1>1, <1>2
<1>4. /\ P \in [0..n -> Int] /\ P[0] = 0
      /\ \A j \in 1..n : P[j] = P[j - 1] + s[j]
  <2>1. Adds(P, s)
    BY <1>1, AddedIs
  <2>. QED
    BY <1>1, <2>1 DEF Adds
<1>5. PICK Q : Q = [j \in 0..(n - i + 1) |-> P[i - 1 + j] - P[i - 1]]
  OBVIOUS
<1>6. Adds(Q, t)
  <2>1. \A j \in 0..(n - i + 1) : i - 1 + j \in 0..n
    BY <1>2
  <2>2. Q \in [0..(n - i + 1) -> Int]
    BY <1>2, <1>4, <1>5, <2>1
  <2>3. Q[0] = 0
    BY <1>2, <1>4, <1>5
  <2>4. ASSUME NEW j \in 1..(n - i + 1) PROVE Q[j] = Q[j - 1] + t[j]
    <3>1. j \in 0..(n - i + 1) /\ j - 1 \in 0..(n - i + 1) /\ i - 1 + j \in 1..n
      BY <1>2
    <3>2. P[i - 1 + j] = P[i - 1 + j - 1] + s[i + j - 1]
      BY <1>2, <1>4, <3>1
    <3>3. t[j] = s[i + j - 1] /\ i + j - 1 = i - 1 + j /\ i - 1 + (j - 1) = i - 1 + j - 1
      BY <1>2, <1>3
    <3>4. P[i - 1] \in Int /\ P[i - 1 + j] \in Int /\ P[i - 1 + j - 1] \in Int /\ s[i + j - 1] \in Int
      BY <1>2, <1>4, <3>1
    <3>5. Q[j] = P[i - 1 + j] - P[i - 1]
      BY <1>5, <3>1
    <3>6. Q[j - 1] = P[i - 1 + (j - 1)] - P[i - 1]
      BY <1>5, <3>1
    <3>. QED
      BY <3>2, <3>3, <3>4, <3>5, <3>6
  <2>. QED
    BY <1>3, <2>2, <2>3, <2>4 DEF Adds
<1>7. FoldLeft(Plus, 0, t) = Q[n - i + 1]
  BY <1>3, <1>6, AddedIs, AddedIf
<1>8. Q[n - i + 1] = P[n] - P[i - 1]
  BY <1>2, <1>5
<1>. QED
  BY <1>1, <1>7, <1>8 DEF SumFrom

LEMMA ScalarIs ==
  ASSUME NEW s \in Seq(Int)
  PROVE  Scalar(s) = Added(s)[Len(s)] /\ Scalar(s) \in Int
<1>1. Adds(Added(s), s) /\ Len(s) \in Nat
  BY AddedIs
<1>2. Scalar(s) = Added(s)[Len(s)] - Added(s)[0]
  <2>1. 1 \in 1..(Len(s) + 1)
    BY <1>1
  <2>2. SumFrom(s, 1) = Added(s)[Len(s)] - Added(s)[1 - 1]
    BY <2>1, SumFromIs
  <2>. QED
    BY <2>2 DEF Scalar
<1>3. Added(s)[0] = 0 /\ Added(s)[Len(s)] \in Int
  BY <1>1 DEF Adds
<1>. QED
  BY <1>2, <1>3

-----------------------------------------------------------------------------
(* The kernels.                                                            *)

LoopStates(w) == [i : Nat, lanes : [1..w -> Int]]
NextRegister(s, terms, w) ==
  [i |-> s.i + w, lanes |-> [l \in 1..w |-> s.lanes[l] + terms[s.i + l]]]
IsLoop(loop, terms, w) ==
  loop = [s \in LoopStates(w) |->
            IF s.i + w <= Len(terms) THEN loop[NextRegister(s, terms, w)] ELSE s]

LEMMA NextRegisterIs ==
  ASSUME NEW terms \in Seq(Int), NEW w \in Nat \ {0}, NEW s \in LoopStates(w),
         s.i + w <= Len(terms)
  PROVE  NextRegister(s, terms, w) \in LoopStates(w) /\ NextRegister(s, terms, w).i = s.i + w
<1>1. s.i \in Nat /\ s.lanes \in [1..w -> Int] /\ Len(terms) \in Nat
  BY DEF LoopStates
<1>2. \A l \in 1..w : s.i + l \in 1..Len(terms)
  BY <1>1
<1>3. ASSUME NEW l \in 1..w PROVE s.lanes[l] + terms[s.i + l] \in Int
  <2>1. s.lanes[l] \in Int
    BY <1>1
  <2>2. PICK k \in 1..Len(terms) : k = s.i + l
    BY <1>2
  <2>3. terms[k] \in Int
    OBVIOUS
  <2>. QED
    BY <2>1, <2>2, <2>3
<1>4. s.i + w \in Nat
  BY <1>1
<1>. QED
  BY <1>3, <1>4 DEF LoopStates, NextRegister

LEMMA LoopExists ==
  ASSUME NEW terms \in Seq(Int), NEW w \in Nat \ {0}
  PROVE  \E loop : IsLoop(loop, terms, w)
<1>. DEFINE n == Len(terms)
            St == LoopStates(w)
            Go(s) == NextRegister(s, terms, w)
            From(g, k) == /\ g = [s \in St |-> g[s]]
                          /\ \A s \in St : s.i >= k =>
                               g[s] = IF s.i + w <= n THEN g[Go(s)] ELSE s
            P == {m \in 0..n : \E g : From(g, n - m)}
<1>1. n \in Nat /\ w \in Nat \ {0} /\ \A s \in St : s.i \in Nat
  BY DEF LoopStates
<1>2. ASSUME NEW s \in St, s.i + w <= n PROVE Go(s) \in St /\ Go(s).i = s.i + w
  BY <1>2, NextRegisterIs
<1>. HIDE DEF St, Go, n
<1>3. 0 \in P
  <2>1. PICK g : g = [s \in St |-> s]
    OBVIOUS
  <2>2. From(g, n - 0)
    BY <1>1, <2>1
  <2>3. 0 \in 0..n
    BY <1>1
  <2>. HIDE DEF From
  <2>. QED
    BY <2>2, <2>3
<1>4. ASSUME NEW m \in 1..n, m - 1 \in P PROVE m \in P
  <2>1. PICK g : From(g, n - (m - 1))
    <3>. HIDE DEF From
    <3>. QED
      BY <1>4
  <2>2. PICK h : h = [s \in St |-> IF s.i >= n - (m - 1) THEN g[s]
                                   ELSE IF s.i + w <= n THEN g[Go(s)] ELSE s]
    OBVIOUS
  <2>3. ASSUME NEW s \in St, s.i >= n - m
        PROVE  h[s] = IF s.i + w <= n THEN h[Go(s)] ELSE s
    <3>1. CASE s.i + w <= n
      <4>1. Go(s) \in St /\ Go(s).i = s.i + w /\ Go(s).i >= n - (m - 1)
        BY <1>1, <1>2, <2>3, <3>1
      <4>2. h[Go(s)] = g[Go(s)]
        BY <2>2, <4>1
      <4>3. h[s] = g[Go(s)]
        BY <2>1, <2>2, <3>1
      <4>. QED
        BY <3>1, <4>2, <4>3
    <3>2. CASE ~(s.i + w <= n)
      BY <2>1, <2>2, <3>2
    <3>. QED
      BY <3>1, <3>2
  <2>4. From(h, n - m)
    <3>1. h = [s \in St |-> h[s]]
      BY <2>2
    <3>. QED
      BY <2>3, <3>1
  <2>5. m \in 0..n
    BY <1>1
  <2>. HIDE DEF From
  <2>. QED
    BY <2>4, <2>5
<1>5. n \in P
  <2>1. n \in 0..n
    BY <1>1
  <2>. HIDE DEF P
  <2>. QED
    BY <1>1, <1>3, <1>4, <2>1, Upwards
<1>6. PICK g : From(g, n - n)
  <2>. HIDE DEF From
  <2>. QED
    BY <1>5
<1>7. g = [s \in St |-> IF s.i + w <= n THEN g[Go(s)] ELSE s]
  <2>1. \A s \in St : s.i >= n - n
    BY <1>1
  <2>2. \A s \in St : g[s] = IF s.i + w <= n THEN g[Go(s)] ELSE s
    BY <1>6, <2>1
  <2>3. g = [s \in St |-> g[s]]
    BY <1>6
  <2>. QED
    BY <2>2, <2>3
<1>. QED
  BY <1>7 DEF IsLoop, St, Go, n

\* Adding a register to the lanes adds its elements to their sum.
LEMMA LanesAdd ==
  ASSUME NEW terms \in Seq(Int), NEW w \in Nat \ {0}, NEW s \in LoopStates(w),
         s.i + w <= Len(terms)
  PROVE  Added(NextRegister(s, terms, w).lanes)[w]
           = Added(s.lanes)[w] + (Added(terms)[s.i + w] - Added(terms)[s.i])
<1>1. PICK n, i, v, u, A, B :
        /\ n = Len(terms) /\ i = s.i /\ v = s.lanes /\ A = Added(terms) /\ B = Added(v)
        /\ u = NextRegister(s, terms, w).lanes
  OBVIOUS
<1>2. n \in Nat /\ i \in Nat /\ i + w <= n /\ v \in [1..w -> Int]
  BY <1>1 DEF LoopStates
<1>3. v \in Seq(Int) /\ Len(v) = w
  BY <1>2
<1>4. /\ A \in [0..n -> Int] /\ \A j \in 1..n : A[j] = A[j - 1] + terms[j]
      /\ B \in [0..w -> Int] /\ B[0] = 0 /\ \A j \in 1..w : B[j] = B[j - 1] + v[j]
  <2>1. Adds(A, terms)
    BY <1>1, AddedIs
  <2>2. Adds(B, v)
    BY <1>1, <1>3, AddedIs
  <2>. QED
    BY <1>1, <1>3, <2>1, <2>2 DEF Adds
<1>5. u = [l \in 1..w |-> v[l] + terms[i + l]]
  BY <1>1 DEF NextRegister
<1>6. ASSUME NEW l \in 1..w PROVE v[l] \in Int /\ i + l \in 1..n /\ terms[i + l] \in Int
  <2>1. PICK k : k = i + l /\ k \in 1..n
    BY <1>2
  <2>2. terms[k] \in Int
    BY <1>1, <2>1
  <2>. QED
    BY <1>2, <2>1, <2>2
<1>7. u \in Seq(Int) /\ Len(u) = w
  <2>1. u \in [1..w -> Int]
    BY <1>5, <1>6
  <2>. QED
    BY <2>1
<1>8. PICK Q : Q = [j \in 0..w |-> B[j] + (A[i + j] - A[i])]
  OBVIOUS
<1>9. Adds(Q, u)
  <2>1. \A j \in 0..w : i + j \in 0..n
    BY <1>2
  <2>2. i \in 0..n
    BY <1>2
  <2>0. (\A j \in 0..n : A[j] \in Int) /\ (\A j \in 0..w : B[j] \in Int)
    BY <1>4
  <2>3. Q \in [0..w -> Int]
    <3>1. ASSUME NEW j \in 0..w PROVE B[j] + (A[i + j] - A[i]) \in Int
      <4>1. B[j] \in Int /\ A[i + j] \in Int /\ A[i] \in Int
        BY <2>0, <2>1, <2>2
      <4>. QED
        BY <4>1
    <3>. QED
      BY <1>8, <3>1
  <2>4. Q[0] = 0
    <3>1. Q[0] = B[0] + (A[i + 0] - A[i]) /\ i + 0 = i /\ A[i] \in Int
      BY <1>2, <1>8, <2>0, <2>2
    <3>. QED
      BY <1>4, <3>1
  <2>5. ASSUME NEW j \in 1..w PROVE Q[j] = Q[j - 1] + u[j]
    <3>1. j \in 0..w /\ j - 1 \in 0..w /\ i + j \in 1..n /\ i + (j - 1) = i + j - 1
      BY <1>2
    <3>2. Q[j] = B[j] + (A[i + j] - A[i])
      BY <1>8, <3>1
    <3>3. Q[j - 1] = B[j - 1] + (A[i + (j - 1)] - A[i])
      BY <1>8, <3>1
    <3>4. A[i + j] = A[i + j - 1] + terms[i + j] /\ B[j] = B[j - 1] + v[j]
      <4>1. PICK k, l : k \in 1..n /\ k = i + j /\ l = k - 1
        BY <3>1
      <4>2. A[k] = A[l] + terms[k] /\ B[j] = B[j - 1] + v[j]
        BY <1>4, <4>1
      <4>3. l = i + j - 1
        BY <1>2, <4>1
      <4>. QED
        BY <4>1, <4>2, <4>3
    <3>5. u[j] = v[j] + terms[i + j]
      BY <1>5
    <3>6. /\ A[i + j] \in Int /\ A[i + j - 1] \in Int /\ A[i] \in Int /\ B[j] \in Int
          /\ B[j - 1] \in Int /\ terms[i + j] \in Int /\ v[j] \in Int
      BY <1>6, <2>0, <2>1, <2>2, <3>1
    <3>7. Q[j - 1] = B[j - 1] + (A[i + j - 1] - A[i])
      BY <3>1, <3>3
    <3>8. PICK a, b, c, x, y, z, t :
            /\ a = A[i + j] /\ b = A[i + j - 1] /\ c = A[i] /\ x = B[j]
            /\ y = B[j - 1] /\ z = terms[i + j] /\ t = v[j]
      OBVIOUS
    <3>9. a = b + z /\ x = y + t /\ a \in Int /\ b \in Int /\ c \in Int
          /\ x \in Int /\ y \in Int /\ z \in Int /\ t \in Int
      BY <3>4, <3>6, <3>8
    <3>10. x + (a - c) = (y + (b - c)) + (t + z)
      BY <3>9
    <3>. QED
      BY <3>2, <3>5, <3>7, <3>8, <3>10
  <2>. QED
    BY <1>7, <2>3, <2>4, <2>5 DEF Adds
<1>10. Added(u) = Q
  BY <1>7, <1>9, AddedIf
<1>11. Q[w] = B[w] + (A[i + w] - A[i])
  BY <1>8
<1>. QED
  BY <1>1, <1>10, <1>11

\* What is in the lanes and what is left to the remainder add up to the sum.
LEMMA WholeRegistersIs ==
  ASSUME NEW terms \in Seq(Int), NEW w \in Nat \ {0},
         NEW r, r = WholeRegisters(terms, w)
  PROVE  /\ r \in LoopStates(w) /\ r.i <= Len(terms)
         /\ Added(r.lanes)[w] + SumFrom(terms, r.i + 1) = Scalar(terms)
<1>. DEFINE n == Len(terms)
            A == Added(terms)
            St == LoopStates(w)
            Good(s) == s \in St /\ s.i <= n
            Left(s) == Added(s.lanes)[w] + (A[n] - A[s.i])
            Ends(loop, s) == Good(loop[s]) /\ Left(loop[s]) = Left(s)
<1>1. n \in Nat /\ \A s \in St : s.i \in Nat /\ s.lanes \in Seq(Int) /\ Len(s.lanes) = w
  BY DEF LoopStates
<1>2. PICK start : start = [i |-> 0, lanes |-> [l \in 1..w |-> 0]]
  OBVIOUS
<1>3. PICK loop : IsLoop(loop, terms, w) /\ r = loop[start]
  <2>1. PICK loop : loop = CHOOSE f : IsLoop(f, terms, w)
    OBVIOUS
  <2>2. r = loop[start]
    BY <1>2, <2>1 DEF WholeRegisters, IsLoop, LoopStates, NextRegister
  <2>. QED
    BY <2>1, <2>2, LoopExists
<1>4. A \in [0..n -> Int] /\ A[0] = 0
  BY AddedIs DEF Adds
<1>5. \A s \in St : Added(s.lanes)[w] \in Int
  <2>. SUFFICES ASSUME NEW s \in St PROVE Added(s.lanes)[w] \in Int
    OBVIOUS
  <2>1. Adds(Added(s.lanes), s.lanes) /\ Len(s.lanes) = w
    BY <1>1, AddedIs
  <2>. QED
    BY <2>1 DEF Adds
<1>6. ASSUME NEW s \in St
      PROVE  loop[s] = IF s.i + w <= n THEN loop[NextRegister(s, terms, w)] ELSE s
  BY <1>3 DEF IsLoop
<1>7. ASSUME NEW s \in St, s.i + w <= n
      PROVE  /\ Good(NextRegister(s, terms, w)) /\ NextRegister(s, terms, w).i = s.i + w
             /\ Left(NextRegister(s, terms, w)) = Left(s)
  <2>1. PICK t : t = NextRegister(s, terms, w)
    OBVIOUS
  <2>2. t \in St /\ t.i = s.i + w
    BY <1>7, <2>1, NextRegisterIs
  <2>3. Added(t.lanes)[w] = Added(s.lanes)[w] + (A[s.i + w] - A[s.i])
    BY <1>7, <2>1, LanesAdd
  <2>4. /\ Added(s.lanes)[w] \in Int /\ A[s.i + w] \in Int /\ A[s.i] \in Int
        /\ A[n] \in Int /\ Added(t.lanes)[w] \in Int
    <3>1. s.i + w \in 0..n /\ s.i \in 0..n /\ n \in 0..n
      BY <1>1, <1>7
    <3>. HIDE DEF A, n, St
    <3>. QED
      BY <1>4, <1>5, <2>2, <3>1
  <2>. HIDE DEF A, n, St
  <2>. QED
    BY <1>7, <2>1, <2>2, <2>3, <2>4
<1>. DEFINE P == {m \in 0..n : \A s \in St : s.i <= n /\ n - s.i <= m => Ends(loop, s)}
<1>. HIDE DEF A, n, St
<1>8. 0 \in P
  <2>1. ASSUME NEW s \in St, s.i <= n, n - s.i <= 0 PROVE Ends(loop, s)
    <3>1. ~(s.i + w <= n)
      BY <1>1, <2>1
    <3>2. loop[s] = s
      BY <1>6, <3>1
    <3>. QED
      BY <2>1, <3>2
  <2>. QED
    BY <1>1, <2>1
<1>9. ASSUME NEW m \in 1..n, m - 1 \in P PROVE m \in P
  <2>1. ASSUME NEW s \in St, s.i <= n, n - s.i <= m PROVE Ends(loop, s)
    <3>1. CASE s.i + w <= n
      <4>1. PICK t : t = NextRegister(s, terms, w)
        OBVIOUS
      <4>2. t \in St /\ t.i <= n /\ t.i = s.i + w /\ Left(t) = Left(s) /\ loop[s] = loop[t]
        BY <1>6, <1>7, <3>1, <4>1
      <4>3. n - t.i <= m - 1
        BY <1>1, <2>1, <4>2
      <4>4. Ends(loop, t)
        <5>. HIDE DEF Ends
        <5>. QED
          BY <1>9, <4>2, <4>3
      <4>. QED
        BY <4>2, <4>4
    <3>2. CASE ~(s.i + w <= n)
      <4>1. loop[s] = s
        BY <1>6, <3>2
      <4>. QED
        BY <2>1, <4>1
    <3>. QED
      BY <3>1, <3>2
  <2>. HIDE DEF Ends
  <2>. QED
    BY <1>1, <2>1
<1>10. n \in P
  <2>1. n \in 0..n
    BY <1>1
  <2>. HIDE DEF P
  <2>. QED
    BY <1>1, <1>8, <1>9, <2>1, Upwards
<1>11. start \in St /\ start.i = 0 /\ Added(start.lanes)[w] = 0
  <2>1. start \in St /\ start.i = 0
    BY <1>2 DEF St, LoopStates
  <2>2. PICK v, Q : v = start.lanes /\ Q = [j \in 0..w |-> 0]
    OBVIOUS
  <2>3. v = [l \in 1..w |-> 0]
    BY <1>2, <2>2
  <2>4. v \in Seq(Int) /\ Len(v) = w
    BY <2>3
  <2>5. Adds(Q, v)
    <3>1. \A j \in 1..w : j - 1 \in 0..w /\ j \in 0..w /\ v[j] = 0
      BY <2>3
    <3>. QED
      BY <2>2, <2>4, <3>1 DEF Adds
  <2>6. Added(v) = Q
    BY <2>4, <2>5, AddedIf
  <2>. QED
    BY <2>1, <2>2, <2>6
<1>12. Ends(loop, start)
  <2>1. start.i <= n /\ n - start.i <= n
    BY <1>1, <1>11
  <2>. HIDE DEF Ends
  <2>. QED
    BY <1>10, <1>11, <2>1
<1>13. r \in St /\ r.i <= n /\ Added(r.lanes)[w] + (A[n] - A[r.i]) = A[n]
  <2>1. A[n] \in Int
    BY <1>1, <1>4
  <2>. QED
    BY <1>3, <1>4, <1>11, <1>12, <2>1
<1>14. SumFrom(terms, r.i + 1) = A[n] - A[r.i] /\ Scalar(terms) = A[n]
  <2>1. r.i + 1 \in 1..(n + 1) /\ r.i + 1 - 1 = r.i
    BY <1>1, <1>13
  <2>2. Scalar(terms) = A[n]
    BY ScalarIs DEF n, A
  <2>3. PICK k, l : k = r.i + 1 /\ l = k - 1
    OBVIOUS
  <2>4. k \in 1..(Len(terms) + 1)
    BY <2>1, <2>3 DEF n
  <2>5. SumFrom(terms, k) = Added(terms)[Len(terms)] - Added(terms)[l]
    BY <2>3, <2>4, SumFromIs
  <2>6. l = r.i
    BY <1>1, <1>13, <2>3
  <2>. QED
    BY <2>2, <2>3, <2>5, <2>6 DEF n, A
<1>. QED
  BY <1>13, <1>14 DEF St, n

-----------------------------------------------------------------------------
(* The builds.                                                             *)

LEMMA ListIs ==
  ASSUME NEW n \in Nat, NEW v \in [1..n -> Int]
  PROVE  v \in Seq(Int) /\ Len(v) = n
OBVIOUS

LEMMA HorizontalSumIs ==
  ASSUME NEW v \in [1..8 -> Int]
  PROVE  HorizontalSum(v) = Added(v)[8]
<1>1. v \in Seq(Int) /\ Len(v) = 8 /\ \A i \in 1..8 : v[i] \in Int
  BY ListIs
<1>2. PICK P : P = Added(v)
  OBVIOUS
<1>3. P[0] = 0 /\ \A i \in 1..8 : P[i] = P[i - 1] + v[i]
  BY <1>1, <1>2, AddedIs DEF Adds
<1>4. /\ P[1] = P[0] + v[1] /\ P[2] = P[1] + v[2] /\ P[3] = P[2] + v[3]
      /\ P[4] = P[3] + v[4] /\ P[5] = P[4] + v[5] /\ P[6] = P[5] + v[6]
      /\ P[7] = P[6] + v[7] /\ P[8] = P[7] + v[8]
  <2>1. /\ P[1] = P[1 - 1] + v[1] /\ P[2] = P[2 - 1] + v[2] /\ P[3] = P[3 - 1] + v[3]
        /\ P[4] = P[4 - 1] + v[4] /\ P[5] = P[5 - 1] + v[5] /\ P[6] = P[6 - 1] + v[6]
        /\ P[7] = P[7 - 1] + v[7] /\ P[8] = P[8 - 1] + v[8]
    BY <1>3
  <2>. QED
    BY <2>1
<1>5. PICK h : h = [l \in 1..4 |-> v[l] + v[l + 4]]
  OBVIOUS
<1>6. HorizontalSum(v) = (h[1] + h[2]) + (h[3] + h[4])
  BY <1>5 DEF HorizontalSum
<1>7. /\ h[1] = v[1] + v[5] /\ h[2] = v[2] + v[6] /\ h[3] = v[3] + v[7]
      /\ h[4] = v[4] + v[8]
  <2>1. /\ h[1] = v[1] + v[1 + 4] /\ h[2] = v[2] + v[2 + 4] /\ h[3] = v[3] + v[3 + 4]
        /\ h[4] = v[4] + v[4 + 4]
    BY <1>5
  <2>. QED
    BY <2>1
<1>8. /\ v[1] \in Int /\ v[2] \in Int /\ v[3] \in Int /\ v[4] \in Int
      /\ v[5] \in Int /\ v[6] \in Int /\ v[7] \in Int /\ v[8] \in Int
  BY <1>1
<1>. QED
  BY <1>2, <1>3, <1>4, <1>6, <1>7, <1>8

\* Every build sums all terms, each once, whatever their number.
LEMMA SumOfIs ==
  ASSUME NEW terms \in Seq(Int), NEW build \in Builds
  PROVE  SumOf(build, terms) = Scalar(terms)
<1>1. CASE build = "avx2"
  <2>1. PICK r : r = WholeRegisters(terms, 8)
    OBVIOUS
  <2>2. /\ r \in LoopStates(8)
        /\ Added(r.lanes)[8] + SumFrom(terms, r.i + 1) = Scalar(terms)
    BY <2>1, WholeRegistersIs
  <2>3. HorizontalSum(r.lanes) = Added(r.lanes)[8]
    BY <2>2, HorizontalSumIs DEF LoopStates
  <2>. QED
    BY <1>1, <2>1, <2>2, <2>3 DEF SumOf, Avx2
<1>2. CASE build = "neon"
  <2>1. PICK r, v : r = WholeRegisters(terms, 4) /\ v = r.lanes
    OBVIOUS
  <2>2. /\ r \in LoopStates(4)
        /\ Added(v)[4] + SumFrom(terms, r.i + 1) = Scalar(terms)
    BY <2>1, WholeRegistersIs
  <2>3. v \in Seq(Int) /\ Len(v) = 4
    BY <2>1, <2>2, ListIs DEF LoopStates
  <2>4. SumFrom(v, 1) = Added(v)[4]
    BY <2>3, ScalarIs DEF Scalar
  <2>. QED
    BY <1>2, <2>1, <2>2, <2>4 DEF SumOf, Neon
<1>3. CASE build = "scalar"
  BY <1>3 DEF SumOf
<1>. QED
  BY <1>1, <1>2, <1>3 DEF Builds

LEMMA TermsAre ==
  ASSUME NEW v \in Seq(Int), NEW w \in Seq(Int), Len(v) = Len(w)
  PROVE  /\ Products(v, w) \in Seq(Int) /\ Len(Products(v, w)) = Len(v)
         /\ Squares(v, w) \in Seq(Int) /\ Len(Squares(v, w)) = Len(v)
<1>1. PICK n : n = Len(v)
  OBVIOUS
<1>2. /\ n \in Nat /\ DOMAIN v = 1..n
      /\ \A i \in 1..n : v[i] \in Int /\ w[i] \in Int
  BY <1>1
<1>3. ASSUME NEW i \in 1..n
      PROVE  v[i] * w[i] \in Int /\ (v[i] - w[i]) * (v[i] - w[i]) \in Int
  <2>1. v[i] \in Int /\ w[i] \in Int
    BY <1>2
  <2>. QED
    BY <2>1
<1>4. Products(v, w) \in [1..n -> Int] /\ Squares(v, w) \in [1..n -> Int]
  BY <1>2, <1>3 DEF Products, Squares
<1>. QED
  BY <1>1, <1>2, <1>4, ListIs

LEMMA KernelsAgree ==
  ASSUME NEW v \in Seq(Int), NEW w \in Seq(Int), Len(v) = Len(w),
         NEW build \in Builds, NEW metric
  PROVE  Compute(metric, build, v, w) = Compute(metric, "scalar", v, w)
<1>1. /\ Products(v, w) \in Seq(Int) /\ Squares(v, w) \in Seq(Int)
      /\ Products(v, v) \in Seq(Int) /\ Products(w, w) \in Seq(Int)
  BY TermsAre
<1>2. \A terms \in Seq(Int) : SumOf(build, terms) = SumOf("scalar", terms)
  BY SumOfIs DEF Builds
<1>3. /\ DotProduct(build, v, w) = DotProduct("scalar", v, w)
      /\ DotProduct(build, v, v) = DotProduct("scalar", v, v)
      /\ DotProduct(build, w, w) = DotProduct("scalar", w, w)
      /\ EuclideanSquared(build, v, w) = EuclideanSquared("scalar", v, w)
  BY <1>1, <1>2 DEF DotProduct, EuclideanSquared
<1>4. Cosine(build, v, w) = Cosine("scalar", v, w)
  BY <1>3 DEF Cosine
<1>. QED
  BY <1>3, <1>4 DEF Compute

\* The vectors of a call are of one length.
InputOK ==
  input.kind = "vectors" =>
    /\ input.a \in Seq(Int) /\ input.b \in Seq(Int) /\ Len(input.a) = Len(input.b)

LEMMA CallsInputOK ==
  ASSUME NEW inputs \in {VectorPairs, Filters, Fusions, Appends, Saves}, Call(inputs)
  PROVE  InputOK'
<1>1. CASE inputs = VectorPairs
  <2>1. PICK n, p, r, x, y :
          /\ n \in 0..MaxDimension /\ x \in Elements /\ y \in Elements
          /\ input' = [kind |-> "vectors", a |-> Unit(n, p, x), b |-> Unit(n, r, y)]
    BY <1>1 DEF Call, VectorPairs
  <2>2. n \in Nat /\ x \in Int /\ y \in Int
    BY <2>1, AlgorithmsConstants
  <2>3. Unit(n, p, x) \in [1..n -> Int] /\ Unit(n, r, y) \in [1..n -> Int]
    BY <2>2 DEF Unit
  <2>4. \A v \in [1..n -> Int] : v \in Seq(Int) /\ Len(v) = n
    BY <2>2
  <2>. QED
    BY <2>1, <2>3, <2>4 DEF InputOK
<1>2. CASE inputs \in {Filters, Fusions}
  <2>1. input'.kind \in {"filter", "fusion"}
    <3>1. \A x \in Filters : x.kind = "filter"
      BY DEF Filters
    <3>2. \A x \in Fusions : x.kind = "fusion"
      BY DEF Fusions
    <3>. QED
      BY <1>2, <3>1, <3>2 DEF Call
  <2>. QED
    BY <2>1 DEF InputOK
<1>3. CASE inputs \in {Appends, Saves}
  <2>1. input'.kind = "page"
    <3>1. \A x \in Appends : x.kind = "page"
      BY DEF Appends
    <3>2. \A x \in Saves : x.kind = "page"
      BY DEF Saves
    <3>. QED
      BY <1>3, <3>1, <3>2 DEF Call
  <2>. QED
    BY <2>1 DEF InputOK
<1>. QED
  BY <1>1, <1>2, <1>3

\* The portable, the AVX2 and the NEON build give two vectors the same score
\* under every metric, in every dimension: registers and remainder together
\* take each element once.
THEOREM BuildsAlwaysAgree == AlgorithmsInit /\ [][AlgorithmsNext]_input => []BuildsAgree
<1>1. AlgorithmsInit => InputOK
  BY DEF AlgorithmsInit, InputOK, NoCall
<1>2. InputOK /\ [AlgorithmsNext]_input => InputOK'
  <2>. SUFFICES ASSUME InputOK, [AlgorithmsNext]_input PROVE InputOK'
    OBVIOUS
  <2>1. CASE AlgorithmsNext
    BY <2>1, CallsInputOK DEF AlgorithmsNext
  <2>2. CASE UNCHANGED input
    BY <2>2 DEF InputOK
  <2>. QED
    BY <2>1, <2>2
<1>3. InputOK => BuildsAgree
  BY KernelsAgree DEF InputOK, BuildsAgree
<1>. QED
  BY <1>1, <1>2, <1>3, PTL

-----------------------------------------------------------------------------
(* What the scores mean.  Lagrange: the product of the squares of two lengths  *)
(* exceeds the square of the scalar product by squares, which are 0 only for  *)
(* parallel vectors.                                                          *)

LEMMA SquarePositive ==
  ASSUME NEW x \in Int
  PROVE  x * x \in Int /\ x * x >= 0 /\ (x # 0 => x * x > 0)
OBVIOUS

LEMMA ExcessGrows ==
  ASSUME NEW x \in Int, NEW y \in Int, NEW z \in Int, NEW a \in Int, NEW b \in Int
  PROVE  (x + a * a) * (y + b * b) - (z + a * b) * (z + a * b)
           = (x * y - z * z) + (x * (b * b) + y * (a * a) - 2 * (z * (a * b)))
OBVIOUS

LEMMA RestGrows ==
  ASSUME NEW x \in Int, NEW y \in Int, NEW z \in Int, NEW a \in Int, NEW b \in Int,
         NEW c \in Int, NEW d \in Int
  PROVE  (x + c * c) * (b * b) + (y + d * d) * (a * a) - 2 * ((z + c * d) * (a * b))
           = (x * (b * b) + y * (a * a) - 2 * (z * (a * b)))
               + (c * b - d * a) * (c * b - d * a)
OBVIOUS

Rest(x, y, z, a, b) == x * (b * b) + y * (a * a) - 2 * (z * (a * b))
Excess(x, y, z) == x * y - z * z

\* The sums of the products of the first k elements.
ProductSums(X, Y, Z, v, w) ==
  /\ X \in [0..Len(v) -> Int] /\ Y \in [0..Len(v) -> Int] /\ Z \in [0..Len(v) -> Int]
  /\ X[0] = 0 /\ Y[0] = 0 /\ Z[0] = 0
  /\ \A k \in 1..Len(v) : /\ X[k] = X[k - 1] + v[k] * v[k]
                          /\ Y[k] = Y[k - 1] + w[k] * w[k]
                          /\ Z[k] = Z[k - 1] + v[k] * w[k]

LEMMA SumsExist ==
  ASSUME NEW v \in Seq(Int), NEW w \in Seq(Int), Len(v) = Len(w)
  PROVE  \E X, Y, Z :
           /\ ProductSums(X, Y, Z, v, w)
           /\ Scalar(Products(v, v)) = X[Len(v)] /\ Scalar(Products(w, w)) = Y[Len(v)]
           /\ Scalar(Products(v, w)) = Z[Len(v)]
<1>1. PICK p, q, r : p = Products(v, v) /\ q = Products(w, w) /\ r = Products(v, w)
  OBVIOUS
<1>2. /\ p \in Seq(Int) /\ q \in Seq(Int) /\ r \in Seq(Int)
      /\ Len(p) = Len(v) /\ Len(q) = Len(v) /\ Len(r) = Len(v)
  BY <1>1, TermsAre
<1>3. /\ Adds(Added(p), p) /\ Scalar(p) = Added(p)[Len(p)]
      /\ Adds(Added(q), q) /\ Scalar(q) = Added(q)[Len(q)]
      /\ Adds(Added(r), r) /\ Scalar(r) = Added(r)[Len(r)]
  BY <1>2, AddedIs, ScalarIs
<1>4. /\ DOMAIN v = 1..Len(v) /\ DOMAIN w = 1..Len(v)
      /\ \A k \in 1..Len(v) :
           p[k] = v[k] * v[k] /\ q[k] = w[k] * w[k] /\ r[k] = v[k] * w[k]
  BY <1>1 DEF Products
<1>5. PICK X, Y, Z : X = Added(p) /\ Y = Added(q) /\ Z = Added(r)
  OBVIOUS
<1>6. ProductSums(X, Y, Z, v, w)
  <2>1. ASSUME NEW k \in 1..Len(v)
        PROVE  /\ X[k] = X[k - 1] + v[k] * v[k] /\ Y[k] = Y[k - 1] + w[k] * w[k]
               /\ Z[k] = Z[k - 1] + v[k] * w[k]
    <3>1. X[k] = X[k - 1] + p[k] /\ Y[k] = Y[k - 1] + q[k] /\ Z[k] = Z[k - 1] + r[k]
      BY <1>2, <1>3, <1>5 DEF Adds
    <3>. QED
      BY <1>4, <3>1
  <2>. QED
    BY <1>2, <1>3, <1>5, <2>1 DEF Adds, ProductSums
<1>. QED
  BY <1>1, <1>2, <1>3, <1>5, <1>6

\* What one more pair of elements adds to the excess is not negative, and 0
\* only when the pair has the direction of all before.
RestFits(X, Y, Z, v, w, a, b) ==
  \A k \in 0..Len(v) :
    /\ Rest(X[k], Y[k], Z[k], a, b) \in Int
    /\ Rest(X[k], Y[k], Z[k], a, b) >= 0
    /\ Rest(X[k], Y[k], Z[k], a, b) > 0 <=> \E i \in 1..k : v[i] * b # w[i] * a

LEMMA RestIs ==
  ASSUME NEW v \in Seq(Int), NEW w \in Seq(Int), Len(v) = Len(w),
         NEW X, NEW Y, NEW Z, ProductSums(X, Y, Z, v, w),
         NEW a \in Int, NEW b \in Int
  PROVE  RestFits(X, Y, Z, v, w, a, b)
<1>. DEFINE n == Len(v)
            R(k) == Rest(X[k], Y[k], Z[k], a, b)
            Skew(i) == v[i] * b # w[i] * a
            Good(k) == /\ R(k) \in Int /\ R(k) >= 0
                       /\ R(k) > 0 <=> \E i \in 1..k : Skew(i)
            P == {k \in 0..n : Good(k)}
<1>1. n \in Nat /\ \A i \in 1..n : v[i] \in Int /\ w[i] \in Int
  OBVIOUS
<1>2. 0 \in P
  <2>1. R(0) = 0
    BY DEF ProductSums, Rest
  <2>2. ~ \E i \in 1..0 : Skew(i)
    OBVIOUS
  <2>. HIDE DEF R, Skew
  <2>. QED
    BY <1>1, <2>1, <2>2
<1>3. ASSUME NEW k \in 1..n, k - 1 \in P PROVE k \in P
  <2>1. PICK x, y, z, c, d, t :
          /\ x = X[k - 1] /\ y = Y[k - 1] /\ z = Z[k - 1] /\ c = v[k] /\ d = w[k]
          /\ t = c * b - d * a
    OBVIOUS
  <2>2. x \in Int /\ y \in Int /\ z \in Int /\ c \in Int /\ d \in Int /\ t \in Int
    <3>1. k - 1 \in 0..n
      BY <1>1
    <3>2. x \in Int /\ y \in Int /\ z \in Int /\ c \in Int /\ d \in Int
      BY <1>1, <2>1, <3>1 DEF ProductSums
    <3>3. c * b \in Int /\ d * a \in Int
      BY <3>2
    <3>. QED
      BY <2>1, <3>2, <3>3
  <2>3. X[k] = x + c * c /\ Y[k] = y + d * d /\ Z[k] = z + c * d
    BY <2>1 DEF ProductSums
  <2>4. R(k) = Rest(x, y, z, a, b) + t * t
    <3>1. R(k) = (x + c * c) * (b * b) + (y + d * d) * (a * a) - 2 * ((z + c * d) * (a * b))
      BY <2>3 DEF Rest
    <3>2. (x + c * c) * (b * b) + (y + d * d) * (a * a) - 2 * ((z + c * d) * (a * b))
            = (x * (b * b) + y * (a * a) - 2 * (z * (a * b)))
                + (c * b - d * a) * (c * b - d * a)
      BY <2>2, RestGrows
    <3>. QED
      BY <2>1, <3>1, <3>2 DEF Rest
  <2>5. t * t \in Int /\ t * t >= 0 /\ (t # 0 => t * t > 0) /\ (t = 0 => t * t = 0)
    BY <2>2, SquarePositive
  <2>6. Skew(k) <=> t # 0
    <3>1. c * b \in Int /\ d * a \in Int
      BY <2>2
    <3>2. PICK e, f : e = c * b /\ f = d * a
      OBVIOUS
    <3>3. e \in Int /\ f \in Int /\ t = e - f
      BY <2>1, <3>1, <3>2
    <3>4. Skew(k) <=> c * b # d * a
      BY <2>1, Zenon
    <3>5. Skew(k) <=> e # f
      BY <3>2, <3>4, Zenon
    <3>. QED
      BY <3>3, <3>5
  <2>7. R(k - 1) = Rest(x, y, z, a, b)
    BY <2>1
  <2>. HIDE DEF R, Skew
  <2>8. Good(k - 1)
    BY <1>3
  <2>9. (\E i \in 1..k : Skew(i)) <=> (\E i \in 1..(k - 1) : Skew(i)) \/ Skew(k)
    <3>1. 1..k = (1..(k - 1)) \cup {k}
      BY <1>1
    <3>. QED
      BY <3>1
  <2>10. R(k) \in Int /\ R(k) >= 0 /\ (R(k) > 0 <=> R(k - 1) > 0 \/ t # 0)
    <3>1. PICK p, q, s : p = R(k - 1) /\ q = R(k) /\ s = t * t
      OBVIOUS
    <3>2. q = p + s /\ s \in Int /\ s >= 0 /\ (t # 0 => s > 0) /\ (t = 0 => s = 0)
      BY <2>4, <2>5, <2>7, <3>1
    <3>3. p \in Int /\ p >= 0
      BY <2>8, <3>1
    <3>. QED
      BY <3>1, <3>2, <3>3
  <2>11. Good(k)
    BY <2>6, <2>8, <2>9, <2>10
  <2>. QED
    BY <1>1, <2>11
<1>4. \A k \in 0..n : k \in P
  <2>. HIDE DEF P, n
  <2>. QED
    BY <1>1, <1>2, <1>3, Upwards
<1>. QED
  BY <1>4 DEF RestFits

LEMMA ExcessIs ==
  ASSUME NEW v \in Seq(Int), NEW w \in Seq(Int), Len(v) = Len(w),
         NEW X, NEW Y, NEW Z, ProductSums(X, Y, Z, v, w)
  PROVE  \A k \in 0..Len(v) :
           /\ Excess(X[k], Y[k], Z[k]) \in Int
           /\ Excess(X[k], Y[k], Z[k]) >= 0
           /\ Excess(X[k], Y[k], Z[k]) > 0
                <=> \E i, j \in 1..k : v[i] * w[j] # v[j] * w[i]
<1>. DEFINE n == Len(v)
            R(k) == Excess(X[k], Y[k], Z[k])
            Skew(i, j) == v[i] * w[j] # v[j] * w[i]
            Good(k) == /\ R(k) \in Int /\ R(k) >= 0
                       /\ R(k) > 0 <=> \E i, j \in 1..k : Skew(i, j)
            P == {k \in 0..n : Good(k)}
<1>1. n \in Nat /\ \A i \in 1..n : v[i] \in Int /\ w[i] \in Int
  OBVIOUS
<1>2. 0 \in P
  <2>1. R(0) = 0
    BY DEF ProductSums, Excess
  <2>2. ~ \E i, j \in 1..0 : Skew(i, j)
    OBVIOUS
  <2>. HIDE DEF R, Skew
  <2>. QED
    BY <1>1, <2>1, <2>2
<1>3. ASSUME NEW k \in 1..n, k - 1 \in P PROVE k \in P
  <2>1. PICK x, y, z, a, b, t :
          /\ x = X[k - 1] /\ y = Y[k - 1] /\ z = Z[k - 1] /\ a = v[k] /\ b = w[k]
          /\ t = Rest(x, y, z, a, b)
    OBVIOUS
  <2>2. x \in Int /\ y \in Int /\ z \in Int /\ a \in Int /\ b \in Int
    <3>1. k - 1 \in 0..n
      BY <1>1
    <3>. QED
      BY <1>1, <2>1, <3>1 DEF ProductSums
  <2>3. X[k] = x + a * a /\ Y[k] = y + b * b /\ Z[k] = z + a * b
    BY <2>1 DEF ProductSums
  <2>4. R(k) = Excess(x, y, z) + t
    <3>1. R(k) = (x + a * a) * (y + b * b) - (z + a * b) * (z + a * b)
      BY <2>3 DEF Excess
    <3>2. (x + a * a) * (y + b * b) - (z + a * b) * (z + a * b)
            = (x * y - z * z) + (x * (b * b) + y * (a * a) - 2 * (z * (a * b)))
      BY <2>2, ExcessGrows
    <3>. QED
      BY <2>1, <3>1, <3>2 DEF Rest, Excess
  <2>5. t \in Int /\ t >= 0 /\ (t > 0 <=> \E i \in 1..(k - 1) : v[i] * b # w[i] * a)
    <3>1. k - 1 \in 0..Len(v)
      BY <1>1
    <3>2. PICK m : m = k - 1
      OBVIOUS
    <3>3. RestFits(X, Y, Z, v, w, a, b)
      BY <2>2, RestIs
    <3>4. /\ Rest(X[m], Y[m], Z[m], a, b) \in Int
          /\ Rest(X[m], Y[m], Z[m], a, b) >= 0
          /\ Rest(X[m], Y[m], Z[m], a, b) > 0 <=> \E i \in 1..m : v[i] * b # w[i] * a
      BY <3>1, <3>2, <3>3, Zenon DEF RestFits
    <3>. QED
      BY <2>1, <3>2, <3>4, Zenon
  <2>6. ASSUME NEW i \in 1..(k - 1)
        PROVE  (v[i] * b # w[i] * a <=> Skew(i, k)) /\ (Skew(i, k) <=> Skew(k, i))
    <3>1. PICK c, d : c = v[i] /\ d = w[i] /\ c \in Int /\ d \in Int
      <4>1. i \in 1..n
        BY <1>1
      <4>. QED
        BY <1>1, <4>1
    <3>2. d * a = a * d
      BY <2>2, <3>1
    <3>. QED
      BY <2>1, <3>1, <3>2
  <2>7. R(k - 1) = Excess(x, y, z) /\ ~Skew(k, k)
    BY <2>1
  <2>. HIDE DEF R, Skew
  <2>8. Good(k - 1)
    BY <1>3
  <2>9. (\E i, j \in 1..k : Skew(i, j))
          <=> (\E i, j \in 1..(k - 1) : Skew(i, j)) \/ \E i \in 1..(k - 1) : Skew(i, k)
    <3>1. 1..k = (1..(k - 1)) \cup {k}
      BY <1>1
    <3>2. \A i \in 1..(k - 1) : Skew(k, i) => Skew(i, k)
      BY <2>6
    <3>. QED
      BY <2>7, <3>1, <3>2
  <2>10. R(k) \in Int /\ R(k) >= 0 /\ (R(k) > 0 <=> R(k - 1) > 0 \/ t > 0)
    <3>1. PICK p, q : p = R(k - 1) /\ q = R(k)
      OBVIOUS
    <3>2. q = p + t /\ p \in Int /\ p >= 0 /\ t \in Int /\ t >= 0
      BY <2>4, <2>5, <2>7, <2>8, <3>1
    <3>. QED
      BY <3>1, <3>2
  <2>11. Good(k)
    BY <2>5, <2>6, <2>8, <2>9, <2>10
  <2>. QED
    BY <1>1, <2>11
<1>4. \A k \in 0..n : k \in P
  <2>. HIDE DEF P, n
  <2>. QED
    BY <1>1, <1>2, <1>3, Upwards
<1>. QED
  BY <1>4

\* The scalar products of two vectors.
LEMMA Lagrange ==
  ASSUME NEW v \in Seq(Int), NEW w \in Seq(Int), Len(v) = Len(w),
         NEW x, NEW y, NEW z, x = Scalar(Products(v, v)), y = Scalar(Products(w, w)),
         z = Scalar(Products(v, w))
  PROVE  /\ x \in Int /\ y \in Int /\ z \in Int
         /\ Excess(x, y, z) \in Int /\ Excess(x, y, z) >= 0
         /\ Excess(x, y, z) > 0 <=> \E i, j \in DOMAIN v : v[i] * w[j] # v[j] * w[i]
<1>1. PICK X, Y, Z :
        /\ ProductSums(X, Y, Z, v, w)
        /\ Scalar(Products(v, v)) = X[Len(v)] /\ Scalar(Products(w, w)) = Y[Len(v)]
        /\ Scalar(Products(v, w)) = Z[Len(v)]
  BY SumsExist, Zenon
<1>2. PICK n : n = Len(v)
  OBVIOUS
<1>3. n \in Nat /\ n \in 0..n /\ DOMAIN v = 1..n
  BY <1>2
<1>4. /\ X \in [0..n -> Int] /\ Y \in [0..n -> Int] /\ Z \in [0..n -> Int]
  BY <1>1, <1>2 DEF ProductSums
<1>5. \A k \in 0..n :
        /\ Excess(X[k], Y[k], Z[k]) \in Int
        /\ Excess(X[k], Y[k], Z[k]) >= 0
        /\ Excess(X[k], Y[k], Z[k]) > 0
             <=> \E i, j \in 1..k : v[i] * w[j] # v[j] * w[i]
  BY <1>1, <1>2, ExcessIs
<1>6. /\ Excess(X[n], Y[n], Z[n]) \in Int
      /\ Excess(X[n], Y[n], Z[n]) >= 0
      /\ Excess(X[n], Y[n], Z[n]) > 0
           <=> \E i, j \in 1..n : v[i] * w[j] # v[j] * w[i]
  BY <1>3, <1>5, Zenon
<1>7. X[n] \in Int /\ Y[n] \in Int /\ Z[n] \in Int
  BY <1>3, <1>4
<1>. QED
  BY <1>1, <1>2, <1>3, <1>6, <1>7, Zenon

LEMMA NormNotNegative ==
  ASSUME NEW v \in Seq(Int)
  PROVE  Scalar(Products(v, v)) \in Nat
<1>1. PICK X, Y, Z : /\ ProductSums(X, Y, Z, v, v)
                     /\ Scalar(Products(v, v)) = X[Len(v)]
  BY SumsExist, Zenon
<1>. DEFINE n == Len(v)
<1>2. ProductSums(X, X, X, v, v)
  BY <1>1 DEF ProductSums
<1>3. n \in 0..Len(v) /\ X[n] \in Int
  BY <1>1 DEF ProductSums
<1>4. RestFits(X, X, X, v, v, 0, 1)
  BY <1>2, RestIs
<1>5. PICK x : x = X[n]
  OBVIOUS
<1>6. Rest(x, x, x, 0, 1) >= 0
  BY <1>3, <1>4, <1>5, Zenon DEF RestFits
<1>7. Rest(x, x, x, 0, 1) = x
  BY <1>3, <1>5 DEF Rest
<1>. QED
  BY <1>1, <1>3, <1>5, <1>6, <1>7

-----------------------------------------------------------------------------
(* The order of scores.                                                    *)

IsScore(s) == s[1] \in Int /\ s[2] \in Nat \ {0}

LEMMA ProductGrows ==
  ASSUME NEW x \in Int, NEW y \in Int, NEW z \in Nat \ {0}
  PROVE  x < y <=> x * z < y * z
OBVIOUS

\* A fraction is neither below itself nor below what is not above it.
LEMMA LowerOrders ==
  ASSUME NEW s, NEW t, NEW u, IsScore(s), IsScore(t), IsScore(u)
  PROVE  /\ ~(Lower(s, t) /\ Lower(t, s))
         /\ ~Lower(t, s) /\ ~Lower(u, t) => ~Lower(u, s)
         /\ Lower(s, t) /\ ~Lower(u, t) => Lower(s, u)
         /\ ~Lower(t, s) /\ Lower(t, u) => Lower(s, u)
<1>1. PICK a, p, b, q, c, r :
        /\ a = s[1] /\ p = s[2] /\ b = t[1] /\ q = t[2] /\ c = u[1] /\ r = u[2]
  OBVIOUS
<1>2. /\ a \in Int /\ b \in Int /\ c \in Int
      /\ p \in Nat \ {0} /\ q \in Nat \ {0} /\ r \in Nat \ {0}
  BY <1>1 DEF IsScore
<1>3. PICK aq, bp, br, cq, ar, cp :
        /\ aq = a * q /\ bp = b * p /\ br = b * r /\ cq = c * q /\ ar = a * r /\ cp = c * p
  OBVIOUS
<1>4. /\ aq \in Int /\ bp \in Int /\ br \in Int /\ cq \in Int /\ ar \in Int /\ cp \in Int
  BY <1>2, <1>3
<1>5. /\ Lower(s, t) <=> aq < bp
      /\ Lower(t, s) <=> bp < aq
      /\ Lower(t, u) <=> br < cq
      /\ Lower(u, t) <=> cq < br
      /\ Lower(s, u) <=> ar < cp
      /\ Lower(u, s) <=> cp < ar
  BY <1>1, <1>3 DEF Lower
<1>6. PICK aqr, bpr, cpq : aqr = aq * r /\ bpr = bp * r /\ cpq = cp * q
  OBVIOUS
<1>7. /\ aqr \in Int /\ bpr \in Int /\ cpq \in Int
      /\ aqr = ar * q /\ bpr = br * p /\ cpq = cq * p
  BY <1>2, <1>3, <1>4, <1>6
<1>8. (aq < bp <=> aqr < bpr) /\ (bp < aq <=> bpr < aqr)
  BY <1>2, <1>4, <1>6, ProductGrows
<1>9. (br < cq <=> bpr < cpq) /\ (cq < br <=> cpq < bpr)
  BY <1>2, <1>4, <1>7, ProductGrows
<1>10. (ar < cp <=> aqr < cpq) /\ (cp < ar <=> cpq < aqr)
  BY <1>2, <1>4, <1>6, <1>7, ProductGrows
<1>. QED
  BY <1>5, <1>7, <1>8, <1>9, <1>10

LEMMA DotIs ==
  ASSUME NEW v \in Seq(Int), NEW w \in Seq(Int), Len(v) = Len(w), NEW build \in Builds
  PROVE  /\ DotProduct(build, v, w) = Scalar(Products(v, w))
         /\ EuclideanSquared(build, v, w) = Scalar(Squares(v, w))
         /\ Scalar(Products(v, w)) \in Int /\ Scalar(Squares(v, w)) \in Int
  BY TermsAre, SumOfIs, ScalarIs DEF DotProduct, EuclideanSquared

\* The score under the cosine metric, in terms of the scalar products.
CosineOf(x, y, z) ==
  IF x = 0 \/ y = 0 THEN <<0, 1>> ELSE <<IF z < 0 THEN z * z ELSE -(z * z), x * y>>

LEMMA CosineIs ==
  ASSUME NEW v \in Seq(Int), NEW w \in Seq(Int), Len(v) = Len(w), NEW build \in Builds
  PROVE  Cosine(build, v, w) = CosineOf(Scalar(Products(v, v)), Scalar(Products(w, w)),
                                        Scalar(Products(v, w)))
<1>1. /\ DotProduct(build, v, w) = Scalar(Products(v, w))
      /\ DotProduct(build, v, v) = Scalar(Products(v, v))
      /\ DotProduct(build, w, w) = Scalar(Products(w, w))
  BY DotIs
<1>. QED
  BY <1>1 DEF Cosine, CosineOf, NoDirection

LEMMA CosineIsScore ==
  ASSUME NEW x \in Nat, NEW y \in Nat, NEW z \in Int
  PROVE  IsScore(CosineOf(x, y, z))
<1>1. CASE x = 0 \/ y = 0
  BY <1>1 DEF CosineOf, IsScore
<1>2. CASE x # 0 /\ y # 0
  <2>1. x * y \in Nat /\ x * y # 0 /\ z * z \in Int
    BY <1>2
  <2>2. PICK p, q : p = x * y /\ q = z * z
    OBVIOUS
  <2>3. CosineOf(x, y, z) = <<IF z < 0 THEN q ELSE -q, p>>
    BY <1>2, <2>2 DEF CosineOf
  <2>. QED
    BY <2>1, <2>2, <2>3 DEF IsScore
<1>. QED
  BY <1>1, <1>2

LEMMA ComputeIsScore ==
  ASSUME NEW v \in Seq(Int), NEW w \in Seq(Int), Len(v) = Len(w), NEW build \in Builds,
         NEW metric \in Metrics
  PROVE  IsScore(Compute(metric, build, v, w))
<1>1. CASE metric = "cosine"
  BY <1>1, CosineIs, CosineIsScore, NormNotNegative, DotIs DEF Compute
<1>2. CASE metric = "euclidean"
  BY <1>2, DotIs DEF Compute, IsScore
<1>3. CASE metric = "dot"
  BY <1>3, DotIs DEF Compute, IsScore
<1>. QED
  BY <1>1, <1>2, <1>3 DEF Metrics

\* A vector in the direction of the query has a lower cosine score than one
\* that is not.
LEMMA CosineNearer ==
  ASSUME NEW x \in Nat, NEW y \in Nat, NEW z \in Int, z > 0, Excess(x, y, z) = 0,
         NEW yy \in Nat, NEW zz \in Int, Excess(x, yy, zz) \in Int,
         Excess(x, yy, zz) > 0 \/ zz <= 0
  PROVE  Lower(CosineOf(x, y, z), CosineOf(x, yy, zz))
<1>1. PICK p, e : p = z * z /\ e = zz * zz
  OBVIOUS
<1>2. p \in Int /\ p > 0 /\ e \in Int /\ e >= 0 /\ (zz = 0 => e = 0)
  BY <1>1, SquarePositive
<1>3. x * y = p
  <2>1. PICK d : d = x * y
    OBVIOUS
  <2>2. d \in Int /\ d - p = 0
    BY <1>1, <2>1 DEF Excess
  <2>. QED
    BY <1>2, <2>1, <2>2
<1>4. x # 0 /\ y # 0
  BY <1>2, <1>3
<1>5. CosineOf(x, y, z) = <<-p, p>>
  <2>1. ~(z < 0)
    OBVIOUS
  <2>. QED
    BY <1>1, <1>3, <1>4, <2>1 DEF CosineOf
<1>6. CASE yy = 0
  <2>1. CosineOf(x, yy, zz) = <<0, 1>>
    BY <1>6 DEF CosineOf
  <2>2. (-p) * 1 < 0 * p
    BY <1>2
  <2>. QED
    BY <1>5, <2>1, <2>2 DEF Lower
<1>7. CASE yy # 0
  <2>1. PICK d, g : d = x * yy /\ g = IF zz < 0 THEN e ELSE -e
    OBVIOUS
  <2>2. d \in Int /\ d > 0
    BY <1>4, <1>7, <2>1
  <2>3. CosineOf(x, yy, zz) = <<g, d>>
    BY <1>1, <1>4, <1>7, <2>1 DEF CosineOf
  <2>4. g \in Int /\ g > -d
    <3>1. CASE zz < 0
      BY <1>2, <2>1, <2>2, <3>1
    <3>2. CASE zz = 0
      BY <1>2, <2>1, <2>2, <3>2
    <3>3. CASE zz > 0
      <4>1. d - e > 0
        <5>1. Excess(x, yy, zz) > 0
          BY <3>3
        <5>. QED
          BY <1>1, <2>1, <5>1 DEF Excess
      <4>2. g = -e
        BY <2>1, <3>3
      <4>. QED
        BY <1>2, <2>2, <4>1, <4>2
    <3>. QED
      BY <3>1, <3>2, <3>3
  <2>5. (-p) * d < g * p
    <3>1. (-d) * p < g * p
      <4>1. -d \in Int /\ p \in Nat \ {0} /\ -d < g
        BY <1>2, <2>2, <2>4
      <4>. QED
        BY <2>4, <4>1, ProductGrows
    <3>2. (-p) * d = (-d) * p
      BY <1>2, <2>2
    <3>. QED
      BY <3>1, <3>2
  <2>. QED
    BY <1>5, <2>3, <2>5 DEF Lower
<1>. QED
  BY <1>6, <1>7

\* What a metric calls nearer has the lower score.
LEMMA NearerIsLower ==
  ASSUME NEW q \in Seq(Int), NEW v \in Seq(Int), NEW w \in Seq(Int),
         Len(q) = Len(v), Len(q) = Len(w), NEW build \in Builds, NEW metric \in Metrics,
         Nearer(metric, q, v, w)
  PROVE  Lower(Compute(metric, build, q, v), Compute(metric, build, q, w))
<1>1. CASE metric = "euclidean"
  <2>1. PICK x, y : x = Scalar(Squares(q, v)) /\ y = Scalar(Squares(q, w))
    OBVIOUS
  <2>2. x < y /\ x \in Int /\ y \in Int
    BY <1>1, <2>1, DotIs DEF Nearer
  <2>3. /\ Compute(metric, build, q, v) = <<x, 1>>
        /\ Compute(metric, build, q, w) = <<y, 1>>
    BY <1>1, <2>1, DotIs DEF Compute
  <2>. QED
    BY <2>2, <2>3 DEF Lower
<1>2. CASE metric = "dot"
  <2>1. PICK x, y : x = Scalar(Products(q, v)) /\ y = Scalar(Products(q, w))
    OBVIOUS
  <2>2. x > y /\ x \in Int /\ y \in Int
    BY <1>2, <2>1, DotIs DEF Nearer, ScalarProduct
  <2>3. /\ Compute(metric, build, q, v) = <<-x, 1>>
        /\ Compute(metric, build, q, w) = <<-y, 1>>
    BY <1>2, <2>1, DotIs DEF Compute
  <2>. QED
    BY <2>2, <2>3 DEF Lower
<1>3. CASE metric = "cosine"
  <2>1. PICK x, y, z, yy, zz :
          /\ x = Scalar(Products(q, q)) /\ y = Scalar(Products(v, v))
          /\ z = Scalar(Products(q, v))
          /\ yy = Scalar(Products(w, w)) /\ zz = Scalar(Products(q, w))
    OBVIOUS
  <2>2. Parallel(q, v) /\ ~Parallel(q, w)
    BY <1>3 DEF Nearer
  <2>3. x \in Nat /\ y \in Nat /\ yy \in Nat
    BY <2>1, NormNotNegative
  <2>4. /\ z \in Int /\ Excess(x, y, z) \in Int /\ Excess(x, y, z) >= 0
        /\ Excess(x, y, z) > 0 <=> \E i, j \in DOMAIN q : q[i] * v[j] # q[j] * v[i]
    BY <2>1, Lagrange
  <2>5. /\ zz \in Int /\ Excess(x, yy, zz) \in Int
        /\ Excess(x, yy, zz) > 0 <=> \E i, j \in DOMAIN q : q[i] * w[j] # q[j] * w[i]
    BY <2>1, Lagrange
  <2>6. z > 0 /\ Excess(x, y, z) = 0
    <3>1. z > 0 /\ ~ \E i, j \in DOMAIN q : q[i] * v[j] # q[j] * v[i]
      BY <2>1, <2>2 DEF Parallel, ScalarProduct
    <3>2. ~(Excess(x, y, z) > 0)
      BY <2>4, <3>1, Zenon
    <3>. QED
      BY <2>4, <3>1, <3>2
  <2>7. Excess(x, yy, zz) > 0 \/ zz <= 0
    <3>1. ~(zz > 0) \/ \E i, j \in DOMAIN q : q[i] * w[j] # q[j] * w[i]
      BY <2>1, <2>2, Zenon DEF Parallel, ScalarProduct
    <3>2. ~(zz > 0) \/ Excess(x, yy, zz) > 0
      BY <2>5, <3>1, Zenon
    <3>. QED
      BY <2>5, <3>2
  <2>8. Lower(CosineOf(x, y, z), CosineOf(x, yy, zz))
    BY <2>3, <2>4, <2>5, <2>6, <2>7, CosineNearer
  <2>9. /\ Compute(metric, build, q, v) = CosineOf(x, y, z)
        /\ Compute(metric, build, q, w) = CosineOf(x, yy, zz)
    BY <1>3, <2>1, CosineIs DEF Compute
  <2>. QED
    BY <2>8, <2>9
<1>. QED
  BY <1>1, <1>2, <1>3 DEF Metrics

-----------------------------------------------------------------------------
(* The sort.                                                               *)

\* A permutation of 1..n reaches every number.
LEMMA PermutationIsOnto ==
  ASSUME NEW n \in Nat, NEW p \in [1..n -> 1..n],
         \A i, j \in 1..n : p[i] = p[j] => i = j
  PROVE  \A k \in 1..n : \E i \in 1..n : p[i] = k
<1>1. IsFiniteSet(1..n) /\ p \in Injection(1..n, 1..n)
  <2>1. IsFiniteSet(1..n)
    BY FS_Interval
  <2>2. p \in Injection(1..n, 1..n)
    BY DEF Injection, IsInjective
  <2>. QED
    BY <2>1, <2>2
<1>2. p \in Surjection(1..n, 1..n)
  <2>1. Cardinality(1..n) = Cardinality(1..n) <=> p \in Surjection(1..n, 1..n)
    BY <1>1, FS_Injection
  <2>. QED
    BY <2>1
<1>. QED
  BY <1>2 DEF Surjection

\* Ord orders 1..n strictly and totally.
OrdersAll(Ord, n) ==
  /\ \A i \in 1..n : <<i, i>> \notin Ord
  /\ \A i, j \in 1..n : i # j => <<i, j>> \in Ord \/ <<j, i>> \in Ord
  /\ \A i, j, k \in 1..n :
       <<i, j>> \in Ord /\ <<j, k>> \in Ord => <<i, k>> \in Ord

Below(Ord, n, i) == {j \in 1..n : <<j, i>> \in Ord}

\* What comes before i comes before whatever i comes before, and i itself does.
LEMMA BelowGrows ==
  ASSUME NEW n \in Nat, NEW Ord, OrdersAll(Ord, n)
  PROVE  /\ \A i \in 1..n : /\ IsFiniteSet(Below(Ord, n, i))
                            /\ Cardinality(Below(Ord, n, i)) \in 0..(n - 1)
         /\ \A i, j \in 1..n : <<i, j>> \in Ord =>
              Cardinality(Below(Ord, n, i)) < Cardinality(Below(Ord, n, j))
<1>1. IsFiniteSet(1..n) /\ Cardinality(1..n) = n
  BY FS_Interval
<1>2. ASSUME NEW i \in 1..n
      PROVE  /\ IsFiniteSet(Below(Ord, n, i))
             /\ Cardinality(Below(Ord, n, i)) \in 0..(n - 1)
  <2>1. /\ IsFiniteSet((1..n) \ {i}) /\ Cardinality((1..n) \ {i}) = n - 1
    BY <1>1, FS_RemoveElement
  <2>2. Below(Ord, n, i) \in SUBSET ((1..n) \ {i})
    BY DEF Below, OrdersAll
  <2>3. /\ IsFiniteSet(Below(Ord, n, i))
        /\ Cardinality(Below(Ord, n, i)) <= Cardinality((1..n) \ {i})
    BY <2>1, <2>2, FS_Subset
  <2>4. Cardinality(Below(Ord, n, i)) \in Nat
    BY <2>3, FS_CardinalityType
  <2>. QED
    BY <2>1, <2>3, <2>4
<1>3. ASSUME NEW i \in 1..n, NEW j \in 1..n, <<i, j>> \in Ord
      PROVE  Cardinality(Below(Ord, n, i)) < Cardinality(Below(Ord, n, j))
  <2>1. PICK S, T : S = Below(Ord, n, i) /\ T = Below(Ord, n, j)
    OBVIOUS
  <2>2. S \in SUBSET T /\ i \in T /\ i \notin S
    BY <1>3, <2>1 DEF Below, OrdersAll
  <2>3. IsFiniteSet(T) /\ IsFiniteSet(S)
    BY <1>2, <2>1
  <2>4. Cardinality(S) <= Cardinality(T) /\ (Cardinality(T) = Cardinality(S) => T = S)
    BY <2>2, <2>3, FS_Subset
  <2>5. Cardinality(S) \in Nat /\ Cardinality(T) \in Nat
    BY <2>3, FS_CardinalityType
  <2>. QED
    BY <2>1, <2>2, <2>4, <2>5
<1>. QED
  BY <1>2, <1>3

LEMMA SortExists ==
  ASSUME NEW n \in Nat, NEW Ord, OrdersAll(Ord, n)
  PROVE  \E p \in SetToSeqs(1..n) :
           \A i, j \in DOMAIN p : i < j => <<p[i], p[j]>> \in Ord
<1>1. PICK rank : rank = [i \in 1..n |-> Cardinality(Below(Ord, n, i)) + 1]
  OBVIOUS
<1>2. rank \in [1..n -> 1..n]
  <2>1. ASSUME NEW i \in 1..n PROVE Cardinality(Below(Ord, n, i)) + 1 \in 1..n
    <3>1. Cardinality(Below(Ord, n, i)) \in 0..(n - 1)
      BY BelowGrows
    <3>. QED
      BY <3>1
  <2>. QED
    BY <1>1, <2>1
<1>3. ASSUME NEW i \in 1..n, NEW j \in 1..n, <<i, j>> \in Ord PROVE rank[i] < rank[j]
  <2>1. PICK a, b : a = Cardinality(Below(Ord, n, i)) /\ b = Cardinality(Below(Ord, n, j))
    OBVIOUS
  <2>2. a \in 0..(n - 1) /\ b \in 0..(n - 1) /\ a < b
    BY <1>3, <2>1, BelowGrows
  <2>3. rank[i] = a + 1 /\ rank[j] = b + 1
    BY <1>1, <2>1
  <2>. QED
    BY <2>2, <2>3
<1>4. \A i, j \in 1..n : rank[i] = rank[j] => i = j
  <2>1. ASSUME NEW i \in 1..n, NEW j \in 1..n, rank[i] = rank[j], i # j PROVE FALSE
    <3>1. <<i, j>> \in Ord \/ <<j, i>> \in Ord
      BY <2>1 DEF OrdersAll
    <3>2. rank[i] < rank[j] \/ rank[j] < rank[i]
      BY <1>3, <3>1
    <3>3. rank[i] \in 1..n /\ rank[j] \in 1..n
      BY <1>2
    <3>. QED
      BY <2>1, <3>2, <3>3
  <2>. QED
    BY <2>1
<1>5. \A k \in 1..n : \E i \in 1..n : rank[i] = k
  BY <1>2, <1>4, PermutationIsOnto
<1>6. PICK p : p = [k \in 1..n |-> CHOOSE i \in 1..n : rank[i] = k]
  OBVIOUS
<1>7. \A k \in 1..n : p[k] \in 1..n /\ rank[p[k]] = k
  BY <1>5, <1>6
<1>8. p \in [1..n -> 1..n] /\ DOMAIN p = 1..n
  BY <1>6, <1>7
<1>9. p \in SetToSeqs(1..n)
  <2>1. Cardinality(1..n) = n
    BY FS_Interval
  <2>2. \A i, j \in 1..n : i # j => p[i] # p[j]
    BY <1>7
  <2>. QED
    BY <1>8, <2>1, <2>2 DEF SetToSeqs
<1>10. ASSUME NEW i \in 1..n, NEW j \in 1..n, i < j PROVE <<p[i], p[j]>> \in Ord
  <2>1. p[i] \in 1..n /\ p[j] \in 1..n /\ rank[p[i]] = i /\ rank[p[j]] = j
    BY <1>7
  <2>2. ~(<<p[j], p[i]>> \in Ord)
    <3>1. ~(j < i)
      BY <1>10
    <3>. QED
      BY <1>3, <2>1, <3>1
  <2>3. p[i] # p[j]
    <3>1. i # j
      BY <1>10
    <3>. QED
      BY <2>1, <3>1
  <2>. QED
    BY <2>1, <2>2, <2>3 DEF OrdersAll
<1>. QED
  BY <1>8, <1>9, <1>10

\* The entries in the order of their scores, equal ones in the order of the
\* index.
Sooner(score, i, j) ==
  \/ Lower(score[i], score[j])
  \/ ~Lower(score[j], score[i]) /\ i < j

LEMMA SoonerOrders ==
  ASSUME NEW n \in Nat, NEW score, \A i \in 1..n : IsScore(score[i]),
         NEW Ord, Ord = {e \in (1..n) \X (1..n) : Sooner(score, e[1], e[2])}
  PROVE  OrdersAll(Ord, n)
<1>1. \A i, j \in 1..n : <<i, j>> \in Ord <=> Sooner(score, i, j)
  OBVIOUS
<1>2. ASSUME NEW i \in 1..n PROVE ~Sooner(score, i, i)
  <2>1. ~Lower(score[i], score[i])
    BY LowerOrders
  <2>. QED
    BY <2>1 DEF Sooner
<1>3. ASSUME NEW i \in 1..n, NEW j \in 1..n, i # j
      PROVE  Sooner(score, i, j) \/ Sooner(score, j, i)
  <2>1. i < j \/ j < i
    BY <1>3
  <2>. QED
    BY <2>1 DEF Sooner
<1>4. ASSUME NEW i \in 1..n, NEW j \in 1..n, NEW k \in 1..n,
             Sooner(score, i, j), Sooner(score, j, k)
      PROVE  Sooner(score, i, k)
  <2>1. PICK s, t, u : s = score[i] /\ t = score[j] /\ u = score[k]
    OBVIOUS
  <2>2. /\ ~(Lower(s, t) /\ Lower(t, s)) /\ ~(Lower(t, u) /\ Lower(u, t))
        /\ ~Lower(t, s) /\ ~Lower(u, t) => ~Lower(u, s)
        /\ Lower(s, t) /\ ~Lower(u, t) => Lower(s, u)
        /\ ~Lower(t, s) /\ Lower(t, u) => Lower(s, u)
    <3>1. IsScore(s) /\ IsScore(t) /\ IsScore(u)
      BY <2>1
    <3>. QED
      BY <3>1, LowerOrders
  <2>3. i < j /\ j < k => i < k
    OBVIOUS
  <2>. QED
    BY <1>4, <2>1, <2>2, <2>3 DEF Sooner
<1>. QED
  BY <1>1, <1>2, <1>3, <1>4 DEF OrdersAll

LEMMA SortResultsAre ==
  ASSUME NEW T, NEW s \in Seq(T), NEW score, \A i \in DOMAIN s : IsScore(score[i]),
         NEW r, r = SortResults(s, score)
  PROVE  \E p \in [1..Len(s) -> 1..Len(s)] :
           /\ \A i, j \in 1..Len(s) : p[i] = p[j] => i = j
           /\ r = [m \in 1..Len(s) |-> s[p[m]]]
           /\ \A i, j \in 1..Len(s) : i < j => Sooner(score, p[i], p[j])
<1>. DEFINE Sorts(p) == \A i, j \in DOMAIN p : i < j => Sooner(score, p[i], p[j])
<1>1. PICK n : n = Len(s)
  OBVIOUS
<1>2. n \in Nat /\ DOMAIN s = 1..n
  BY <1>1
<1>3. PICK order : order = CHOOSE p \in SetToSeqs(1..n) : Sorts(p)
  OBVIOUS
<1>4. r = [m \in DOMAIN order |-> s[order[m]]]
  BY <1>2, <1>3 DEF SortResults, Sooner
<1>5. \E p \in SetToSeqs(1..n) : Sorts(p)
  <2>1. PICK Ord : Ord = {e \in (1..n) \X (1..n) : Sooner(score, e[1], e[2])}
    OBVIOUS
  <2>2. OrdersAll(Ord, n)
    BY <1>2, <2>1, SoonerOrders
  <2>3. PICK p \in SetToSeqs(1..n) :
          \A i, j \in DOMAIN p : i < j => <<p[i], p[j]>> \in Ord
    BY <1>2, <2>2, SortExists
  <2>4. Sorts(p)
    BY <2>1, <2>3
  <2>. QED
    BY <2>4
<1>6. order \in SetToSeqs(1..n) /\ Sorts(order)
  <2>. HIDE DEF Sorts
  <2>. QED
    BY <1>3, <1>5
<1>7. /\ order \in [1..n -> 1..n] /\ DOMAIN order = 1..n
      /\ \A i, j \in 1..n : order[i] = order[j] => i = j
  <2>1. Cardinality(1..n) = n
    BY <1>2, FS_Interval
  <2>2. /\ order \in [1..n -> 1..n]
        /\ \A i, j \in 1..n : i # j => order[i] # order[j]
    BY <1>6, <2>1 DEF SetToSeqs
  <2>. QED
    BY <2>2
<1>. QED
  BY <1>1, <1>4, <1>6, <1>7


-----------------------------------------------------------------------------
(* The answers of a search.                                                *)

\* What index_search returns: the first m entries in the order p.
Answers(found, s, score, p, m) ==
  /\ p \in [1..Len(s) -> 1..Len(s)]
  /\ \A i, j \in 1..Len(s) : p[i] = p[j] => i = j
  /\ \A i, j \in 1..Len(s) : i < j => Sooner(score, p[i], p[j])
  /\ found \in Seq(Entries) /\ Len(found) = m /\ m \in 0..Len(s)
  /\ \A i \in 1..m : found[i] = s[p[i]]

Scores(metric, q) ==
  [i \in DOMAIN vectors |-> Compute(metric, Build, q, vectors[i].vec)]

LEMMA ScoresAre ==
  ASSUME IndInv, NEW metric \in Metrics, NEW q \in Vecs
  PROVE  \A i \in 1..Len(vectors) :
           /\ Scores(metric, q)[i] = Compute(metric, Build, q, vectors[i].vec)
           /\ IsScore(Scores(metric, q)[i])
<1>. SUFFICES ASSUME NEW i \in 1..Len(vectors)
              PROVE  /\ Scores(metric, q)[i] = Compute(metric, Build, q, vectors[i].vec)
                     /\ IsScore(Scores(metric, q)[i])
  OBVIOUS
<1>1. vectors \in Seq(Entries)
  BY DEF IndInv
<1>2. vectors[i] \in Entries /\ i \in DOMAIN vectors
  BY <1>1
<1>3. PICK v : v = vectors[i].vec /\ v \in Vecs
  BY <1>2 DEF Entries
<1>4. q \in Seq(Int) /\ v \in Seq(Int) /\ Len(q) = Len(v) /\ Build \in Builds
  BY <1>3, QueryConstants
<1>5. Scores(metric, q)[i] = Compute(metric, Build, q, v)
  BY <1>2, <1>3 DEF Scores
<1>. QED
  BY <1>3, <1>4, <1>5, ComputeIsScore

LEMMA IndexSearchIs ==
  ASSUME IndInv, NEW metric \in Metrics, NEW q \in Vecs, NEW k \in Nat
  PROVE  \E p : Answers(IndexSearch(metric, q, k), vectors, Scores(metric, q), p,
                        IF k < Len(vectors) THEN k ELSE Len(vectors))
<1>1. PICK n, score, results :
        /\ n = Len(vectors) /\ score = Scores(metric, q)
        /\ results = SortResults(vectors, score)
  OBVIOUS
<1>2. vectors \in Seq(Entries) /\ n \in Nat /\ DOMAIN vectors = 1..n
  BY <1>1 DEF IndInv
<1>3. \A i \in DOMAIN vectors : IsScore(score[i])
  BY <1>1, <1>2, ScoresAre
<1>4. PICK p \in [1..n -> 1..n] :
        /\ \A i, j \in 1..n : p[i] = p[j] => i = j
        /\ results = [i \in 1..n |-> vectors[p[i]]]
        /\ \A i, j \in 1..n : i < j => Sooner(score, p[i], p[j])
  BY <1>1, <1>2, <1>3, SortResultsAre
<1>5. results \in Seq(Entries) /\ Len(results) = n
  <2>1. \A i \in 1..n : vectors[p[i]] \in Entries
    BY <1>2
  <2>2. results \in [1..n -> Entries]
    BY <1>4, <2>1
  <2>. QED
    BY <1>2, <2>2
<1>6. PICK m : m = IF k < n THEN k ELSE n
  OBVIOUS
<1>7. IndexSearch(metric, q, k) = SubSeq(results, 1, m)
  <2>1. IndexSearch(metric, q, k)
          = SubSeq(results, 1, IF k < Len(results) THEN k ELSE Len(results))
    BY <1>1 DEF IndexSearch, Scores
  <2>. QED
    BY <1>5, <1>6, <2>1
<1>8. m \in 0..n
  BY <1>2, <1>6
<1>9. PICK found : found = SubSeq(results, 1, m)
  OBVIOUS
<1>10. /\ found \in Seq(Entries) /\ Len(found) = m
       /\ \A i \in 1..m : found[i] = results[i]
  BY <1>2, <1>5, <1>8, <1>9
<1>11. \A i \in 1..m : found[i] = vectors[p[i]]
  <2>1. \A i \in 1..m : i \in 1..n
    BY <1>2, <1>8
  <2>. QED
    BY <1>4, <1>10, <2>1
<1>12. Answers(found, vectors, score, p, m)
  BY <1>1, <1>4, <1>8, <1>10, <1>11 DEF Answers
<1>. QED
  BY <1>1, <1>6, <1>7, <1>9, <1>12

\* No entry is nearer than one that comes sooner.
LEMMA SoonerIsNearest ==
  ASSUME IndInv, NEW metric \in Metrics, NEW q \in Vecs,
         NEW i \in 1..Len(vectors), NEW j \in 1..Len(vectors),
         Sooner(Scores(metric, q), i, j)
  PROVE  ~Nearer(metric, q, vectors[j].vec, vectors[i].vec)
<1>. SUFFICES ASSUME Nearer(metric, q, vectors[j].vec, vectors[i].vec) PROVE FALSE
  OBVIOUS
<1>1. PICK s, t, v, w :
        /\ s = Scores(metric, q)[i] /\ t = Scores(metric, q)[j]
        /\ v = vectors[i].vec /\ w = vectors[j].vec
  OBVIOUS
<1>2. /\ s = Compute(metric, Build, q, v) /\ t = Compute(metric, Build, q, w)
      /\ IsScore(s) /\ IsScore(t)
  BY <1>1, ScoresAre
<1>3. v \in Vecs /\ w \in Vecs
  <2>1. vectors \in Seq(Entries)
    BY DEF IndInv
  <2>2. vectors[i] \in Entries /\ vectors[j] \in Entries
    BY <2>1
  <2>. QED
    BY <1>1, <2>2 DEF Entries
<1>4. /\ q \in Seq(Int) /\ v \in Seq(Int) /\ w \in Seq(Int)
      /\ Len(q) = Len(v) /\ Len(q) = Len(w) /\ Build \in Builds
  BY <1>3, QueryConstants
<1>5. Nearer(metric, q, w, v)
  BY <1>1
<1>6. Lower(t, s)
  BY <1>2, <1>4, <1>5, NearerIsLower
<1>7. ~Lower(s, t)
  BY <1>2, <1>6, LowerOrders
<1>. QED
  BY <1>1, <1>6, <1>7 DEF Sooner

LEMMA AnswersHold ==
  ASSUME IndInv, NEW metric \in Metrics, NEW q \in Vecs, NEW k \in Nat,
         NEW found, found = IndexSearch(metric, q, k)
  PROVE  /\ Len(found) = IF k < Len(vectors) THEN k ELSE Len(vectors)
         /\ IsInjective(found) /\ ToSet(found) \subseteq ToSet(vectors)
         /\ \A i \in DOMAIN found :
              /\ \A j \in 1..(i - 1) :
                   ~Nearer(metric, q, found[i].vec, found[j].vec)
              /\ \A e \in ToSet(vectors) \ ToSet(found) :
                   ~Nearer(metric, q, e.vec, found[i].vec)
<1>1. PICK n, score, m :
        /\ n = Len(vectors) /\ score = Scores(metric, q)
        /\ m = IF k < n THEN k ELSE n
  OBVIOUS
<1>2. PICK p : Answers(found, vectors, score, p, m)
  BY <1>1, IndexSearchIs
<1>3. /\ p \in [1..n -> 1..n]
      /\ \A i, j \in 1..n : p[i] = p[j] => i = j
      /\ \A i, j \in 1..n : i < j => Sooner(score, p[i], p[j])
      /\ found \in Seq(Entries) /\ Len(found) = m /\ m \in 0..n
      /\ \A i \in 1..m : found[i] = vectors[p[i]]
  BY <1>1, <1>2 DEF Answers
<1>4. /\ vectors \in Seq(Entries) /\ OneEntryEach(vectors) /\ n \in Nat
      /\ DOMAIN vectors = 1..n /\ DOMAIN found = 1..m
      /\ \A i \in 1..m : i \in 1..n
  <2>1. vectors \in Seq(Entries) /\ OneEntryEach(vectors)
    BY DEF IndInv
  <2>2. n \in Nat /\ DOMAIN vectors = 1..n /\ DOMAIN found = 1..m
    BY <1>1, <1>3, <2>1
  <2>3. \A i \in 1..m : i \in 1..n
    BY <1>3, <2>2
  <2>. QED
    BY <2>1, <2>2, <2>3
<1>5. \A i \in 1..n : p[i] \in 1..n
  BY <1>3
<1>6. IsInjective(found)
  <2>1. ASSUME NEW i \in 1..m, NEW j \in 1..m, found[i] = found[j] PROVE i = j
    <3>1. vectors[p[i]] = vectors[p[j]] /\ p[i] \in 1..n /\ p[j] \in 1..n
      BY <1>3, <1>4, <1>5, <2>1
    <3>2. p[i] = p[j]
      BY <1>4, <3>1 DEF OneEntryEach
    <3>. QED
      BY <1>3, <1>4, <3>2
  <2>. QED
    BY <1>4, <2>1 DEF IsInjective
<1>7. ToSet(found) \subseteq ToSet(vectors)
  <2>1. \A i \in 1..m : found[i] = vectors[p[i]] /\ p[i] \in 1..n
    BY <1>3, <1>4, <1>5
  <2>. QED
    BY <1>4, <2>1 DEF ToSet
<1>8. ASSUME NEW i \in 1..m, NEW j \in 1..(i - 1)
      PROVE  ~Nearer(metric, q, found[i].vec, found[j].vec)
  <2>1. j \in 1..m /\ j < i
    BY <1>3, <1>4
  <2>2. Sooner(score, p[j], p[i]) /\ p[i] \in 1..n /\ p[j] \in 1..n
    BY <1>3, <1>4, <1>5, <2>1
  <2>3. ~Nearer(metric, q, vectors[p[i]].vec, vectors[p[j]].vec)
    BY <1>1, <2>2, SoonerIsNearest
  <2>. QED
    BY <1>3, <2>1, <2>3
<1>9. ASSUME NEW i \in 1..m, NEW e \in ToSet(vectors) \ ToSet(found)
      PROVE  ~Nearer(metric, q, e.vec, found[i].vec)
  <2>1. PICK l \in 1..n : e = vectors[l]
    BY <1>4 DEF ToSet
  <2>2. PICK t \in 1..n : p[t] = l
    <3>1. n \in Nat /\ p \in [1..n -> 1..n] /\ \A a, b \in 1..n : p[a] = p[b] => a = b
      BY <1>3, <1>4
    <3>2. \A h \in 1..n : \E t \in 1..n : p[t] = h
      BY <3>1, PermutationIsOnto
    <3>. QED
      BY <3>2
  <2>3. t \notin 1..m
    <3>. SUFFICES ASSUME t \in 1..m PROVE FALSE
      OBVIOUS
    <3>1. e = found[t]
      BY <1>3, <2>1, <2>2
    <3>. QED
      BY <1>4, <3>1 DEF ToSet
  <2>4. i < t /\ i \in 1..n
    BY <1>3, <1>4, <2>3
  <2>5. Sooner(score, p[i], l) /\ p[i] \in 1..n
    BY <1>3, <1>5, <2>2, <2>4
  <2>6. ~Nearer(metric, q, vectors[l].vec, vectors[p[i]].vec)
    BY <1>1, <2>5, SoonerIsNearest
  <2>. QED
    BY <1>3, <2>1, <2>6
<1>10. Len(found) = IF k < Len(vectors) THEN k ELSE Len(vectors)
  BY <1>1, <1>3
<1>. QED
  BY <1>4, <1>6, <1>7, <1>8, <1>9, <1>10

\* The flat index is exact, for every build, metric, query and k, after any
\* inserts, replacements and removals: it returns the k nearest entries, nearest
\* first and each once; for the cosine, those in the direction of the query first.
THEOREM AnswersAlwaysNearest == Spec => []AnswersAreNearest
<1>1. IndInv => AnswersAreNearest
  <2>. SUFFICES ASSUME IndInv, NEW metric \in Metrics, NEW q \in Vecs, NEW k \in Ks,
                       NEW found, found = IndexSearch(metric, q, k)
                PROVE  /\ Len(found) = IF k < Len(vectors) THEN k ELSE Len(vectors)
                       /\ IsInjective(found) /\ ToSet(found) \subseteq ToSet(vectors)
                       /\ \A i \in DOMAIN found :
                            /\ \A j \in 1..(i - 1) :
                                 ~Nearer(metric, q, found[i].vec, found[j].vec)
                            /\ \A e \in ToSet(vectors) \ ToSet(found) :
                                 ~Nearer(metric, q, e.vec, found[i].vec)
    BY DEF AnswersAreNearest
  <2>1. k \in Nat
    BY QueryConstants
  <2>. QED
    BY <2>1, AnswersHold
<1>. QED
  BY InvariantHolds, <1>1, PTL


-----------------------------------------------------------------------------
(* The tokens of a filter.                                                 *)

LEMMA WordsAre ==
  /\ \A v, w : Word(v) = Word(w) <=> v = w
  /\ \A w : IsWord(Word(w)) /\ ~IsString(Word(w)) /\ ~IsNumber(Word(w))
  /\ \A w : Word(w).word = w
BY DEF Word, IsWord, IsString, IsNumber

LEMMA StringsAre ==
  ASSUME NEW s, NEW t, t = [str |-> s]
  PROVE  /\ IsString(t) /\ ~IsWord(t) /\ ~IsNumber(t) /\ t.str = s
         /\ \A w : t # Word(w)
BY DEF Word, IsWord, IsString, IsNumber

LEMMA NumbersAre ==
  ASSUME NEW n, NEW t, t = [num |-> n, point |-> FALSE]
  PROVE  /\ IsNumber(t) /\ ~IsWord(t) /\ ~IsString(t) /\ t.num = n /\ ~t.point
         /\ \A w : t # Word(w)
BY DEF Word, IsWord, IsString, IsNumber

Tokens ==
  {Word(w) : w \in Operators \cup Fields} \cup {[str |-> s] : s \in Texts}
    \cup {[num |-> n, point |-> FALSE] : n \in Quantities}

LEMMA FirstOf ==
  /\ First({}) = 0
  /\ \A k \in Nat : First({k}) = k
<1>1. First({}) = 0
  BY DEF First
<1>2. ASSUME NEW k \in Nat PROVE First({k}) = k
  <2>1. First({k}) = CHOOSE i \in {k} : \A j \in {k} : i <= j
    BY DEF First
  <2>2. k \in {k} /\ \A j \in {k} : k <= j
    OBVIOUS
  <2>. QED
    BY <2>1, <2>2
<1>. QED
  BY <1>1, <1>2

\* The text has t behind its first a tokens.
Holds(text, a, t) ==
  /\ a \in Nat /\ t \in Seq(Tokens) /\ a + Len(t) <= Len(text)
  /\ \A i \in 1..Len(t) : text[a + i] = t[i]

LEMMA SubSeqIs ==
  ASSUME NEW s \in Seq(Tokens), NEW lo \in Int, NEW hi \in Int,
         1 <= lo, lo <= hi + 1, hi <= Len(s)
  PROVE  /\ SubSeq(s, lo, hi) \in Seq(Tokens) /\ Len(SubSeq(s, lo, hi)) = hi - lo + 1
         /\ \A i \in 1..(hi - lo + 1) : SubSeq(s, lo, hi)[i] = s[lo + i - 1]
<1>1. SubSeq(s, lo, hi) \in Seq(Tokens)
  OBVIOUS
<1>2. Len(SubSeq(s, lo, hi)) = hi - lo + 1
  OBVIOUS
<1>3. ASSUME NEW i \in 1..(hi - lo + 1) PROVE SubSeq(s, lo, hi)[i] = s[lo + i - 1]
  OBVIOUS
<1>. QED
  BY <1>1, <1>2, <1>3

LEMMA SameTokens ==
  ASSUME NEW s \in Seq(Tokens), NEW t \in Seq(Tokens), NEW n, Len(s) = n, Len(t) = n,
         \A i \in 1..n : s[i] = t[i]
  PROVE  s = t
OBVIOUS

LEMMA PieceIs ==
  ASSUME NEW text \in Seq(Tokens), NEW a, NEW t, Holds(text, a, t)
  PROVE  SubSeq(text, a + 1, a + Len(t)) = t
<1>1. PICK n, s : n = Len(t) /\ s = SubSeq(text, a + 1, a + n)
  OBVIOUS
<1>2. /\ n \in Nat /\ a \in Nat /\ a + n <= Len(text) /\ t \in Seq(Tokens)
      /\ \A i \in 1..n : text[a + i] = t[i]
  BY <1>1 DEF Holds
<1>3. s \in Seq(Tokens) /\ Len(s) = n /\ \A i \in 1..n : s[i] = text[a + i]
  <2>1. PICK lo, hi, m : lo = a + 1 /\ hi = a + n /\ m = Len(text)
    OBVIOUS
  <2>2. /\ s = SubSeq(text, lo, hi) /\ m \in Nat /\ lo \in 1..(m + 1) /\ hi \in (lo - 1)..m
        /\ lo \in Int /\ hi \in Int /\ hi - lo + 1 = n /\ \A i \in 1..n : lo + i - 1 = a + i
    BY <1>1, <1>2, <2>1
  <2>3. /\ s \in Seq(Tokens) /\ Len(s) = hi - lo + 1
        /\ \A i \in 1..(hi - lo + 1) : s[i] = text[lo + i - 1]
    <3>1. 1 <= lo /\ lo <= hi + 1 /\ hi <= Len(text)
      BY <2>1, <2>2
    <3>. QED
      BY <2>2, <3>1, SubSeqIs
  <2>4. \A i \in 1..n : s[i] = text[lo + i - 1]
    BY <2>2, <2>3
  <2>5. ASSUME NEW i \in 1..n PROVE s[i] = text[a + i]
    <3>1. lo + i - 1 = a + i
      BY <2>2
    <3>2. s[i] = text[lo + i - 1]
      BY <2>4
    <3>. QED
      BY <3>1, <3>2, Zenon
  <2>6. Len(s) = n
    BY <2>2, <2>3
  <2>. QED
    BY <2>3, <2>5, <2>6
<1>4. s = t
  <2>1. \A i \in 1..n : s[i] = t[i]
    BY <1>2, <1>3
  <2>2. s \in Seq(Tokens) /\ t \in Seq(Tokens) /\ Len(s) = n /\ Len(t) = n
    BY <1>1, <1>2, <1>3
  <2>. QED
    BY <2>1, <2>2, SameTokens
<1>. QED
  BY <1>1, <1>4

LEMMA FirstIs ==
  ASSUME NEW S \in SUBSET Int, NEW m \in S, \A j \in S : m <= j
  PROVE  First(S) = m
<1>1. PICK f : f = CHOOSE i \in S : \A j \in S : i <= j
  OBVIOUS
<1>2. f \in S /\ \A j \in S : f <= j
  BY <1>1
<1>3. f <= m /\ m <= f /\ f \in Int /\ m \in Int
  BY <1>2
<1>4. f = m
  BY <1>3
<1>. QED
  BY <1>1, <1>4 DEF First

\* The part of a text from a cut to the next.
Piece(text, ends, i) == SubSeq(text, i + 1, First({j \in ends : j > i}) - 1)

LEMMA PieceBetween ==
  ASSUME NEW text \in Seq(Tokens), NEW a, NEW t, Holds(text, a, t),
         NEW ends \in SUBSET Int, a + Len(t) + 1 \in ends,
         \A j \in ends : j > a => a + Len(t) + 1 <= j
  PROVE  Piece(text, ends, a) = t
<1>1. PICK S, n : S = {j \in ends : j > a} /\ n = Len(t)
  OBVIOUS
<1>2. n \in Nat /\ a \in Nat
  BY <1>1 DEF Holds
<1>3. First(S) = a + n + 1
  <2>1. PICK e : e = a + Len(t) + 1
    OBVIOUS
  <2>2. e \in ends /\ \A j \in ends : j > a => e <= j
    BY <2>1
  <2>3. e > a /\ e = a + n + 1
    BY <1>1, <1>2, <2>1
  <2>4. e \in S /\ S \in SUBSET Int /\ \A j \in S : e <= j
    BY <1>1, <2>2, <2>3
  <2>5. First(S) = e
    BY <2>4, FirstIs
  <2>. QED
    BY <2>3, <2>5
<1>4. First(S) - 1 = a + n
  BY <1>2, <1>3
<1>5. Piece(text, ends, a) = SubSeq(text, a + 1, First(S) - 1)
  BY <1>1 DEF Piece
<1>. QED
  BY <1>1, <1>4, <1>5, PieceIs

LEMMA PartsAre ==
  \A text, cuts : Parts(text, cuts) = {Piece(text, cuts \cup {Len(text) + 1}, i) :
                                         i \in cuts \cup {0}}
BY DEF Parts, Piece

\* s is u and then v.
Concatenates(s, u, v) ==
  /\ s \in Seq(Tokens) /\ Len(s) = Len(u) + Len(v)
  /\ \A i \in 1..Len(u) : s[i] = u[i]
  /\ \A i \in 1..Len(v) : s[Len(u) + i] = v[i]

LEMMA ConcatIs ==
  ASSUME NEW u \in Seq(Tokens), NEW v \in Seq(Tokens)
  PROVE  Concatenates(u \o v, u, v)
BY DEF Concatenates

\* A condition of three tokens: a field, an operator and a value.
ThreeTokens(text, f, o, t) ==
  /\ text \in Seq(Tokens) /\ Len(text) = 3
  /\ text[1] = Word(f) /\ text[2] = Word(o) /\ text[3] = t

LEMMA ThreeTokensAre ==
  ASSUME NEW f \in Fields, NEW o \in Operators, NEW t \in Tokens, NEW text,
         text = <<Word(f)>> \o <<Word(o), t>>
  PROVE  ThreeTokens(text, f, o, t)
<1>1. PICK a, b : a = Word(f) /\ b = Word(o) /\ a \in Tokens /\ b \in Tokens
  BY DEF Tokens
<1>2. PICK u, v : u = <<a>> /\ v = <<b, t>>
  OBVIOUS
<1>3. /\ u \in Seq(Tokens) /\ v \in Seq(Tokens) /\ Len(u) = 1 /\ Len(v) = 2
      /\ u[1] = a /\ v[1] = b /\ v[2] = t
  BY <1>1, <1>2
<1>4. text = u \o v
  BY <1>1, <1>2
<1>5. /\ text \in Seq(Tokens) /\ Len(text) = Len(u) + Len(v)
      /\ \A i \in 1..Len(u) : text[i] = u[i]
      /\ \A i \in 1..Len(v) : text[Len(u) + i] = v[i]
  <2>1. /\ u \o v \in Seq(Tokens) /\ Len(u \o v) = Len(u) + Len(v)
        /\ \A i \in 1..Len(u) : (u \o v)[i] = u[i]
        /\ \A i \in 1..Len(v) : (u \o v)[Len(u) + i] = v[i]
    <3>1. u \in Seq(Tokens) /\ v \in Seq(Tokens)
      BY <1>3
    <3>. QED
      BY <3>1
  <2>. QED
    BY <1>4, <2>1, Zenon
<1>6. text[1] = u[1] /\ text[1 + 1] = v[1] /\ text[1 + 2] = v[2]
  BY <1>3, <1>5
<1>. QED
  BY <1>1, <1>3, <1>5, <1>6 DEF ThreeTokens

LEMMA OccurrencesOfThree ==
  ASSUME NEW f \in Fields, NEW o \in Operators, NEW t \in Tokens, ~IsWord(t), NEW text,
         ThreeTokens(text, f, o, t)
  PROVE  \A w \in Operators : Occurrences(text, w) = IF w = o THEN {2} ELSE {}
<1>. SUFFICES ASSUME NEW w \in Operators
              PROVE  Occurrences(text, w) = IF w = o THEN {2} ELSE {}
  OBVIOUS
<1>1. text[1] # Word(w) /\ text[3] # Word(w) /\ (text[2] = Word(w) <=> w = o)
  BY FilterConstants, WordsAre DEF ThreeTokens
<1>2. DOMAIN text = {1, 2, 3}
  BY DEF ThreeTokens
<1>. QED
  BY <1>1, <1>2 DEF Occurrences

LEMMA PartsOfThree ==
  ASSUME NEW f \in Fields, NEW o \in Operators, NEW t \in Tokens, NEW text,
         ThreeTokens(text, f, o, t)
  PROVE  Field(Before(text, 2)) = f /\ Len(After(text, 2)) = 1 /\ After(text, 2)[1] = t
<1>1. PICK u : u = Before(text, 2)
  OBVIOUS
<1>2. Len(u) = 1 /\ u[1] = Word(f)
  BY <1>1 DEF Before, ThreeTokens
<1>3. Field(u) = f
  BY <1>2, WordsAre DEF Field
<1>4. Len(After(text, 2)) = 1 /\ After(text, 2)[1] = t
  BY DEF After, ThreeTokens
<1>. QED
  BY <1>1, <1>3, <1>4

\* The operators are where the parser looks for them.
LEMMA ThreeParse ==
  ASSUME NEW f \in Fields, NEW o \in Operators, NEW t \in Tokens, ~IsWord(t), NEW text,
         ThreeTokens(text, f, o, t)
  PROVE  /\ o = "=" /\ IsString(t) /\ ~Mentions(t.str) =>
              ParseCondition(text) = [op |-> "equals", field |-> f, value |-> t]
         /\ o = ">" /\ IsNumber(t) /\ ~IsString(t) =>
              ParseCondition(text) = [op |-> "more", field |-> f, value |-> t.num]
         /\ o = "<" /\ IsNumber(t) /\ ~IsString(t) =>
              ParseCondition(text) = [op |-> "less", field |-> f, value |-> t.num]
         /\ o = "CONTAINS" /\ IsString(t) =>
              ParseCondition(text) = [op |-> "contains", field |-> f, value |-> t.str]
<1>1. PICK in, contains, equals, more, less :
        /\ in = First(Inner(text, "IN"))
        /\ contains = FindContains(text)
        /\ equals = First(Occurrences(text, "="))
        /\ more = First(Occurrences(text, ">"))
        /\ less = First(Occurrences(text, "<"))
  OBVIOUS
<1>2. ParseCondition(text) =
        IF in # 0 /\ ListAfter(text, in) THEN InCondition(text, in)
        ELSE IF contains # 0 THEN ContainsCondition(text, contains)
        ELSE IF equals # 0 THEN EqualsCondition(text, equals)
        ELSE IF more # 0 THEN Comparison("more", text, more)
        ELSE IF less # 0 THEN Comparison("less", text, less)
        ELSE Error
  BY <1>1 DEF ParseCondition
<1>3. \A w \in Operators : Occurrences(text, w) = IF w = o THEN {2} ELSE {}
  BY OccurrencesOfThree
<1>4. /\ equals = IF o = "=" THEN 2 ELSE 0
      /\ more = IF o = ">" THEN 2 ELSE 0
      /\ less = IF o = "<" THEN 2 ELSE 0
  BY <1>1, <1>3, FirstOf DEF Operators
<1>5. o # "IN" => in = 0
  <2>1. o # "IN" => Inner(text, "IN") = {}
    BY <1>3 DEF Inner, Operators
  <2>. QED
    BY <1>1, <2>1, FirstOf
<1>6. Field(Before(text, 2)) = f /\ Len(After(text, 2)) = 1 /\ After(text, 2)[1] = t
  BY PartsOfThree
<1>7. ~IsString(t) \/ ~Mentions(t.str) =>
        contains = IF o = "CONTAINS" THEN 2 ELSE 0
  <2>. SUFFICES ASSUME ~IsString(t) \/ ~Mentions(t.str)
                PROVE  contains = IF o = "CONTAINS" THEN 2 ELSE 0
    OBVIOUS
  <2>1. ~IsString(text[1]) /\ ~IsString(text[2]) /\ text[3] = t
    BY WordsAre DEF ThreeTokens
  <2>2. DOMAIN text = {1, 2, 3} /\ Len(text) = 3
    BY DEF ThreeTokens
  <2>3. {i \in DOMAIN text : IsString(text[i]) /\ Mentions(text[i].str)} = {}
    <3>. SUFFICES ASSUME NEW i \in DOMAIN text, IsString(text[i]), Mentions(text[i].str)
                  PROVE  FALSE
      OBVIOUS
    <3>1. text[i] = t
      BY <2>1, <2>2
    <3>. QED
      BY <3>1, Zenon
  <2>4. Inner(text, "CONTAINS") = IF o = "CONTAINS" THEN {2} ELSE {}
    <3>1. Occurrences(text, "CONTAINS") = IF o = "CONTAINS" THEN {2} ELSE {}
      BY <1>3 DEF Operators
    <3>. QED
      BY <2>2, <3>1 DEF Inner
  <2>5. contains = First(IF o = "CONTAINS" THEN {2} ELSE {})
    BY <1>1, <2>3, <2>4 DEF FindContains
  <2>. QED
    BY <2>5, FirstOf
<1>8. ASSUME o = "=", IsString(t), ~Mentions(t.str)
      PROVE  ParseCondition(text) = [op |-> "equals", field |-> f, value |-> t]
  <2>1. ParseCondition(text) = EqualsCondition(text, 2)
    BY <1>2, <1>4, <1>5, <1>7, <1>8
  <2>. QED
    BY <1>6, <1>8, <2>1 DEF EqualsCondition, EqualsValue
<1>9. ASSUME o = ">", IsNumber(t), ~IsString(t)
      PROVE  ParseCondition(text) = [op |-> "more", field |-> f, value |-> t.num]
  <2>1. ParseCondition(text) = Comparison("more", text, 2)
    BY <1>2, <1>4, <1>5, <1>7, <1>9
  <2>. QED
    BY <1>6, <1>9, <2>1 DEF Comparison
<1>10. ASSUME o = "<", IsNumber(t), ~IsString(t)
       PROVE  ParseCondition(text) = [op |-> "less", field |-> f, value |-> t.num]
  <2>1. ParseCondition(text) = Comparison("less", text, 2)
    BY <1>2, <1>4, <1>5, <1>7, <1>10
  <2>. QED
    BY <1>6, <1>10, <2>1 DEF Comparison
<1>11. ASSUME o = "CONTAINS", IsString(t)
       PROVE  ParseCondition(text) = [op |-> "contains", field |-> f, value |-> t.str]
  <2>0. contains = 2
    <3>1. Len(text) = 3 /\ DOMAIN text = 1..3 /\ ~IsString(text[1])
      BY WordsAre DEF ThreeTokens
    <3>2. Inner(text, "CONTAINS") = {2}
      BY <1>3, <1>11, <3>1 DEF Inner
    <3>3. PICK C : C = Inner(text, "CONTAINS")
                         \cup {i \in DOMAIN text : IsString(text[i]) /\ Mentions(text[i].str)}
      OBVIOUS
    <3>4. 2 \in C /\ C \in SUBSET Int /\ \A i \in C : 2 <= i
      BY <3>1, <3>2, <3>3
    <3>5. First(C) = 2
      BY <3>4, FirstIs
    <3>. QED
      BY <1>1, <3>3, <3>5 DEF FindContains
  <2>1. ParseCondition(text) = ContainsCondition(text, 2)
    BY <1>2, <1>5, <1>11, <2>0
  <2>2. IsWord(text[2]) /\ Len(text) = 2 + 1 /\ text[2 + 1] = t
    BY WordsAre DEF ThreeTokens
  <2>. QED
    BY <1>6, <1>11, <2>1, <2>2 DEF ContainsCondition
<1>. QED
  BY <1>8, <1>9, <1>10, <1>11

\* The strings of a list, each once, with commas between them.
Lists(L, S, n) ==
  /\ n \in Nat \ {0}
  /\ L \in Seq({[str |-> s] : s \in S} \cup {Comma}) /\ Len(L) = 2 * n - 1
  /\ \A k \in 1..n : \E s \in S : L[2 * k - 1] = [str |-> s]
  /\ \A k \in 1..(n - 1) : L[2 * k] = Comma
  /\ \A s \in S : \E k \in 1..n : L[2 * k - 1] = [str |-> s]

LEMMA ListedIs ==
  ASSUME NEW S, IsFiniteSet(S), S # {}, NEW L, L = Listed(S)
  PROVE  \E n : Lists(L, S, n)
<1>1. PICK n : n = Cardinality(S) /\ n \in Nat \ {0}
  BY FS_CardinalityType, FS_EmptySet
<1>2. PICK s : s = SetToSeq(S)
  OBVIOUS
<1>3. s \in [1..n -> S] /\ IsInjective(s)
  <2>1. PICK f : f \in [1..n -> S] /\ IsInjective(f)
    <3>1. ExistsBijection(1..n, S)
      BY <1>1, FS_CardinalityType
    <3>. QED
      BY <3>1 DEF ExistsBijection, Bijection, Injection, IsInjective
  <2>. QED
    BY <1>1, <1>2, <2>1 DEF SetToSeq
<1>4. \A x \in S : \E i \in 1..n : s[i] = x
  <2>1. s \in Injection(1..n, S)
    BY <1>3 DEF Injection, IsInjective
  <2>2. Cardinality(1..n) = Cardinality(S)
    BY <1>1, FS_Interval
  <2>3. s \in Surjection(1..n, S)
    BY <2>1, <2>2, FS_Injection
  <2>. QED
    BY <2>3 DEF Surjection
<1>5. Len(s) = n
  BY <1>1, <1>3
<1>6. L = [i \in 1..(2 * n - 1) |-> IF i % 2 = 1 THEN [str |-> s[(i + 1) \div 2]] ELSE Comma]
  BY <1>2, <1>5 DEF Listed
<1>7. ASSUME NEW i \in 1..(2 * n - 1)
      PROVE  L[i] \in {[str |-> x] : x \in S} \cup {Comma}
  <2>1. CASE i % 2 = 1
    <3>1. PICK k : k = (i + 1) \div 2 /\ k \in 1..n
      BY <1>1
    <3>2. L[i] = [str |-> s[k]] /\ s[k] \in S
      BY <1>3, <1>6, <2>1, <3>1
    <3>. QED
      BY <3>2
  <2>2. CASE i % 2 # 1
    BY <1>6, <2>2
  <2>. QED
    BY <2>1, <2>2
<1>8. ASSUME NEW k \in 1..n PROVE L[2 * k - 1] = [str |-> s[k]] /\ s[k] \in S
  <2>1. PICK i : i = 2 * k - 1
    OBVIOUS
  <2>2. i \in 1..(2 * n - 1) /\ i % 2 = 1 /\ (i + 1) \div 2 = k
    BY <1>1, <2>1
  <2>. QED
    BY <1>3, <1>6, <2>1, <2>2
<1>10. ASSUME NEW k \in 1..(n - 1) PROVE L[2 * k] = Comma
  <2>1. PICK i : i = 2 * k
    OBVIOUS
  <2>2. i \in 1..(2 * n - 1) /\ i % 2 # 1
    BY <1>1, <2>1
  <2>. QED
    BY <1>6, <2>1, <2>2
<1>11. \A x \in S : \E k \in 1..n : L[2 * k - 1] = [str |-> x]
  BY <1>4, <1>8
<1>9. L \in Seq({[str |-> x] : x \in S} \cup {Comma}) /\ Len(L) = 2 * n - 1
  <2>1. PICK m, T : m = 2 * n - 1 /\ T = {[str |-> x] : x \in S} \cup {Comma}
    OBVIOUS
  <2>2. m \in Nat /\ L \in [1..m -> T]
    <3>1. \A i \in 1..m : L[i] \in T
      BY <1>7, <2>1
    <3>2. DOMAIN L = 1..m /\ L = [i \in DOMAIN L |-> L[i]]
      BY <1>6, <2>1
    <3>3. m \in Nat
      BY <1>1, <2>1
    <3>. QED
      BY <3>1, <3>2, <3>3
  <2>3. L \in Seq(T) /\ Len(L) = m
    BY <2>2
  <2>. QED
    BY <2>1, <2>3
<1>. QED
  BY <1>1, <1>8, <1>9, <1>10, <1>11 DEF Lists

\* n strings of S at every second place behind the fourth, commas between them.
Alternates(text, S, n) ==
  /\ n \in Nat \ {0} /\ Len(text) = 2 * n + 3
  /\ \A k \in 1..n : \E s \in S : text[3 + (2 * k - 1)] = [str |-> s]
  /\ \A k \in 1..(n - 1) : text[3 + 2 * k] = Comma
  /\ \A s \in S : \E k \in 1..n : text[3 + (2 * k - 1)] = [str |-> s]

ListText(text, f, S) ==
  /\ text \in Seq(Tokens) /\ Len(text) >= 5
  /\ text[1] = Word(f) /\ text[2] = Word("IN") /\ text[3] = Word("(")
  /\ text[Len(text)] = Word(")")
  /\ \A i \in 4..(Len(text) - 1) : text[i] = Comma \/ \E s \in S : text[i] = [str |-> s]
  /\ \E n : Alternates(text, S, n)

LEMMA ListTextIs ==
  ASSUME NEW f \in Fields, NEW S \in SUBSET Texts, S # {}, NEW text,
         text = <<Word(f)>> \o (<<Word("IN"), Word("(")>> \o Listed(S) \o <<Word(")")>>)
  PROVE  ListText(text, f, S)
<1>1. PICK L, a, b, c, d :
        /\ L = Listed(S) /\ a = <<Word(f)>> /\ b = <<Word("IN"), Word("(")>>
        /\ c = <<Word(")")>> /\ d = b \o L
  OBVIOUS
<1>2. IsFiniteSet(S)
  BY FilterConstants, FS_Subset
<1>0. \E n : Lists(L, S, n)
  BY <1>1, <1>2, ListedIs
<1>3. PICK n \in Nat \ {0} :
        /\ L \in Seq({[str |-> s] : s \in S} \cup {Comma}) /\ Len(L) = 2 * n - 1
        /\ \A k \in 1..n : \E s \in S : L[2 * k - 1] = [str |-> s]
        /\ \A k \in 1..(n - 1) : L[2 * k] = Comma
        /\ \A s \in S : \E k \in 1..n : L[2 * k - 1] = [str |-> s]
  BY <1>0 DEF Lists
<1>4. PICK m : m = 2 * n - 1 /\ m \in Nat /\ m >= 1
  OBVIOUS
<1>5. {[str |-> s] : s \in S} \cup {Comma} \subseteq Tokens
  BY DEF Tokens, Comma, Operators
<1>6. L \in Seq(Tokens) /\ Len(L) = m
  <2>1. PICK T : T = {[str |-> s] : s \in S} \cup {Comma}
    OBVIOUS
  <2>2. L \in Seq(T) /\ T \subseteq Tokens
    BY <1>3, <1>5, <2>1
  <2>3. L \in Seq(Tokens)
    BY <2>2
  <2>. QED
    BY <1>3, <1>4, <2>3
<1>7. /\ a \in Seq(Tokens) /\ Len(a) = 1 /\ a[1] = Word(f)
      /\ b \in Seq(Tokens) /\ Len(b) = 2 /\ b[1] = Word("IN") /\ b[2] = Word("(")
      /\ c \in Seq(Tokens) /\ Len(c) = 1 /\ c[1] = Word(")")
  <2>1. Word(f) \in Tokens /\ Word("IN") \in Tokens /\ Word("(") \in Tokens /\ Word(")") \in Tokens
    BY DEF Tokens, Operators
  <2>. QED
    BY <1>1, <2>1
<1>8. /\ d \in Seq(Tokens) /\ Len(d) = 2 + m /\ d[1] = b[1] /\ d[2] = b[2]
      /\ \A i \in 1..m : d[2 + i] = L[i]
  BY <1>1, <1>4, <1>6, <1>7
<1>9. PICK e : e = d \o c
  OBVIOUS
<1>10. /\ e \in Seq(Tokens) /\ Len(e) = 3 + m /\ e[1] = d[1] /\ e[2] = d[2]
       /\ e[3 + m] = c[1] /\ \A i \in 1..m : e[2 + i] = d[2 + i]
  <2>1. /\ e \in Seq(Tokens) /\ Len(e) = 3 + m /\ e[3 + m] = c[1]
        /\ \A i \in 1..(2 + m) : e[i] = d[i]
    <3>1. Concatenates(e, d, c)
      BY <1>7, <1>8, <1>9, ConcatIs
    <3>2. Len(c) = 1 /\ 1 \in 1..1 /\ Len(d) = 2 + m
      BY <1>7, <1>8
    <3>3. e[(2 + m) + 1] = c[1]
      BY <3>1, <3>2 DEF Concatenates
    <3>4. (2 + m) + 1 = 3 + m
      BY <1>4
    <3>. QED
      BY <3>1, <3>2, <3>3, <3>4 DEF Concatenates
  <2>2. 1 \in 1..(2 + m) /\ 2 \in 1..(2 + m) /\ \A i \in 1..m : 2 + i \in 1..(2 + m)
    BY <1>4
  <2>. QED
    BY <2>1, <2>2
<1>11. PICK t : t = a \o e
  OBVIOUS
<1>12. /\ t \in Seq(Tokens) /\ Len(t) = 4 + m /\ t[1] = a[1] /\ t[2] = e[1] /\ t[3] = e[2]
       /\ t[4 + m] = e[3 + m] /\ \A i \in 1..m : t[3 + i] = e[2 + i]
  <2>1. /\ t \in Seq(Tokens) /\ Len(t) = 4 + m /\ t[1] = a[1]
        /\ \A i \in 1..(3 + m) : t[1 + i] = e[i]
    <3>1. Concatenates(t, a, e)
      BY <1>7, <1>10, <1>11, ConcatIs
    <3>2. Len(a) = 1 /\ 1 \in 1..1 /\ Len(e) = 3 + m /\ 1 + (3 + m) = 4 + m
      BY <1>4, <1>7, <1>10
    <3>. QED
      BY <3>1, <3>2 DEF Concatenates
  <2>2. t[1 + 1] = e[1] /\ t[1 + 2] = e[2] /\ t[1 + (3 + m)] = e[3 + m]
    <3>1. 1 \in 1..(3 + m) /\ 2 \in 1..(3 + m) /\ 3 + m \in 1..(3 + m)
      BY <1>4
    <3>. QED
      BY <2>1, <3>1
  <2>3. ASSUME NEW i \in 1..m PROVE t[3 + i] = e[2 + i]
    <3>1. 2 + i \in 1..(3 + m) /\ 1 + (2 + i) = 3 + i
      BY <1>4
    <3>. QED
      BY <2>1, <3>1
  <2>4. 1 + (3 + m) = 4 + m
    BY <1>4
  <2>. QED
    BY <2>1, <2>2, <2>3, <2>4
<1>13. text = t
  BY <1>1, <1>9, <1>11
<1>14. \A i \in 1..m : t[3 + i] = L[i]
  BY <1>8, <1>10, <1>12
<1>15. ASSUME NEW i \in 4..(Len(t) - 1) PROVE t[i] = Comma \/ \E s \in S : t[i] = [str |-> s]
  <2>1. PICK j : j = i - 3
    OBVIOUS
  <2>2. j \in 1..m /\ i = 3 + j
    BY <1>4, <1>12, <2>1
  <2>3. t[i] = L[j]
    BY <1>14, <2>2
  <2>4. L[j] \in {[str |-> s] : s \in S} \cup {Comma}
    BY <1>3, <1>4, <2>2
  <2>. QED
    BY <2>3, <2>4
<1>16. Alternates(t, S, n)
  <2>1. Len(t) = 2 * n + 3
    BY <1>4, <1>12
  <2>2. \A k \in 1..n : 2 * k - 1 \in 1..m
    BY <1>4
  <2>3. \A k \in 1..(n - 1) : 2 * k \in 1..m
    BY <1>4
  <2>4. \A k \in 1..n : t[3 + (2 * k - 1)] = L[2 * k - 1]
    BY <1>14, <2>2
  <2>5. \A k \in 1..(n - 1) : t[3 + 2 * k] = L[2 * k]
    BY <1>14, <2>3
  <2>6. ASSUME NEW k \in 1..n PROVE \E s \in S : t[3 + (2 * k - 1)] = [str |-> s]
    <3>1. \E s \in S : L[2 * k - 1] = [str |-> s]
      BY <1>3
    <3>2. t[3 + (2 * k - 1)] = L[2 * k - 1]
      BY <2>4
    <3>. QED
      BY <3>1, <3>2, Zenon
  <2>7. \A k \in 1..(n - 1) : t[3 + 2 * k] = Comma
    BY <1>3, <2>5
  <2>8. \A s \in S : \E k \in 1..n : t[3 + (2 * k - 1)] = [str |-> s]
    BY <1>3, <2>4
  <2>. QED
    BY <2>1, <2>6, <2>7, <2>8 DEF Alternates
<1>17. /\ t[1] = Word(f) /\ t[2] = Word("IN") /\ t[3] = Word("(") /\ t[Len(t)] = Word(")")
       /\ Len(t) >= 5
  <2>1. t[1] = Word(f) /\ t[2] = Word("IN") /\ t[3] = Word("(")
    BY <1>7, <1>8, <1>10, <1>12
  <2>2. t[4 + m] = Word(")") /\ Len(t) = 4 + m
    BY <1>7, <1>10, <1>12
  <2>. QED
    BY <1>4, <2>1, <2>2
<1>18. ListText(t, f, S)
  BY <1>12, <1>15, <1>16, <1>17, Zenon DEF ListText
<1>. QED
  BY <1>13, <1>18, Zenon

LEMMA OccurrencesOfList ==
  ASSUME NEW f \in Fields, NEW S \in SUBSET Texts, NEW text, ListText(text, f, S)
  PROVE  /\ Occurrences(text, "IN") = {2}
         /\ Occurrences(text, "(") = {3}
         /\ Occurrences(text, ")") = {Len(text)}
         /\ Occurrences(text, "AND") = {} /\ Occurrences(text, "OR") = {}
<1>1. PICK n : n = Len(text) /\ n \in Nat /\ n >= 5 /\ DOMAIN text = 1..n
  BY DEF ListText
<1>2. ASSUME NEW w \in Operators, w # ",", NEW i \in 4..(n - 1) PROVE text[i] # Word(w)
  <2>1. Comma # Word(w)
    BY <1>2, WordsAre DEF Comma
  <2>2. \A s : [str |-> s] # Word(w)
    BY StringsAre
  <2>3. text[i] = Comma \/ \E s \in S : text[i] = [str |-> s]
    BY <1>1 DEF ListText
  <2>. QED
    BY <2>1, <2>2, <2>3, Zenon
<1>3. \A w \in Operators : Word(f) # Word(w)
  BY FilterConstants, WordsAre
<1>4. ASSUME NEW w \in Operators, w # ","
      PROVE  Occurrences(text, w) = {i \in {2, 3, n} : text[i] = Word(w)}
  <2>1. 1..n = {1, 2, 3, n} \cup 4..(n - 1)
    BY <1>1
  <2>2. text[1] # Word(w)
    BY <1>3 DEF ListText
  <2>3. \A i \in 4..(n - 1) : text[i] # Word(w)
    BY <1>2, <1>4
  <2>. QED
    BY <1>1, <2>1, <2>2, <2>3 DEF Occurrences
<1>5. text[2] = Word("IN") /\ text[3] = Word("(") /\ text[n] = Word(")")
  BY <1>1 DEF ListText
<1>6. \A w \in Operators \ {","} :
        Occurrences(text, w) = {i \in {2, 3, n} :
                                  (IF i = 2 THEN "IN" ELSE IF i = 3 THEN "(" ELSE ")") = w}
  <2>. SUFFICES ASSUME NEW w \in Operators \ {","}
                PROVE  Occurrences(text, w)
                         = {i \in {2, 3, n} :
                              (IF i = 2 THEN "IN" ELSE IF i = 3 THEN "(" ELSE ")") = w}
    OBVIOUS
  <2>1. \A i \in {2, 3, n} :
          text[i] = Word(w) <=> (IF i = 2 THEN "IN" ELSE IF i = 3 THEN "(" ELSE ")") = w
    BY <1>1, <1>5, WordsAre
  <2>. QED
    BY <1>4, <2>1
<1>7. /\ {i \in {2, 3, n} : (IF i = 2 THEN "IN" ELSE IF i = 3 THEN "(" ELSE ")") = "IN"} = {2}
      /\ {i \in {2, 3, n} : (IF i = 2 THEN "IN" ELSE IF i = 3 THEN "(" ELSE ")") = "("} = {3}
      /\ {i \in {2, 3, n} : (IF i = 2 THEN "IN" ELSE IF i = 3 THEN "(" ELSE ")") = ")"} = {n}
      /\ {i \in {2, 3, n} : (IF i = 2 THEN "IN" ELSE IF i = 3 THEN "(" ELSE ")") = "AND"} = {}
      /\ {i \in {2, 3, n} : (IF i = 2 THEN "IN" ELSE IF i = 3 THEN "(" ELSE ")") = "OR"} = {}
  BY <1>1
<1>8. {"IN", "(", ")", "AND", "OR"} \subseteq Operators \ {","}
  BY DEF Operators
<1>. QED
  BY <1>1, <1>6, <1>7, <1>8

\* The parts of a list between its commas are its strings.
LEMMA ListParts ==
  ASSUME NEW S \in SUBSET Texts, NEW text \in Seq(Tokens), NEW n, Alternates(text, S, n),
         NEW inner \in Seq(Tokens), Len(inner) = 2 * n - 1,
         \A i \in 1..(2 * n - 1) : inner[i] = text[3 + i]
  PROVE  Parts(inner, Occurrences(inner, ",")) = {<<[str |-> s]>> : s \in S}
<1>1. n \in Nat \ {0}
  BY DEF Alternates
<1>2. ASSUME NEW k \in 1..n PROVE \E s \in S : inner[2 * k - 1] = [str |-> s]
  <2>1. 2 * k - 1 \in 1..(2 * n - 1)
    BY <1>1
  <2>2. inner[2 * k - 1] = text[3 + (2 * k - 1)]
    BY <2>1
  <2>3. \E s \in S : text[3 + (2 * k - 1)] = [str |-> s]
    BY DEF Alternates
  <2>. QED
    BY <2>2, <2>3, Zenon
<1>3. ASSUME NEW k \in 1..(n - 1) PROVE inner[2 * k] = Comma
  <2>1. 2 * k \in 1..(2 * n - 1)
    BY <1>1
  <2>2. inner[2 * k] = text[3 + 2 * k]
    BY <2>1
  <2>. QED
    BY <2>2 DEF Alternates
<1>4. ASSUME NEW s \in S PROVE \E k \in 1..n : inner[2 * k - 1] = [str |-> s]
  <2>1. PICK k \in 1..n : text[3 + (2 * k - 1)] = [str |-> s]
    BY DEF Alternates
  <2>2. 2 * k - 1 \in 1..(2 * n - 1)
    BY <1>1
  <2>. QED
    BY <2>1, <2>2
<1>5. PICK cuts, ends : cuts = Occurrences(inner, ",") /\ ends = cuts \cup {Len(inner) + 1}
  OBVIOUS
<1>6. cuts = {2 * k : k \in 1..(n - 1)}
  <2>1. ASSUME NEW i \in cuts PROVE \E k \in 1..(n - 1) : i = 2 * k
    <3>1. i \in 1..(2 * n - 1) /\ inner[i] = Comma
      <4>1. i \in DOMAIN inner /\ inner[i] = Word(",")
        BY <1>5 DEF Occurrences
      <4>2. DOMAIN inner = 1..(2 * n - 1)
        BY <1>1
      <4>. QED
        BY <4>1, <4>2 DEF Comma
    <3>2. ASSUME NEW k \in 1..n PROVE i # 2 * k - 1
      <4>1. PICK s \in S : inner[2 * k - 1] = [str |-> s]
        BY <1>2
      <4>2. [str |-> s] # Comma
        BY StringsAre DEF Comma
      <4>. QED
        BY <3>1, <4>1, <4>2
    <3>3. PICK k : k \in 1..n /\ (i = 2 * k \/ i = 2 * k - 1)
      <4>1. (i + 1) \div 2 \in 1..n
        BY <1>1, <3>1
      <4>2. i = 2 * ((i + 1) \div 2) \/ i = 2 * ((i + 1) \div 2) - 1
        BY <3>1
      <4>. QED
        BY <4>1, <4>2
    <3>4. i # 2 * k - 1
      BY <3>2, <3>3
    <3>5. i = 2 * k /\ k \in 1..(n - 1)
      BY <1>1, <3>1, <3>3, <3>4
    <3>. QED
      BY <3>5
  <2>2. ASSUME NEW k \in 1..(n - 1) PROVE 2 * k \in cuts
    <3>1. 2 * k \in DOMAIN inner
      BY <1>1
    <3>. QED
      BY <1>3, <1>5, <3>1 DEF Occurrences, Comma
  <2>. QED
    BY <2>1, <2>2
<1>7. ends = {2 * k : k \in 1..n}
  <2>1. Len(inner) + 1 = 2 * n
    BY <1>1
  <2>2. 1..n = 1..(n - 1) \cup {n}
    BY <1>1
  <2>. QED
    BY <1>5, <1>6, <2>1, <2>2
<1>8. cuts \cup {0} = {2 * (k - 1) : k \in 1..n}
  <2>1. ASSUME NEW k \in 1..n PROVE 2 * (k - 1) \in cuts \cup {0}
    <3>1. k = 1 \/ k - 1 \in 1..(n - 1)
      BY <1>1
    <3>. QED
      BY <1>6, <3>1
  <2>2. ASSUME NEW k \in 1..(n - 1) PROVE k + 1 \in 1..n /\ 2 * k = 2 * ((k + 1) - 1)
    BY <1>1
  <2>3. 1 \in 1..n /\ 2 * (1 - 1) = 0
    BY <1>1
  <2>. QED
    BY <1>6, <2>1, <2>2, <2>3
<1>9. ASSUME NEW k \in 1..n PROVE Piece(inner, ends, 2 * (k - 1)) = <<inner[2 * k - 1]>>
  <2>1. PICK a, x, t : a = 2 * (k - 1) /\ x = inner[2 * k - 1] /\ t = <<x>>
    OBVIOUS
  <2>2. a \in Nat /\ 2 * k - 1 = a + 1 /\ 2 * k = a + 2 /\ a + 1 \in 1..(2 * n - 1)
    BY <1>1, <2>1
  <2>3. x \in Tokens
    BY <2>1, <2>2
  <2>4. t \in Seq(Tokens) /\ Len(t) = 1 /\ t[1] = x
    BY <2>1, <2>3
  <2>5. Holds(inner, a, t)
    <3>1. \A i \in 1..Len(t) : i = 1
      BY <2>4
    <3>2. inner[a + 1] = x
      BY <2>1, <2>2
    <3>3. \A i \in 1..Len(t) : inner[a + i] = t[i]
      BY <2>4, <3>1, <3>2
    <3>. QED
      BY <2>2, <2>4, <3>3 DEF Holds
  <2>6. ends \in SUBSET Int
    BY <1>1, <1>7
  <2>7. a + Len(t) + 1 \in ends
    BY <1>7, <2>2, <2>4
  <2>8. ASSUME NEW j \in ends, j > a PROVE a + Len(t) + 1 <= j
    <3>1. PICK l \in 1..n : j = 2 * l
      BY <1>7
    <3>2. l > k - 1
      BY <2>1, <2>8, <3>1
    <3>. QED
      BY <2>2, <2>4, <3>1, <3>2
  <2>9. Piece(inner, ends, a) = t
    BY <2>5, <2>6, <2>7, <2>8, PieceBetween
  <2>. QED
    BY <2>1, <2>9
<1>10. Parts(inner, cuts) = {<<inner[2 * k - 1]>> : k \in 1..n}
  <2>1. Parts(inner, cuts) = {Piece(inner, ends, i) : i \in cuts \cup {0}}
    BY <1>5, PartsAre
  <2>2. {Piece(inner, ends, i) : i \in cuts \cup {0}}
          = {Piece(inner, ends, 2 * (k - 1)) : k \in 1..n}
    BY <1>8
  <2>. QED
    BY <1>9, <2>1, <2>2
<1>11. {<<inner[2 * k - 1]>> : k \in 1..n} = {<<[str |-> s]>> : s \in S}
  <2>1. ASSUME NEW k \in 1..n PROVE <<inner[2 * k - 1]>> \in {<<[str |-> s]>> : s \in S}
    <3>1. PICK s \in S : inner[2 * k - 1] = [str |-> s]
      BY <1>2
    <3>. QED
      BY <3>1, Zenon
  <2>2. ASSUME NEW s \in S PROVE <<[str |-> s]>> \in {<<inner[2 * k - 1]>> : k \in 1..n}
    <3>1. PICK k \in 1..n : inner[2 * k - 1] = [str |-> s]
      BY <1>4
    <3>. QED
      BY <3>1, Zenon
  <2>3. ASSUME NEW u \in {<<inner[2 * k - 1]>> : k \in 1..n} PROVE u \in {<<[str |-> s]>> : s \in S}
    BY <2>1, Zenon
  <2>4. ASSUME NEW u \in {<<[str |-> s]>> : s \in S} PROVE u \in {<<inner[2 * k - 1]>> : k \in 1..n}
    BY <2>2, Zenon
  <2>. QED
    BY <2>3, <2>4, Zenon
<1>. QED
  BY <1>5, <1>10, <1>11

LEMMA ListParse ==
  ASSUME NEW f \in Fields, NEW S \in SUBSET Texts, \A s \in S : Items(s) = {s},
         NEW text, ListText(text, f, S)
  PROVE  ParseCondition(text) = [op |-> "in", field |-> f, values |-> S]
<1>1. PICK n : n = Len(text) /\ n \in Nat /\ n >= 5
  BY DEF ListText
<1>2. First(Inner(text, "IN")) = 2
  <2>1. Inner(text, "IN") = {2}
    BY <1>1, OccurrencesOfList DEF Inner
  <2>. QED
    BY <2>1, FirstOf
<1>3. PICK rest : rest = After(text, 2)
  OBVIOUS
<1>4. /\ Len(rest) = n - 2 /\ DOMAIN rest = 1..(n - 2)
      /\ \A i \in 1..(n - 2) : rest[i] = text[2 + i]
  BY <1>1, <1>3 DEF After, ListText
<1>5. rest[1] = text[3] /\ rest[n - 2] = text[n] /\ 1 \in 1..(n - 2)
  <2>1. 1 \in 1..(n - 2) /\ n - 2 \in 1..(n - 2) /\ 2 + 1 = 3 /\ 2 + (n - 2) = n
    BY <1>1
  <2>2. rest[1] = text[2 + 1] /\ rest[n - 2] = text[2 + (n - 2)]
    BY <1>4, <2>1
  <2>. QED
    BY <2>1, <2>2
<1>6. ListAfter(text, 2)
  <2>1. rest # <<>>
    BY <1>1, <1>4
  <2>2. Last(rest) = rest[n - 2]
    BY <1>4 DEF Last
  <2>. QED
    BY <1>1, <1>3, <1>5, <2>1, <2>2 DEF ListAfter, ListText
<1>7. ParseCondition(text) = InCondition(text, 2)
  BY <1>2, <1>6 DEF ParseCondition
<1>8. Field(Before(text, 2)) = f
  <2>1. PICK u : u = Before(text, 2)
    OBVIOUS
  <2>2. Len(u) = 1 /\ u[1] = Word(f)
    BY <1>1, <2>1 DEF Before, ListText
  <2>. QED
    BY <2>1, <2>2, WordsAre DEF Field
<1>9. PICK m : Alternates(text, S, m)
  BY DEF ListText
<1>10. m \in Nat \ {0} /\ n = 2 * m + 3
  BY <1>1, <1>9 DEF Alternates
<1>11. PICK inner : inner = Tail(Front(rest))
  OBVIOUS
<1>12. /\ inner \in Seq(Tokens) /\ Len(inner) = 2 * m - 1
       /\ \A i \in 1..(2 * m - 1) : inner[i] = text[3 + i]
  <2>1. rest \in Seq(Tokens)
    BY <1>1, <1>3 DEF After, ListText
  <2>2. PICK u : u = Front(rest)
    OBVIOUS
  <2>3. u \in Seq(Tokens) /\ Len(u) = n - 3 /\ \A i \in 1..(n - 3) : u[i] = rest[i]
    BY <1>1, <1>4, <2>1, <2>2 DEF Front
  <2>4. inner \in Seq(Tokens) /\ Len(inner) = n - 4 /\ \A i \in 1..(n - 4) : inner[i] = u[i + 1]
    <3>1. u # <<>>
      BY <1>1, <2>3
    <3>. QED
      BY <1>1, <1>11, <2>2, <2>3, <3>1
  <2>5. n - 4 = 2 * m - 1 /\ \A i \in 1..(n - 4) : i + 1 \in 1..(n - 3) /\ i + 1 \in 1..(n - 2) /\ 2 + (i + 1) = 3 + i
    BY <1>10
  <2>6. ASSUME NEW i \in 1..(n - 4) PROVE inner[i] = text[3 + i]
    <3>1. inner[i] = u[i + 1] /\ u[i + 1] = rest[i + 1] /\ rest[i + 1] = text[2 + (i + 1)]
      BY <1>4, <2>3, <2>4, <2>5
    <3>2. 2 + (i + 1) = 3 + i
      BY <2>5
    <3>. QED
      BY <3>1, <3>2
  <2>. QED
    BY <2>4, <2>5, <2>6
<1>13. Parts(inner, Occurrences(inner, ",")) = {<<[str |-> s]>> : s \in S}
  <2>1. text \in Seq(Tokens)
    BY DEF ListText
  <2>. QED
    BY <1>9, <1>12, <2>1, ListParts
<1>14. \A s \in S : ItemValues(<<[str |-> s]>>) = {s}
  <2>. SUFFICES ASSUME NEW s \in S PROVE ItemValues(<<[str |-> s]>>) = {s}
    OBVIOUS
  <2>1. PICK t, u : t = [str |-> s] /\ u = <<t>>
    OBVIOUS
  <2>2. u # <<>> /\ Len(u) = 1 /\ u[1] = t
    BY <2>1
  <2>3. IsString(t) /\ t.str = s
    BY <2>1, StringsAre
  <2>4. ItemValues(u) = Items(s)
    BY <2>2, <2>3 DEF ItemValues
  <2>. QED
    BY <2>1, <2>4
<1>15. UNION {ItemValues(item) : item \in {<<[str |-> s]>> : s \in S}} = S
  <2>1. PICK M : M = {<<[str |-> s]>> : s \in S}
    OBVIOUS
  <2>2. ASSUME NEW s \in S PROVE \E item \in M : s \in ItemValues(item)
    <3>1. <<[str |-> s]>> \in M /\ ItemValues(<<[str |-> s]>>) = {s}
      BY <1>14, <2>1, Zenon
    <3>2. s \in ItemValues(<<[str |-> s]>>)
      BY <3>1, Zenon
    <3>. QED
      BY <3>1, <3>2, Zenon
  <2>3. ASSUME NEW item \in M, NEW x \in ItemValues(item) PROVE x \in S
    <3>1. PICK s \in S : item = <<[str |-> s]>>
      BY <2>1, Zenon
    <3>2. ItemValues(item) = {s}
      BY <1>14, <3>1, Zenon
    <3>. QED
      BY <3>2
  <2>4. UNION {ItemValues(item) : item \in M} = S
    BY <2>2, <2>3
  <2>. QED
    BY <2>1, <2>4
<1>. QED
  BY <1>3, <1>7, <1>8, <1>11, <1>13, <1>15 DEF InCondition

\* A text that holds one condition, no AND and no OR, and is read as c.
ReadsAs(text, c) ==
  /\ text \in Seq(Tokens) /\ Len(text) >= 3
  /\ ParseCondition(text) = c
  /\ Occurrences(text, "AND") = {} /\ Occurrences(text, "OR") = {}

\* It has no parentheses but those of a list.
Closes(text) ==
  \/ \A i \in 1..Len(text) : Opens(text[i]) = 0
  \/ /\ Len(text) # 3
     /\ \A i \in 1..Len(text) :
          Opens(text[i]) = IF i = 3 THEN 1 ELSE IF i = Len(text) THEN -1 ELSE 0

LEMMA OpensAre ==
  /\ \A w : Opens(Word(w)) = IF w = "(" THEN 1 ELSE IF w = ")" THEN -1 ELSE 0
  /\ \A s : Opens([str |-> s]) = Parens(s)
  /\ \A n : Opens([num |-> n, point |-> FALSE]) = 0
  /\ \A t \in Tokens : Opens(t) \in Int
<1>1. \A w : Opens(Word(w)) = IF w = "(" THEN 1 ELSE IF w = ")" THEN -1 ELSE 0
  BY WordsAre DEF Opens
<1>2. \A s : Opens([str |-> s]) = Parens(s)
  <2>. SUFFICES ASSUME NEW s PROVE Opens([str |-> s]) = Parens(s)
    OBVIOUS
  <2>1. PICK t : t = [str |-> s]
    OBVIOUS
  <2>. QED
    BY <2>1, StringsAre DEF Opens
<1>3. \A n : Opens([num |-> n, point |-> FALSE]) = 0
  <2>. SUFFICES ASSUME NEW n PROVE Opens([num |-> n, point |-> FALSE]) = 0
    OBVIOUS
  <2>1. PICK t : t = [num |-> n, point |-> FALSE]
    OBVIOUS
  <2>2. ~IsString(t) /\ t # Word("(") /\ t # Word(")")
    BY <2>1, NumbersAre
  <2>. QED
    BY <2>1, <2>2 DEF Opens
<1>4. ASSUME NEW t \in Tokens PROVE Opens(t) \in Int
  <2>1. CASE \E w : t = Word(w)
    BY <1>1, <2>1
  <2>2. CASE \E s \in Texts : t = [str |-> s]
    BY <1>2, <2>2, FilterConstants
  <2>3. CASE \E n : t = [num |-> n, point |-> FALSE]
    BY <1>3, <2>3
  <2>. QED
    BY <2>1, <2>2, <2>3 DEF Tokens
<1>. QED
  BY <1>1, <1>2, <1>3, <1>4

LEMMA ThreeReads ==
  ASSUME NEW f \in Fields, NEW o \in {"=", ">", "<", "CONTAINS"}, NEW t \in Tokens,
         ~IsWord(t), NEW text, ThreeTokens(text, f, o, t),
         NEW c, ParseCondition(text) = c
  PROVE  ReadsAs(text, c) /\ (Opens(t) = 0 => Closes(text))
<1>1. o \in Operators
  BY DEF Operators
<1>2. \A w \in Operators : Occurrences(text, w) = IF w = o THEN {2} ELSE {}
  BY <1>1, OccurrencesOfThree
<1>3. "AND" \in Operators /\ "OR" \in Operators /\ "AND" # o /\ "OR" # o
  BY DEF Operators
<1>4. Occurrences(text, "AND") = {} /\ Occurrences(text, "OR") = {}
  BY <1>2, <1>3
<1>5. Opens(text[1]) = 0 /\ Opens(text[2]) = 0
  <2>1. f # "(" /\ f # ")"
    BY FilterConstants DEF Operators
  <2>. QED
    BY <2>1, OpensAre DEF ThreeTokens
<1>6. Opens(t) = 0 => Closes(text)
  BY <1>5 DEF Closes, ThreeTokens
<1>. QED
  BY <1>4, <1>6 DEF ReadsAs, ThreeTokens

LEMMA ListReads ==
  ASSUME NEW f \in Fields, NEW S \in SUBSET Texts, NEW text, ListText(text, f, S),
         NEW c, ParseCondition(text) = c
  PROVE  ReadsAs(text, c) /\ ((\A s \in S : Parens(s) = 0) => Closes(text))
<1>1. text \in Seq(Tokens) /\ Len(text) >= 3
  BY DEF ListText
<1>2. Occurrences(text, "AND") = {} /\ Occurrences(text, "OR") = {}
  BY OccurrencesOfList
<1>3. ASSUME \A s \in S : Parens(s) = 0 PROVE Closes(text)
  <2>1. PICK n : n = Len(text) /\ n \in Nat /\ n >= 5
    BY DEF ListText
  <2>2. f # "(" /\ f # ")"
    BY FilterConstants DEF Operators
  <2>3. /\ Opens(text[1]) = 0 /\ Opens(text[2]) = 0 /\ Opens(text[3]) = 1
        /\ Opens(text[n]) = -1
    BY <2>1, <2>2, OpensAre DEF ListText
  <2>4. ASSUME NEW i \in 4..(n - 1) PROVE Opens(text[i]) = 0
    <3>1. Opens(Comma) = 0
      BY OpensAre DEF Comma
    <3>2. \A s \in S : Opens([str |-> s]) = 0
      BY <1>3, OpensAre
    <3>3. text[i] = Comma \/ \E s \in S : text[i] = [str |-> s]
      BY <2>1 DEF ListText
    <3>4. CASE text[i] = Comma
      BY <3>1, <3>4, Zenon
    <3>5. ASSUME NEW s \in S, text[i] = [str |-> s] PROVE Opens(text[i]) = 0
      BY <3>2, <3>5, Zenon
    <3>. QED
      BY <3>3, <3>4, <3>5, Zenon
  <2>5. \A i \in 1..n : i = 1 \/ i = 2 \/ i = 3 \/ i = n \/ i \in 4..(n - 1)
    BY <2>1
  <2>6. \A i \in 1..n : Opens(text[i]) = IF i = 3 THEN 1 ELSE IF i = n THEN -1 ELSE 0
    BY <2>1, <2>3, <2>4, <2>5
  <2>. QED
    BY <2>1, <2>6 DEF Closes
<1>. QED
  BY <1>1, <1>2, <1>3 DEF ReadsAs

\* What a plain condition is written as is read as that condition.
LEMMA WrittenReads ==
  ASSUME NEW c \in PlainConditions
  PROVE  ReadsAs(Written(c), c) /\ (Balanced(c) => Closes(Written(c)))
<1>1. CASE c \in [op : {"equals"}, field : Fields, value : [str : Plain(Texts)]]
  <2>1. PICK f, s : f = c.field /\ s = c.value.str
    OBVIOUS
  <2>2. /\ f \in Fields /\ s \in Texts /\ ~Mentions(s) /\ c.op = "equals"
        /\ c = [op |-> "equals", field |-> f, value |-> [str |-> s]]
        /\ c.value = [str |-> s]
    BY <1>1, <2>1 DEF Plain
  <2>3. PICK t : t = [str |-> s]
    OBVIOUS
  <2>4. t \in Tokens
    BY <2>2, <2>3 DEF Tokens
  <2>5. PICK text : text = <<Word(f)>> \o <<Word("="), t>>
    OBVIOUS
  <2>6. "=" \in Operators
    BY DEF Operators
  <2>7. ThreeTokens(text, f, "=", t)
    BY <2>2, <2>4, <2>5, <2>6, ThreeTokensAre
  <2>8. IsString(t) /\ ~IsWord(t) /\ t.str = s
    BY <2>3, StringsAre
  <2>9. ParseCondition(text) = [op |-> "equals", field |-> f, value |-> t]
    BY <2>2, <2>4, <2>6, <2>7, <2>8, ThreeParse
  <2>10. ReadsAs(text, c) /\ (Opens(t) = 0 => Closes(text))
    BY <2>2, <2>3, <2>4, <2>7, <2>8, <2>9, ThreeReads
  <2>11. Written(c) = text
    BY <2>1, <2>2, <2>3, <2>5 DEF Written
  <2>12. Balanced(c) => Opens(t) = 0
    BY <2>1, <2>2, <2>3, OpensAre DEF Balanced, Quoted
  <2>. QED
    BY <2>10, <2>11, <2>12
<1>2. CASE c \in [op : {"more", "less"}, field : Fields, value : Quantities]
  <2>1. PICK f, n, o : f = c.field /\ n = c.value /\ o = IF c.op = "more" THEN ">" ELSE "<"
    OBVIOUS
  <2>2. /\ f \in Fields /\ n \in Quantities /\ c.op \in {"more", "less"}
        /\ c = [op |-> c.op, field |-> f, value |-> n]
    BY <1>2, <2>1
  <2>3. PICK t : t = [num |-> n, point |-> FALSE]
    OBVIOUS
  <2>4. t \in Tokens
    BY <2>2, <2>3 DEF Tokens
  <2>5. PICK text : text = <<Word(f)>> \o <<Word(o), t>>
    OBVIOUS
  <2>6. o \in Operators /\ o \in {">", "<"}
    BY <2>1 DEF Operators
  <2>7. ThreeTokens(text, f, o, t)
    BY <2>2, <2>4, <2>5, <2>6, ThreeTokensAre
  <2>8. IsNumber(t) /\ ~IsWord(t) /\ ~IsString(t) /\ t.num = n
    BY <2>3, NumbersAre
  <2>9. ParseCondition(text) = [op |-> c.op, field |-> f, value |-> n]
    <3>1. CASE c.op = "more"
      BY <2>1, <2>2, <2>4, <2>6, <2>7, <2>8, <3>1, ThreeParse
    <3>2. CASE c.op = "less"
      BY <2>1, <2>2, <2>4, <2>6, <2>7, <2>8, <3>2, ThreeParse
    <3>. QED
      BY <2>2, <3>1, <3>2
  <2>10. ReadsAs(text, c) /\ (Opens(t) = 0 => Closes(text))
    BY <2>2, <2>4, <2>6, <2>7, <2>8, <2>9, ThreeReads
  <2>11. Written(c) = text
    BY <2>1, <2>2, <2>3, <2>5 DEF Written
  <2>12. Opens(t) = 0
    BY <2>3, OpensAre
  <2>. QED
    BY <2>10, <2>11, <2>12
<1>3. CASE c \in [op : {"in"}, field : Fields, values : (SUBSET Whole(Texts)) \ {{}}]
  <2>1. PICK f, S : f = c.field /\ S = c.values
    OBVIOUS
  <2>2. /\ f \in Fields /\ S \in SUBSET Texts /\ S # {} /\ c.op = "in"
        /\ c = [op |-> "in", field |-> f, values |-> S] /\ \A s \in S : Items(s) = {s}
    BY <1>3, <2>1 DEF Whole
  <2>3. PICK text :
          text = <<Word(f)>> \o (<<Word("IN"), Word("(")>> \o Listed(S) \o <<Word(")")>>)
    OBVIOUS
  <2>4. ListText(text, f, S)
    BY <2>2, <2>3, ListTextIs
  <2>5. ParseCondition(text) = c
    BY <2>2, <2>4, ListParse
  <2>6. ReadsAs(text, c) /\ ((\A s \in S : Parens(s) = 0) => Closes(text))
    BY <2>2, <2>4, <2>5, ListReads
  <2>7. Written(c) = text
    BY <2>1, <2>2, <2>3 DEF Written
  <2>8. Balanced(c) => \A s \in S : Parens(s) = 0
    BY <2>1, <2>2 DEF Balanced, Quoted
  <2>. QED
    BY <2>6, <2>7, <2>8
<1>4. CASE c \in [op : {"contains"}, field : Fields, value : Texts]
  <2>1. PICK f, s : f = c.field /\ s = c.value
    OBVIOUS
  <2>2. /\ f \in Fields /\ s \in Texts /\ c.op = "contains"
        /\ c = [op |-> "contains", field |-> f, value |-> s]
    BY <1>4, <2>1
  <2>3. PICK t : t = [str |-> s]
    OBVIOUS
  <2>4. t \in Tokens
    BY <2>2, <2>3 DEF Tokens
  <2>5. PICK text : text = <<Word(f)>> \o <<Word("CONTAINS"), t>>
    OBVIOUS
  <2>6. "CONTAINS" \in Operators
    BY DEF Operators
  <2>7. ThreeTokens(text, f, "CONTAINS", t)
    BY <2>2, <2>4, <2>5, <2>6, ThreeTokensAre
  <2>8. IsString(t) /\ ~IsWord(t) /\ t.str = s
    BY <2>3, StringsAre
  <2>9. ParseCondition(text) = [op |-> "contains", field |-> f, value |-> s]
    BY <2>2, <2>4, <2>6, <2>7, <2>8, ThreeParse
  <2>10. ReadsAs(text, c) /\ (Opens(t) = 0 => Closes(text))
    BY <2>2, <2>4, <2>7, <2>8, <2>9, ThreeReads
  <2>11. Written(c) = text
    BY <2>1, <2>2, <2>3, <2>5 DEF Written
  <2>12. Balanced(c) => Opens(t) = 0
    BY <2>1, <2>2, <2>3, OpensAre DEF Balanced, Quoted
  <2>. QED
    BY <2>10, <2>11, <2>12
<1>. QED
  BY <1>1, <1>2, <1>3, <1>4 DEF PlainConditions

LEMMA EvaluatesAsSaid ==
  ASSUME NEW c \in PlainConditions, NEW meta
  PROVE  EvaluateCondition(c, meta) <=> Says(c, meta)
<1>1. CASE c.op \in {"equals", "more", "less"}
  BY <1>1 DEF EvaluateCondition, Says
<1>2. CASE c.op = "in"
  <2>. PICK v : v = meta[c.field]
    OBVIOUS
  <2>1. (\E t \in Strings(v) : t \in c.values) <=> IsString(v) /\ v.str \in c.values
    BY DEF Strings
  <2>. QED
    BY <1>2, <2>1 DEF EvaluateCondition, Says
<1>3. CASE c.op = "contains"
  <2>. PICK v : v = meta[c.field]
    OBVIOUS
  <2>1. (\E t \in Strings(v) : Within(c.value, t)) <=> IsString(v) /\ Within(c.value, v.str)
    BY DEF Strings
  <2>. QED
    BY <1>3, <2>1 DEF EvaluateCondition, Says
<1>4. c.op \in {"equals", "more", "less", "in", "contains"}
  BY DEF PlainConditions
<1>. QED
  BY <1>1, <1>2, <1>3, <1>4

-----------------------------------------------------------------------------
(* A filter of one condition.                                              *)

LEMMA SplitNowhere ==
  ASSUME NEW text \in Seq(Tokens), Len(text) >= 1, NEW w, Occurrences(text, w) = {}
  PROVE  Split(text, w) = {text}
<1>1. PICK n : n = Len(text) /\ n \in Nat /\ n >= 1
  OBVIOUS
<1>2. PICK cuts : cuts = {i \in Inner(text, w) : Depth(text, i) = 0}
  OBVIOUS
<1>3. cuts = {}
  BY <1>2 DEF Inner
<1>4. PICK ends : ends = cuts \cup {n + 1}
  OBVIOUS
<1>5. PICK last, a, b, s :
        /\ last = {j \in ends : j > 0} /\ a = 0 + 1 /\ b = First(last) - 1
        /\ s = SubSeq(text, a, b)
  OBVIOUS
<1>6. First(last) = n + 1
  <2>1. PICK m : m = n + 1
    OBVIOUS
  <2>2. last = {m} /\ m \in Nat
    BY <1>1, <1>3, <1>4, <1>5, <2>1
  <2>3. First({m}) = m
    BY <2>2, FirstOf
  <2>. QED
    BY <2>1, <2>2, <2>3
<1>7. s = text
  <2>1. a = 1 /\ b = n
    BY <1>1, <1>5, <1>6
  <2>2. SubSeq(text, 1, n) = text
    BY <1>1
  <2>. QED
    BY <1>5, <2>1, <2>2, Zenon
<1>8. Split(text, w) = {s}
  BY <1>1, <1>2, <1>3, <1>4, <1>5 DEF Split, Parts
<1>. QED
  BY <1>7, <1>8

LEMMA ParseOne ==
  ASSUME NEW c, NEW text, ReadsAs(text, c)
  PROVE  Parse(text) = {{c}}
<1>1. Split(text, "AND") = {text} /\ Split(text, "OR") = {text}
  BY SplitNowhere DEF ReadsAs
<1>. QED
  BY <1>1 DEF Parse, ReadsAs

LEMMA FilterOfOne ==
  ASSUME NEW c \in PlainConditions, NEW meta
  PROVE  Evaluate(Parse(Written(c)), meta) <=> Says(c, meta)
<1>1. Parse(Written(c)) = {{c}}
  BY WrittenReads, ParseOne
<1>2. Evaluate({{c}}, meta) <=> EvaluateCondition(c, meta)
  BY DEF Evaluate
<1>. QED
  BY <1>1, <1>2, EvaluatesAsSaid

-----------------------------------------------------------------------------
(* A search with a filter.                                                 *)

\* The hits after i entries of the index's answer.
Pushes(T, found, K) ==
  /\ T \in [0..Len(found) -> Seq(Entries)] /\ T[0] = <<>>
  /\ \A i \in 1..Len(found) :
       T[i] = IF i \in K THEN Append(T[i - 1], found[i]) ELSE T[i - 1]

Pushed(hits, found, K) == \E T : Pushes(T, found, K) /\ hits = T[Len(found)]

LEMMA SearchPushes ==
  ASSUME NEW metric, NEW q, NEW k, NEW text, NEW found \in Seq(Entries),
         found = IndexSearch(metric, q, k),
         NEW K, K = {i \in DOMAIN found : Passes(found[i].doc, Parse(text))}
  PROVE  Pushed(Search(metric, q, k, text), found, K)
<1>. DEFINE n == Len(found)
            H == Seq(Entries)
            G == [p \in (1..n) \X H |->
                    IF p[1] \in K THEN Append(p[2], found[p[1]]) ELSE p[2]]
            Lit(h) == h = [S \in SUBSET DOMAIN found |->
                        IF S = {} THEN <<>>
                        ELSE IF Passes(found[Max(S)].doc, Parse(text))
                             THEN Append(h[S \ {Max(S)}], found[Max(S)])
                             ELSE h[S \ {Max(S)}]]
<1>1. n \in Nat /\ DOMAIN found = 1..n /\ \A i \in 1..n : found[i] \in Entries
  OBVIOUS
<1>2. ASSUME NEW i \in 1..n, NEW x \in H
      PROVE  /\ G[<<i, x>>] = IF i \in K THEN Append(x, found[i]) ELSE x
             /\ G[<<i, x>>] \in H
  <2>1. Append(x, found[i]) \in H
    BY <1>1
  <2>. QED
    BY <2>1
<1>3. PICK h : Follows(h, n, H, <<>>, G)
  <2>1. <<>> \in H
    OBVIOUS
  <2>. HIDE DEF G, n, H
  <2>. QED
    BY <1>1, <1>2, <2>1, FoldExists
<1>4. Lit(h)
  <2>1. ASSUME NEW S \in SUBSET (1..n)
        PROVE  h[S] = IF S = {} THEN <<>>
                      ELSE IF Passes(found[Max(S)].doc, Parse(text))
                           THEN Append(h[S \ {Max(S)}], found[Max(S)])
                           ELSE h[S \ {Max(S)}]
    <3>1. CASE S = {}
      BY <1>3, <3>1 DEF Follows
    <3>2. CASE S # {}
      <4>1. PICK m, x : m = Max(S) /\ x = h[S \ {m}]
        OBVIOUS
      <4>2. m \in 1..n /\ x \in H /\ h[S] = G[<<m, x>>]
        <5>. HIDE DEF G, n, H
        <5>. QED
          BY <1>3, <3>2, <4>1 DEF Follows
      <4>3. h[S] = IF m \in K THEN Append(x, found[m]) ELSE x
        <5>. HIDE DEF G, n, H
        <5>. QED
          BY <1>2, <4>2
      <4>4. m \in K <=> Passes(found[m].doc, Parse(text))
        BY <1>1, <4>2
      <4>. QED
        BY <3>2, <4>1, <4>3, <4>4
    <3>. QED
      BY <3>1, <3>2
  <2>2. h = [S \in SUBSET (1..n) |-> h[S]]
    BY <1>3 DEF Follows
  <2>. HIDE DEF n
  <2>. QED
    BY <1>1, <2>1, <2>2
<1>5. PICK f : f = CHOOSE g : Lit(g)
  OBVIOUS
<1>6. Lit(f)
  <2>. HIDE DEF Lit
  <2>. QED
    BY <1>4, <1>5
<1>7. Search(metric, q, k, text) = f[1..n]
  <2>1. Search(metric, q, k, text) = f[DOMAIN found]
    BY <1>5 DEF Search, FoldLeft, MapThenFoldSet
  <2>. QED
    BY <1>1, <2>1
<1>8. Upto(f, 0) = <<>>
  <2>1. 1..0 = {} /\ {} \in SUBSET DOMAIN found
    OBVIOUS
  <2>2. f[{}] = <<>>
    BY <1>6, <2>1
  <2>. QED
    BY <2>1, <2>2 DEF Upto
<1>9. ASSUME NEW i \in 1..n
      PROVE  Upto(f, i) = IF i \in K THEN Append(Upto(f, i - 1), found[i]) ELSE Upto(f, i - 1)
  <2>1. PICK S, R, m : S = 1..i /\ R = 1..(i - 1) /\ m = Max(S)
    OBVIOUS
  <2>2. S \in SUBSET DOMAIN found /\ S # {} /\ m = i /\ S \ {i} = R
    BY <1>1, <2>1, UptoNext
  <2>3. f[S] = IF Passes(found[i].doc, Parse(text))
               THEN Append(f[R], found[i]) ELSE f[R]
    <3>1. f[S] = IF Passes(found[m].doc, Parse(text))
                 THEN Append(f[S \ {m}], found[m]) ELSE f[S \ {m}]
      <4>1. f[S] = IF S = {} THEN <<>>
                   ELSE IF Passes(found[Max(S)].doc, Parse(text))
                        THEN Append(f[S \ {Max(S)}], found[Max(S)])
                        ELSE f[S \ {Max(S)}]
        BY <1>6, <2>2
      <4>. QED
        BY <2>1, <2>2, <4>1
    <3>. QED
      BY <2>2, <3>1
  <2>4. i \in K <=> Passes(found[i].doc, Parse(text))
    BY <1>1
  <2>. QED
    BY <2>1, <2>3, <2>4 DEF Upto
<1>10. \A i \in 0..n : Upto(f, i) \in H
  <2>. DEFINE P == {i \in 0..n : Upto(f, i) \in H}
  <2>1. 0 \in P
    <3>1. <<>> \in H /\ 0 \in 0..n
      BY <1>1
    <3>. QED
      BY <1>8, <3>1
  <2>2. ASSUME NEW i \in 1..n, i - 1 \in P PROVE i \in P
    <3>1. PICK x, y : x = Upto(f, i - 1) /\ y = Upto(f, i)
      OBVIOUS
    <3>2. x \in Seq(Entries) /\ found[i] \in Entries /\ i \in 0..n
      BY <1>1, <2>2, <3>1
    <3>3. Append(x, found[i]) \in Seq(Entries)
      BY <3>2
    <3>4. y = IF i \in K THEN Append(x, found[i]) ELSE x
      BY <1>9, <3>1
    <3>5. y \in H
      BY <3>2, <3>3, <3>4
    <3>. QED
      BY <3>1, <3>2, <3>5
  <2>3. \A i \in 0..n : i \in P
    <3>. HIDE DEF P, n
    <3>. QED
      BY <1>1, <2>1, <2>2, Upwards
  <2>. QED
    BY <2>3
<1>11. PICK T : T = [i \in 0..n |-> Upto(f, i)]
  OBVIOUS
<1>12. Pushes(T, found, K)
  <2>1. T \in [0..n -> Seq(Entries)] /\ T[0] = <<>>
    BY <1>1, <1>8, <1>10, <1>11
  <2>2. \A i \in 1..n : i - 1 \in 0..n /\ i \in 0..n
    BY <1>1
  <2>3. \A i \in 1..n : T[i] = IF i \in K THEN Append(T[i - 1], found[i]) ELSE T[i - 1]
    BY <1>9, <1>11, <2>2
  <2>. QED
    BY <2>1, <2>3 DEF Pushes
<1>13. T[n] = Upto(f, n)
  BY <1>1, <1>11
<1>. QED
  BY <1>7, <1>12, <1>13 DEF Upto, Pushed

LEMMA AppendHolds ==
  ASSUME NEW x \in Seq(Entries), NEW e \in Entries, NEW y
  PROVE  y \in ToSet(Append(x, e)) <=> y \in ToSet(x) \/ y = e
<1>1. PICK m, z : m = Len(x) /\ z = Append(x, e)
  OBVIOUS
<1>2. /\ m \in Nat /\ DOMAIN x = 1..m /\ DOMAIN z = 1..(m + 1) /\ z[m + 1] = e
      /\ \A i \in 1..m : z[i] = x[i]
  BY <1>1
<1>3. /\ y \in ToSet(x) <=> \E i \in 1..m : y = x[i]
      /\ y \in ToSet(z) <=> \E i \in 1..(m + 1) : y = z[i]
  BY <1>2 DEF ToSet
<1>4. (\E i \in 1..(m + 1) : y = z[i]) <=> (\E i \in 1..m : y = z[i]) \/ y = z[m + 1]
  BY <1>2
<1>5. (\E i \in 1..m : y = z[i]) <=> (\E i \in 1..m : y = x[i])
  BY <1>2
<1>. QED
  BY <1>1, <1>2, <1>3, <1>4, <1>5

\* The hits are the entries of the answer that pass the filter.
LEMMA SearchFinds ==
  ASSUME NEW metric, NEW q, NEW k, NEW text, NEW found \in Seq(Entries),
         found = IndexSearch(metric, q, k), NEW e
  PROVE  e \in ToSet(Search(metric, q, k, text))
           <=> e \in ToSet(found) /\ Passes(e.doc, Parse(text))
<1>1. PICK n, K :
        /\ n = Len(found)
        /\ K = {i \in DOMAIN found : Passes(found[i].doc, Parse(text))}
  OBVIOUS
<1>2. n \in Nat /\ DOMAIN found = 1..n /\ \A i \in 1..n : found[i] \in Entries
  BY <1>1
<1>3. PICK T : Pushes(T, found, K) /\ Search(metric, q, k, text) = T[n]
  <2>1. Pushed(Search(metric, q, k, text), found, K)
    BY <1>1, SearchPushes, Zenon
  <2>. QED
    BY <1>1, <2>1 DEF Pushed
<1>4. /\ T \in [0..n -> Seq(Entries)] /\ T[0] = <<>>
      /\ \A i \in 1..n : T[i] = IF i \in K THEN Append(T[i - 1], found[i]) ELSE T[i - 1]
  BY <1>1, <1>3 DEF Pushes
<1>. DEFINE Hit(i) == e \in ToSet(T[i]) <=> \E j \in 1..i : j \in K /\ e = found[j]
            P == {i \in 0..n : Hit(i)}
<1>5. 0 \in P
  <2>1. ToSet(T[0]) = {}
    BY <1>4 DEF ToSet
  <2>. QED
    BY <1>2, <2>1
<1>6. ASSUME NEW i \in 1..n, i - 1 \in P PROVE i \in P
  <2>1. PICK x : x = T[i - 1]
    OBVIOUS
  <2>2. x \in Seq(Entries) /\ found[i] \in Entries /\ i \in 0..n
    BY <1>2, <1>4, <2>1
  <2>3. e \in ToSet(T[i]) <=> e \in ToSet(x) \/ (i \in K /\ e = found[i])
    <3>1. CASE i \in K
      BY <1>4, <2>1, <2>2, <3>1, AppendHolds
    <3>2. CASE i \notin K
      BY <1>4, <2>1, <3>2
    <3>. QED
      BY <3>1, <3>2
  <2>4. e \in ToSet(x) <=> \E j \in 1..(i - 1) : j \in K /\ e = found[j]
    BY <1>6, <2>1
  <2>5. (\E j \in 1..i : j \in K /\ e = found[j])
          <=> (\E j \in 1..(i - 1) : j \in K /\ e = found[j]) \/ (i \in K /\ e = found[i])
    <3>1. \A j : j \in 1..i <=> j \in 1..(i - 1) \/ j = i
      BY <1>2
    <3>. QED
      BY <3>1
  <2>6. Hit(i)
    BY <2>3, <2>4, <2>5
  <2>. QED
    BY <2>2, <2>6
<1>7. Hit(n)
  <2>1. \A i \in 0..n : i \in P
    <3>. HIDE DEF P
    <3>. QED
      BY <1>2, <1>5, <1>6, Upwards
  <2>2. n \in 0..n
    BY <1>2
  <2>. QED
    BY <2>1, <2>2
<1>8. e \in ToSet(found) <=> \E j \in 1..n : e = found[j]
  BY <1>2 DEF ToSet
<1>9. \A j \in 1..n : j \in K <=> Passes(found[j].doc, Parse(text))
  BY <1>1, <1>2
<1>. QED
  BY <1>3, <1>7, <1>8, <1>9

\* An answer as long as the index holds every entry.
LEMMA AnswerOfAll ==
  ASSUME IndInv, NEW metric \in Metrics, NEW q \in Vecs,
         NEW found, found = IndexSearch(metric, q, Len(vectors))
  PROVE  found \in Seq(Entries) /\ ToSet(found) = ToSet(vectors)
<1>1. PICK n, score : n = Len(vectors) /\ score = Scores(metric, q)
  OBVIOUS
<1>2. vectors \in Seq(Entries) /\ n \in Nat /\ DOMAIN vectors = 1..n
  BY <1>1 DEF IndInv
<1>3. PICK p : Answers(found, vectors, score, p, n)
  <2>1. \E p : Answers(IndexSearch(metric, q, n), vectors, Scores(metric, q), p,
                       IF n < Len(vectors) THEN n ELSE Len(vectors))
    BY <1>2, IndexSearchIs
  <2>2. (IF n < Len(vectors) THEN n ELSE Len(vectors)) = n
    BY <1>1, <1>2
  <2>. QED
    BY <1>1, <2>1, <2>2
<1>4. /\ p \in [1..n -> 1..n]
      /\ \A i, j \in 1..n : p[i] = p[j] => i = j
      /\ found \in Seq(Entries) /\ Len(found) = n
      /\ \A i \in 1..n : found[i] = vectors[p[i]]
  BY <1>1, <1>3 DEF Answers
<1>5. \A l \in 1..n : \E i \in 1..n : p[i] = l
  BY <1>2, <1>4, PermutationIsOnto
<1>6. DOMAIN found = 1..n
  BY <1>2, <1>4
<1>7. ASSUME NEW e PROVE (\E i \in 1..n : e = found[i]) <=> (\E i \in 1..n : e = vectors[i])
  <2>1. \A i \in 1..n : p[i] \in 1..n
    BY <1>4
  <2>2. ASSUME NEW i \in 1..n, e = found[i] PROVE \E l \in 1..n : e = vectors[l]
    BY <1>4, <2>1, <2>2
  <2>3. ASSUME NEW l \in 1..n, e = vectors[l] PROVE \E i \in 1..n : e = found[i]
    BY <1>4, <1>5, <2>3
  <2>. QED
    BY <2>2, <2>3
<1>8. ASSUME NEW e PROVE e \in ToSet(found) <=> e \in ToSet(vectors)
  <2>1. e \in ToSet(found) <=> \E i \in 1..n : e = found[i]
    BY <1>6 DEF ToSet
  <2>2. e \in ToSet(vectors) <=> \E i \in 1..n : e = vectors[i]
    BY <1>2 DEF ToSet
  <2>. QED
    BY <1>7, <2>1, <2>2
<1>. QED
  BY <1>4, <1>8

LEMMA PartsOfDocument ==
  ASSUME IndInv, NEW d
  PROVE  /\ VecOf(d) # NoVec <=> \E e \in ToSet(vectors) : e.doc = d
         /\ MetaOf(d) # NoMeta <=> d \in DOMAIN metadata
         /\ d \in DOMAIN metadata => MetaOf(d) = metadata[d]
<1>1. vectors \in Seq(Entries) /\ OneEntryEach(vectors)
  BY DEF IndInv
<1>2. PICK n : n = Len(vectors) /\ n \in Nat /\ DOMAIN vectors = 1..n
  BY <1>1
<1>3. \A i \in 1..n : vectors[i].vec # NoVec
  <2>1. \A i \in 1..n : vectors[i] \in Entries
    BY <1>1, <1>2
  <2>. QED
    BY <2>1, QueryConstants DEF Entries
<1>4. /\ \A i \in 1..n : vectors[i].doc = d => VecOf(d) = vectors[i].vec
      /\ (\A i \in 1..n : vectors[i].doc # d) => VecOf(d) = NoVec
  <2>1. VecOf(d) = VecIn(vectors, d)
    BY VecOfIs
  <2>2. /\ \A i \in DOMAIN vectors : vectors[i].doc = d => VecIn(vectors, d) = vectors[i].vec
        /\ (\A i \in DOMAIN vectors : vectors[i].doc # d) => VecIn(vectors, d) = NoVec
    BY <1>1, VecInIs
  <2>. QED
    BY <1>2, <2>1, <2>2
<1>5. (\E e \in ToSet(vectors) : e.doc = d) <=> \E i \in 1..n : vectors[i].doc = d
  BY <1>2 DEF ToSet
<1>6. VecOf(d) # NoVec <=> \E i \in 1..n : vectors[i].doc = d
  BY <1>3, <1>4
<1>7. d \in DOMAIN metadata => metadata[d] \in Metas
  BY DEF IndInv
<1>. QED
  BY <1>5, <1>6, <1>7, QueryConstants DEF MetaOf

\* A filtered search for as many documents as the index holds returns exactly
\* the documents that have a vector and metadata of which the filter holds:
\* what collection.rs's search, the parser and the evaluation make of a plain
\* condition is what the condition says.  Its strings may hold anything but
\* what the parser cuts them at: CONTAINS after "=", a comma in a list.
THEOREM FilteredSearchAlwaysComplete == Spec => []FilteredSearchIsComplete
<1>1. IndInv => FilteredSearchIsComplete
  <2>. SUFFICES ASSUME IndInv, NEW c \in PlainConditions, NEW q \in Vecs
                PROVE  {e.doc : e \in ToSet(Search("euclidean", q, Len(vectors), Written(c)))}
                         = {d \in Docs : VecOf(d) # NoVec /\ MetaOf(d) # NoMeta
                                           /\ Says(c, MetaOf(d))}
    BY DEF FilteredSearchIsComplete
  <2>1. PICK text, hits, found :
          /\ text = Written(c) /\ hits = Search("euclidean", q, Len(vectors), text)
          /\ found = IndexSearch("euclidean", q, Len(vectors))
    OBVIOUS
  <2>2. found \in Seq(Entries) /\ ToSet(found) = ToSet(vectors)
    <3>1. "euclidean" \in Metrics
      BY DEF Metrics
    <3>. QED
      BY <2>1, <3>1, AnswerOfAll
  <2>3. ASSUME NEW e PROVE e \in ToSet(hits) <=> e \in ToSet(vectors) /\ Passes(e.doc, Parse(text))
    BY <2>1, <2>2, SearchFinds
  <2>4. ASSUME NEW d
        PROVE  Passes(d, Parse(text)) <=> MetaOf(d) # NoMeta /\ Says(c, MetaOf(d))
    <3>1. Evaluate(Parse(text), metadata[d]) <=> Says(c, metadata[d])
      BY <2>1, FilterOfOne
    <3>2. /\ MetaOf(d) # NoMeta <=> d \in DOMAIN metadata
          /\ d \in DOMAIN metadata => MetaOf(d) = metadata[d]
      BY PartsOfDocument
    <3>. QED
      BY <3>1, <3>2 DEF Passes
  <2>5. ASSUME NEW d
        PROVE  (\E e \in ToSet(hits) : e.doc = d)
                 <=> VecOf(d) # NoVec /\ MetaOf(d) # NoMeta /\ Says(c, MetaOf(d))
    <3>1. (\E e \in ToSet(hits) : e.doc = d)
            <=> (\E e \in ToSet(vectors) : e.doc = d) /\ Passes(d, Parse(text))
      BY <2>3
    <3>2. VecOf(d) # NoVec <=> \E e \in ToSet(vectors) : e.doc = d
      BY PartsOfDocument
    <3>. QED
      BY <2>4, <3>1, <3>2
  <2>6. ASSUME NEW e \in ToSet(hits) PROVE e.doc \in Docs
    <3>1. e \in ToSet(vectors)
      BY <2>3
    <3>2. e \in Entries
      <4>1. vectors \in Seq(Entries)
        BY DEF IndInv
      <4>. QED
        BY <3>1, <4>1 DEF ToSet
    <3>. QED
      BY <3>2 DEF Entries
  <2>7. {e.doc : e \in ToSet(hits)}
          = {d \in Docs : VecOf(d) # NoVec /\ MetaOf(d) # NoMeta /\ Says(c, MetaOf(d))}
    BY <2>5, <2>6
  <2>. QED
    BY <2>1, <2>7
<1>. QED
  BY InvariantHolds, <1>1, PTL


-----------------------------------------------------------------------------
(* Conditions joined by AND or OR.                                         *)

\* The depth of a text grows by what each token opens.
Opened(text, n) == [j \in 1..n |-> Opens(text[j])]

LEMMA DepthIs ==
  ASSUME NEW text \in Seq(Tokens), NEW i \in 1..(Len(text) + 1)
  PROVE  /\ Opened(text, i - 1) \in Seq(Int) /\ Len(Opened(text, i - 1)) = i - 1
         /\ Depth(text, i) = Added(Opened(text, i - 1))[i - 1]
<1>1. PICK n, s : n = i - 1 /\ s = Opened(text, n)
  OBVIOUS
<1>2. n \in Nat /\ \A j \in 1..n : j \in 1..Len(text)
  BY <1>1
<1>3. ASSUME NEW j \in 1..n PROVE Opens(text[j]) \in Int
  <2>1. text[j] \in Tokens
    BY <1>2
  <2>. QED
    BY <2>1, OpensAre
<1>4. s \in Seq(Int) /\ Len(s) = n
  <2>1. s \in [1..n -> Int]
    BY <1>1, <1>3 DEF Opened
  <2>. QED
    BY <1>2, <2>1
<1>5. Depth(text, i) = FoldLeft(Plus, 0, s)
  BY <1>1 DEF Depth, Opened, FoldLeft, MapThenFoldSet, Plus
<1>6. FoldLeft(Plus, 0, s) = Added(s)[Len(s)]
  BY <1>4, AddedIs
<1>. QED
  BY <1>1, <1>4, <1>5, <1>6

LEMMA DepthAtFirst ==
  ASSUME NEW text \in Seq(Tokens)
  PROVE  Depth(text, 1) = 0
<1>1. PICK s : s = Opened(text, 1 - 1)
  OBVIOUS
<1>2. s \in Seq(Int) /\ Depth(text, 1) = Added(s)[0]
  <2>1. 1 \in 1..(Len(text) + 1) /\ 1 - 1 = 0
    OBVIOUS
  <2>. QED
    BY <1>1, <2>1, DepthIs
<1>3. Added(s)[0] = 0
  BY <1>2, AddedIs DEF Adds
<1>. QED
  BY <1>2, <1>3

LEMMA DepthNext ==
  ASSUME NEW text \in Seq(Tokens), NEW i \in 1..Len(text)
  PROVE  Depth(text, i + 1) = Depth(text, i) + Opens(text[i]) /\ Depth(text, i) \in Int
<1>1. PICK s, r, P : s = Opened(text, i) /\ r = Opened(text, i - 1) /\ P = Added(s)
  OBVIOUS
<1>2. i \in Nat /\ i \in 1..(Len(text) + 1) /\ i + 1 \in 1..(Len(text) + 1) /\ (i + 1) - 1 = i
  OBVIOUS
<1>3. s \in Seq(Int) /\ Len(s) = i /\ Depth(text, i + 1) = P[i]
  BY <1>1, <1>2, DepthIs
<1>4. r \in Seq(Int) /\ Len(r) = i - 1 /\ Depth(text, i) = Added(r)[i - 1]
  BY <1>1, <1>2, DepthIs
<1>5. P \in [0..i -> Int] /\ P[0] = 0 /\ \A j \in 1..i : P[j] = P[j - 1] + s[j]
  <2>1. Adds(P, s)
    BY <1>1, <1>3, AddedIs
  <2>. QED
    BY <1>3, <2>1 DEF Adds
<1>6. \A j \in 1..(i - 1) : r[j] = s[j]
  BY <1>1, <1>2 DEF Opened
<1>7. PICK Q : Q = [j \in 0..(i - 1) |-> P[j]]
  OBVIOUS
<1>8. Adds(Q, r)
  <2>1. Q \in [0..(i - 1) -> Int] /\ Q[0] = 0
    BY <1>2, <1>5, <1>7
  <2>2. ASSUME NEW j \in 1..(i - 1) PROVE Q[j] = Q[j - 1] + r[j]
    <3>1. j \in 1..i /\ j \in 0..(i - 1) /\ j - 1 \in 0..(i - 1)
      BY <1>2
    <3>. QED
      BY <1>5, <1>6, <1>7, <3>1
  <2>. QED
    BY <1>4, <2>1, <2>2 DEF Adds
<1>9. Depth(text, i) = P[i - 1]
  <2>1. Added(r) = Q
    BY <1>4, <1>8, AddedIf
  <2>2. i - 1 \in 0..(i - 1)
    BY <1>2
  <2>. QED
    BY <1>4, <1>7, <2>1, <2>2
<1>10. i \in 1..i /\ i - 1 \in 0..i
  BY <1>2
<1>11. s[i] = Opens(text[i])
  BY <1>1, <1>10 DEF Opened
<1>. QED
  BY <1>3, <1>5, <1>9, <1>10, <1>11

LEMMA DepthPastOther ==
  ASSUME NEW text \in Seq(Tokens), NEW i \in 1..Len(text), NEW op \in {"AND", "OR"},
         text[i] = Word(op)
  PROVE  Depth(text, i + 1) = Depth(text, i)
<1>1. Opens(text[i]) = 0
  BY OpensAre
<1>. QED
  BY <1>1, DepthNext

\* A condition that closes the parenthesis it opens.
LEMMA DepthPast ==
  ASSUME NEW text \in Seq(Tokens), NEW a, NEW t, Holds(text, a, t), Len(t) >= 3, Closes(t)
  PROVE  Depth(text, a + Len(t) + 1) = Depth(text, a + 1)
<1>1. PICK n, d, lo :
        /\ n = Len(t) /\ d = Depth(text, a + 1)
        /\ lo = IF \A i \in 1..Len(t) : Opens(t[i]) = 0 THEN n ELSE 3
  OBVIOUS
<1>2. /\ n \in Nat /\ a \in Nat /\ n >= 3 /\ a + n <= Len(text)
      /\ \A i \in 1..n : text[a + i] = t[i]
  BY <1>1 DEF Holds
<1>3. ASSUME NEW i \in 1..n
      PROVE  Opens(t[i]) = IF lo = n THEN 0 ELSE IF i = 3 THEN 1 ELSE IF i = n THEN -1 ELSE 0
  <2>1. CASE \A j \in 1..n : Opens(t[j]) = 0
    BY <1>1, <2>1
  <2>2. CASE ~(\A j \in 1..n : Opens(t[j]) = 0)
    <3>1. lo = 3
      BY <1>1, <2>2
    <3>2. /\ n # 3
          /\ \A j \in 1..n :
               Opens(t[j]) = IF j = 3 THEN 1 ELSE IF j = n THEN -1 ELSE 0
      BY <1>1, <2>2 DEF Closes
    <3>. QED
      BY <3>1, <3>2
  <2>. QED
    BY <2>1, <2>2
<1>. DEFINE E(i) == IF lo # n /\ 3 <= i /\ i < n THEN 1 ELSE 0
            P == {i \in 0..n : Depth(text, a + 1 + i) = d + E(i)}
<1>4. d \in Int /\ a + 1 + 0 = a + 1
  <2>1. a + 1 \in 1..Len(text)
    BY <1>2
  <2>. QED
    BY <1>1, <1>2, <2>1, DepthNext
<1>5. 0 \in P
  BY <1>1, <1>2, <1>4
<1>6. ASSUME NEW i \in 1..n, i - 1 \in P PROVE i \in P
  <2>1. PICK k : k = a + i
    OBVIOUS
  <2>2. k \in 1..Len(text) /\ a + 1 + (i - 1) = k /\ a + 1 + i = k + 1
    BY <1>2, <2>1
  <2>3. Depth(text, k + 1) = Depth(text, k) + Opens(t[i])
    BY <1>2, <2>1, <2>2, DepthNext
  <2>4. Depth(text, k) = d + E(i - 1)
    BY <1>6, <2>2
  <2>5. E(i) = E(i - 1) + Opens(t[i])
    <3>1. lo # n => lo = 3
      BY <1>1
    <3>. QED
      BY <1>2, <1>3, <3>1
  <2>6. Depth(text, a + 1 + i) = d + E(i)
    <3>1. E(i) \in Int /\ E(i - 1) \in Int /\ Opens(t[i]) \in Int
      BY <1>3
    <3>. HIDE DEF E
    <3>. QED
      BY <1>4, <2>2, <2>3, <2>4, <2>5, <3>1
  <2>. QED
    BY <2>6
<1>7. n \in P
  <2>1. n \in 0..n
    BY <1>2
  <2>. HIDE DEF P
  <2>. QED
    BY <1>2, <1>5, <1>6, <2>1, Upwards
<1>8. Depth(text, a + 1 + n) = d /\ a + 1 + n = a + n + 1
  BY <1>2, <1>4, <1>7
<1>. QED
  BY <1>1, <1>8

Cuts(text, w) == {i \in Inner(text, w) : Depth(text, i) = 0}

LEMMA SplitIs ==
  \A text, w : Split(text, w) = {Piece(text, Cuts(text, w) \cup {Len(text) + 1}, i) :
                                   i \in Cuts(text, w) \cup {0}}
BY PartsAre DEF Split, Cuts

\* A condition holds no AND and no OR.
LEMMA NoneWithin ==
  ASSUME NEW text \in Seq(Tokens), NEW a, NEW t, Holds(text, a, t), NEW c, ReadsAs(t, c),
         NEW w \in {"AND", "OR"}, NEW i \in (a + 1)..(a + Len(t))
  PROVE  text[i] # Word(w)
<1>1. PICK n, k : n = Len(t) /\ k = i - a
  OBVIOUS
<1>2. n \in Nat /\ a \in Nat /\ DOMAIN t = 1..n /\ \A j \in 1..n : text[a + j] = t[j]
  BY <1>1 DEF Holds
<1>3. k \in 1..n /\ a + k = i
  BY <1>1, <1>2
<1>4. k \notin Occurrences(t, w)
  BY DEF ReadsAs
<1>5. t[k] # Word(w)
  BY <1>2, <1>3, <1>4 DEF Occurrences
<1>. QED
  BY <1>2, <1>3, <1>5

TwoJoined(text, t, op, u) ==
  /\ text \in Seq(Tokens) /\ Len(text) = Len(t) + 1 + Len(u)
  /\ Holds(text, 0, t) /\ text[Len(t) + 1] = Word(op) /\ Holds(text, Len(t) + 1, u)

LEMMA TwoSplit ==
  ASSUME NEW text, NEW t, NEW u, TwoJoined(text, t, "AND", u),
         NEW c, NEW d, ReadsAs(t, c), ReadsAs(u, d), Closes(t), Closes(u)
  PROVE  Split(text, "AND") = {t, u}
<1>1. PICK n, m, l, k : n = Len(t) /\ m = Len(u) /\ l = Len(text) /\ k = n + 1
  OBVIOUS
<1>2. /\ n \in Nat /\ m \in Nat /\ l \in Nat /\ l = n + 1 + m /\ n >= 3 /\ m >= 3
      /\ k = n + 1 /\ k \in Nat /\ k \in 1..l
      /\ text \in Seq(Tokens) /\ DOMAIN text = 1..l
      /\ Holds(text, 0, t) /\ text[k] = Word("AND") /\ Holds(text, k, u)
  BY <1>1 DEF TwoJoined, ReadsAs
<1>3. Inner(text, "AND") = {k}
  <2>1. ASSUME NEW i \in 1..l, i # k PROVE text[i] # Word("AND")
    <3>1. CASE i \in 1..n
      <4>1. i \in (0 + 1)..(0 + Len(t))
        BY <1>1, <1>2, <3>1
      <4>. QED
        BY <1>2, <4>1, NoneWithin
    <3>2. CASE i \in (k + 1)..(k + m)
      BY <1>1, <1>2, <3>2, NoneWithin
    <3>3. i \in 1..n \/ i \in (k + 1)..(k + m)
      BY <1>2, <2>1
    <3>. QED
      BY <3>1, <3>2, <3>3
  <2>2. Occurrences(text, "AND") = {k}
    BY <1>2, <2>1 DEF Occurrences
  <2>3. k # 1 /\ k # l
    BY <1>2
  <2>. QED
    BY <1>1, <2>2, <2>3 DEF Inner
<1>4. Depth(text, k) = 0
  <2>1. Depth(text, 0 + Len(t) + 1) = Depth(text, 0 + 1)
    BY <1>1, <1>2, DepthPast
  <2>2. 0 + Len(t) + 1 = k /\ 0 + 1 = 1
    BY <1>1, <1>2
  <2>3. Depth(text, 1) = 0
    BY <1>2, DepthAtFirst
  <2>. QED
    BY <2>1, <2>2, <2>3
<1>5. PICK cuts, ends :
        /\ cuts = Cuts(text, "AND")
        /\ ends = cuts \cup {Len(text) + 1}
  OBVIOUS
<1>6. cuts = {k} /\ ends = {k, l + 1}
  BY <1>1, <1>3, <1>4, <1>5 DEF Cuts
<1>7. Piece(text, ends, 0) = t
  <2>1. ends \in SUBSET Int /\ 0 + Len(t) + 1 \in ends /\ \A j \in ends : j > 0 => 0 + Len(t) + 1 <= j
    BY <1>1, <1>2, <1>6
  <2>. QED
    BY <1>2, <2>1, PieceBetween
<1>8. Piece(text, ends, k) = u
  <2>1. ends \in SUBSET Int /\ k + Len(u) + 1 \in ends /\ \A j \in ends : j > k => k + Len(u) + 1 <= j
    BY <1>1, <1>2, <1>6
  <2>. QED
    BY <1>2, <2>1, PieceBetween
<1>9. Split(text, "AND") = {Piece(text, ends, i) : i \in cuts \cup {0}}
  BY <1>5, SplitIs
<1>. QED
  BY <1>6, <1>7, <1>8, <1>9

\* t, u and t again.
ThreeJoined(text, t, op, u) ==
  /\ text \in Seq(Tokens) /\ Len(text) = Len(t) + 1 + Len(u) + 1 + Len(t)
  /\ Holds(text, 0, t) /\ text[Len(t) + 1] = Word(op)
  /\ Holds(text, Len(t) + 1, u) /\ text[Len(t) + 1 + Len(u) + 1] = Word(op)
  /\ Holds(text, Len(t) + 1 + Len(u) + 1, t)

LEMMA ThreeSplit ==
  ASSUME NEW text, NEW t, NEW u, ThreeJoined(text, t, "OR", u),
         NEW c, NEW d, ReadsAs(t, c), ReadsAs(u, d), Closes(t), Closes(u)
  PROVE  Occurrences(text, "AND") = {} /\ Split(text, "OR") = {t, u}
<1>1. PICK n, m, l, k, h :
        n = Len(t) /\ m = Len(u) /\ l = Len(text) /\ k = n + 1 /\ h = k + m + 1
  OBVIOUS
<1>2. /\ n \in Nat /\ m \in Nat /\ l \in Nat /\ l = h + n /\ n >= 3 /\ m >= 3
      /\ k = n + 1 /\ k \in Nat /\ k \in 1..l /\ h = k + m + 1 /\ h \in Nat /\ h \in 1..l
      /\ text \in Seq(Tokens) /\ DOMAIN text = 1..l
      /\ Holds(text, 0, t) /\ text[k] = Word("OR") /\ Holds(text, k, u)
      /\ text[h] = Word("OR") /\ Holds(text, h, t)
  BY <1>1 DEF ThreeJoined, ReadsAs
<1>3. ASSUME NEW w \in {"AND", "OR"}, NEW i \in 1..l, i # k, i # h PROVE text[i] # Word(w)
  <2>1. CASE i \in 1..n
    <3>1. i \in (0 + 1)..(0 + Len(t))
      BY <1>1, <1>2, <2>1
    <3>. QED
      BY <1>2, <3>1, NoneWithin
  <2>2. CASE i \in (k + 1)..(k + m)
    BY <1>1, <1>2, <2>2, NoneWithin
  <2>3. CASE i \in (h + 1)..(h + n)
    BY <1>1, <1>2, <2>3, NoneWithin
  <2>4. i \in 1..n \/ i \in (k + 1)..(k + m) \/ i \in (h + 1)..(h + n)
    BY <1>2, <1>3
  <2>. QED
    BY <2>1, <2>2, <2>3, <2>4
<1>4. Occurrences(text, "AND") = {}
  <2>1. text[k] # Word("AND") /\ text[h] # Word("AND")
    BY <1>2, WordsAre
  <2>. QED
    BY <1>2, <1>3, <2>1 DEF Occurrences
<1>5. Inner(text, "OR") = {k, h}
  <2>1. Occurrences(text, "OR") = {k, h}
    BY <1>2, <1>3 DEF Occurrences
  <2>2. k # 1 /\ k # l /\ h # 1 /\ h # l
    BY <1>2
  <2>. QED
    BY <1>1, <2>1, <2>2 DEF Inner
<1>6. Depth(text, k) = 0
  <2>1. Depth(text, 0 + Len(t) + 1) = Depth(text, 0 + 1)
    BY <1>1, <1>2, DepthPast
  <2>2. 0 + Len(t) + 1 = k /\ 0 + 1 = 1
    BY <1>1, <1>2
  <2>3. Depth(text, 1) = 0
    BY <1>2, DepthAtFirst
  <2>. QED
    BY <2>1, <2>2, <2>3
<1>7. Depth(text, h) = 0
  <2>1. Depth(text, k + Len(u) + 1) = Depth(text, k + 1)
    BY <1>1, <1>2, DepthPast
  <2>2. k + Len(u) + 1 = h
    BY <1>1, <1>2
  <2>3. Depth(text, k + 1) = Depth(text, k)
    BY <1>1, <1>2, DepthPastOther
  <2>. QED
    BY <1>6, <2>1, <2>2, <2>3
<1>8. PICK cuts, ends :
        /\ cuts = Cuts(text, "OR")
        /\ ends = cuts \cup {Len(text) + 1}
  OBVIOUS
<1>9. cuts = {k, h} /\ ends = {k, h, l + 1}
  BY <1>1, <1>5, <1>6, <1>7, <1>8 DEF Cuts
<1>10. Piece(text, ends, 0) = t
  <2>1. ends \in SUBSET Int /\ 0 + Len(t) + 1 \in ends /\ \A j \in ends : j > 0 => 0 + Len(t) + 1 <= j
    BY <1>1, <1>2, <1>9
  <2>. QED
    BY <1>2, <2>1, PieceBetween
<1>11. Piece(text, ends, k) = u
  <2>1. ends \in SUBSET Int /\ k + Len(u) + 1 \in ends /\ \A j \in ends : j > k => k + Len(u) + 1 <= j
    BY <1>1, <1>2, <1>9
  <2>. QED
    BY <1>2, <2>1, PieceBetween
<1>12. Piece(text, ends, h) = t
  <2>1. ends \in SUBSET Int /\ h + Len(t) + 1 \in ends /\ \A j \in ends : j > h => h + Len(t) + 1 <= j
    BY <1>1, <1>2, <1>9
  <2>. QED
    BY <1>2, <2>1, PieceBetween
<1>13. Split(text, "OR") = {Piece(text, ends, i) : i \in cuts \cup {0}}
  BY <1>8, SplitIs
<1>14. Split(text, "OR") = {t, u}
  BY <1>9, <1>10, <1>11, <1>12, <1>13
<1>. QED
  BY <1>4, <1>14

LEMMA ParseAnd ==
  ASSUME NEW text, NEW t, NEW u, TwoJoined(text, t, "AND", u),
         NEW c, NEW d, ReadsAs(t, c), ReadsAs(u, d), Closes(t), Closes(u)
  PROVE  Parse(text) = {{c}, {d}}
<1>1. Split(text, "AND") = {t, u}
  BY TwoSplit
<1>2. Split(t, "OR") = {t} /\ Split(u, "OR") = {u}
  BY SplitNowhere DEF ReadsAs
<1>3. ParseCondition(t) = c /\ ParseCondition(u) = d
  BY DEF ReadsAs
<1>. QED
  BY <1>1, <1>2, <1>3 DEF Parse

LEMMA ParseOr ==
  ASSUME NEW text, NEW t, NEW u, ThreeJoined(text, t, "OR", u),
         NEW c, NEW d, ReadsAs(t, c), ReadsAs(u, d), Closes(t), Closes(u)
  PROVE  Parse(text) = {{c, d}}
<1>1. Occurrences(text, "AND") = {} /\ Split(text, "OR") = {t, u}
  BY ThreeSplit
<1>2. Split(text, "AND") = {text}
  <2>1. text \in Seq(Tokens) /\ Len(text) >= 1
    BY DEF ThreeJoined, ReadsAs
  <2>. QED
    BY <1>1, <2>1, SplitNowhere
<1>3. ParseCondition(t) = c /\ ParseCondition(u) = d
  BY DEF ReadsAs
<1>. QED
  BY <1>1, <1>2, <1>3 DEF Parse

\* FlattenSeq, of as many texts as the joined conditions have.
Flat(seqs, n) == IF n = 2 THEN seqs[1] \o seqs[2] ELSE (seqs[1] \o seqs[2]) \o seqs[3]

LEMMA FlattenIs ==
  ASSUME NEW seqs \in Seq(Seq(Tokens)), NEW n \in {2, 3}, Len(seqs) = n
  PROVE  FlattenSeq(seqs) = Flat(seqs, n)
<1>. DEFINE Lit(f) == f = [i \in 1..Len(seqs) |->
                             IF i = 1 THEN seqs[i] ELSE f[i - 1] \o seqs[i]]
<1>1. PICK p, q, r : p = seqs[1] /\ q = seqs[1] \o seqs[2] /\ r = (seqs[1] \o seqs[2]) \o seqs[3]
  OBVIOUS
<1>2. PICK g : g = [i \in 1..n |-> IF i = 1 THEN p ELSE IF i = 2 THEN q ELSE r]
  OBVIOUS
<1>3. Lit(g)
  <2>1. ASSUME NEW i \in 1..n PROVE g[i] = IF i = 1 THEN seqs[i] ELSE g[i - 1] \o seqs[i]
    <3>1. i = 1 \/ i = 2 \/ i = 3
      OBVIOUS
    <3>2. CASE i = 1
      BY <1>1, <1>2, <3>2
    <3>3. CASE i = 2
      <4>1. g[2] = q /\ g[1] = p
        BY <1>2, <3>3
      <4>2. q = p \o seqs[2]
        BY <1>1
      <4>3. i - 1 = 1 /\ i # 1
        BY <3>3
      <4>. QED
        BY <3>3, <4>1, <4>2, <4>3, Zenon
    <3>4. CASE i = 3
      <4>1. g[3] = r /\ g[2] = q
        BY <1>2, <3>4
      <4>2. r = q \o seqs[3]
        BY <1>1
      <4>3. i - 1 = 2 /\ i # 1
        BY <3>4
      <4>. QED
        BY <3>4, <4>1, <4>2, <4>3, Zenon
    <3>. QED
      BY <3>1, <3>2, <3>3, <3>4
  <2>2. g = [i \in 1..n |-> g[i]]
    BY <1>2
  <2>. QED
    BY <2>1, <2>2
<1>4. PICK f : f = CHOOSE x : Lit(x)
  OBVIOUS
<1>5. Lit(f)
  <2>. HIDE DEF Lit
  <2>. QED
    BY <1>3, <1>4
<1>6. FlattenSeq(seqs) = f[n]
  <2>1. Len(seqs) # 0
    OBVIOUS
  <2>. QED
    BY <1>4, <2>1 DEF FlattenSeq
<1>7. f[1] = p /\ f[2] = q /\ (n = 3 => f[3] = r)
  <2>1. \A i \in 1..n : f[i] = IF i = 1 THEN seqs[i] ELSE f[i - 1] \o seqs[i]
    BY <1>5
  <2>2. f[1] = p
    BY <1>1, <2>1
  <2>3. f[2] = f[1] \o seqs[2]
    <3>1. 2 \in 1..n /\ 2 # 1 /\ 2 - 1 = 1
      OBVIOUS
    <3>. QED
      BY <2>1, <3>1, Zenon
  <2>4. f[2] = q
    BY <1>1, <2>2, <2>3
  <2>5. n = 3 => f[3] = f[2] \o seqs[3]
    <3>1. n = 3 => 3 \in 1..n /\ 3 # 1 /\ 3 - 1 = 2
      OBVIOUS
    <3>. QED
      BY <2>1, <3>1, Zenon
  <2>. QED
    BY <1>1, <2>2, <2>4, <2>5
<1>. QED
  BY <1>1, <1>6, <1>7 DEF Flat

\* e is s, the token w, and u.
Joins(e, s, w, u) ==
  /\ e \in Seq(Tokens) /\ Len(e) = Len(s) + 1 + Len(u)
  /\ \A i \in 1..Len(s) : e[i] = s[i]
  /\ e[Len(s) + 1] = w
  /\ \A i \in 1..Len(u) : e[Len(s) + 1 + i] = u[i]

LEMMA JoinsIs ==
  ASSUME NEW s \in Seq(Tokens), NEW w \in Tokens, NEW u \in Seq(Tokens)
  PROVE  Joins(s \o (<<w>> \o u), s, w, u)
<1>1. PICK b, x, e : b = <<w>> /\ x = b \o u /\ e = s \o x
  OBVIOUS
<1>2. b \in Seq(Tokens) /\ Len(b) = 1 /\ b[1] = w
  BY <1>1
<1>3. Concatenates(x, b, u)
  BY <1>1, <1>2, ConcatIs
<1>4. x \in Seq(Tokens)
  BY <1>3 DEF Concatenates
<1>5. Concatenates(e, s, x)
  BY <1>1, <1>4, ConcatIs
<1>6. PICK n, m : n = Len(s) /\ m = Len(u)
  OBVIOUS
<1>7. /\ n \in Nat /\ m \in Nat /\ Len(x) = 1 + m
      /\ x[1] = w /\ \A i \in 1..m : x[1 + i] = u[i]
  BY <1>2, <1>3, <1>6 DEF Concatenates
<1>8. /\ e \in Seq(Tokens) /\ Len(e) = n + (1 + m) /\ \A i \in 1..n : e[i] = s[i]
      /\ \A i \in 1..(1 + m) : e[n + i] = x[i]
  BY <1>5, <1>6, <1>7 DEF Concatenates
<1>9. ASSUME NEW i \in 1..m PROVE e[n + 1 + i] = u[i]
  <2>1. 1 + i \in 1..(1 + m) /\ n + (1 + i) = n + 1 + i
    BY <1>7
  <2>2. e[n + (1 + i)] = x[1 + i]
    BY <1>8, <2>1
  <2>. QED
    BY <1>7, <2>1, <2>2
<1>10. e[n + 1] = w
  BY <1>7, <1>8
<1>11. Len(e) = n + 1 + m
  BY <1>7, <1>8
<1>12. Joins(e, s, w, u)
  BY <1>6, <1>8, <1>9, <1>10, <1>11 DEF Joins
<1>. QED
  BY <1>1, <1>12

LEMMA TwoJoins ==
  ASSUME NEW t \in Seq(Tokens), NEW u \in Seq(Tokens), NEW op, NEW e, Joins(e, t, Word(op), u)
  PROVE  TwoJoined(e, t, op, u)
<1>0. Len(t) \in Nat /\ Len(u) \in Nat
  OBVIOUS
<1>1. PICK n, m : n = Len(t) /\ m = Len(u) /\ n \in Nat /\ m \in Nat
  BY <1>0
<1>2. /\ e \in Seq(Tokens) /\ Len(e) = n + 1 + m /\ e[n + 1] = Word(op)
      /\ \A i \in 1..n : e[i] = t[i]
      /\ \A i \in 1..m : e[n + 1 + i] = u[i]
  BY <1>1 DEF Joins
<1>3. Holds(e, 0, t)
  <2>1. \A i \in 1..n : 0 + i = i
    BY <1>1
  <2>. QED
    BY <1>1, <1>2, <2>1 DEF Holds
<1>4. Holds(e, n + 1, u)
  BY <1>1, <1>2 DEF Holds
<1>. QED
  BY <1>1, <1>2, <1>3, <1>4 DEF TwoJoined

LEMMA ThreeJoins ==
  ASSUME NEW t \in Seq(Tokens), NEW u \in Seq(Tokens), NEW op,
         NEW s, Joins(s, t, Word(op), u), NEW e, Joins(e, s, Word(op), t)
  PROVE  ThreeJoined(e, t, op, u)
<1>0. Len(t) \in Nat /\ Len(u) \in Nat
  OBVIOUS
<1>1. PICK n, m, k, h :
        n = Len(t) /\ m = Len(u) /\ n \in Nat /\ m \in Nat /\ k = n + 1 /\ h = n + 1 + m + 1
  BY <1>0
<1>2. /\ s \in Seq(Tokens) /\ Len(s) = n + 1 + m /\ s[k] = Word(op)
      /\ \A i \in 1..n : s[i] = t[i]
      /\ \A i \in 1..m : s[k + i] = u[i]
  BY <1>1 DEF Joins
<1>3. /\ e \in Seq(Tokens) /\ Len(e) = h + n /\ e[h] = Word(op)
      /\ \A i \in 1..(n + 1 + m) : e[i] = s[i]
      /\ \A i \in 1..n : e[h + i] = t[i]
  BY <1>1, <1>2 DEF Joins
<1>4. Holds(e, 0, t)
  <2>1. \A i \in 1..n : 0 + i = i /\ i \in 1..(n + 1 + m)
    BY <1>1
  <2>2. \A i \in 1..n : e[0 + i] = t[i]
    BY <1>2, <1>3, <2>1
  <2>3. 0 + n <= Len(e)
    BY <1>1, <1>3
  <2>. QED
    BY <1>1, <2>2, <2>3 DEF Holds
<1>5. Holds(e, k, u)
  <2>1. \A i \in 1..m : k + i \in 1..(n + 1 + m)
    BY <1>1
  <2>2. \A i \in 1..m : e[k + i] = u[i]
    BY <1>2, <1>3, <2>1
  <2>3. k \in Nat /\ k + m <= Len(e)
    BY <1>1, <1>3
  <2>. QED
    BY <1>1, <2>2, <2>3 DEF Holds
<1>6. Holds(e, h, t)
  BY <1>1, <1>3 DEF Holds
<1>7. e[k] = Word(op)
  <2>1. k \in 1..(n + 1 + m)
    BY <1>1
  <2>. QED
    BY <1>2, <1>3, <2>1
<1>8. Len(e) = n + 1 + m + 1 + n
  BY <1>1, <1>3
<1>. QED
  BY <1>1, <1>3, <1>4, <1>5, <1>6, <1>7, <1>8 DEF ThreeJoined

LEMMA PlusNothing ==
  ASSUME NEW t \in Seq(Tokens)
  PROVE  <<>> \o t = t
OBVIOUS

LEMMA JoinedTexts ==
  ASSUME NEW n \in {2, 3}, NEW conditions, NEW op \in {"AND", "OR"}, DOMAIN conditions = 1..n,
         NEW r \in [1..n -> Seq(Tokens)], \A i \in 1..n : Written(conditions[i]) = r[i]
  PROVE  Joined(conditions, op)
           = IF n = 2 THEN r[1] \o (<<Word(op)>> \o r[2])
             ELSE (r[1] \o (<<Word(op)>> \o r[2])) \o (<<Word(op)>> \o r[3])
<1>1. PICK texts : texts = [i \in DOMAIN conditions |->
                              (IF i = 1 THEN <<>> ELSE <<Word(op)>>) \o Written(conditions[i])]
  OBVIOUS
<1>2. PICK b : b = <<Word(op)>>
  OBVIOUS
<1>3. b \in Seq(Tokens)
  <2>1. op \in Operators
    BY DEF Operators
  <2>2. Word(op) \in Tokens
    BY <2>1 DEF Tokens
  <2>. QED
    BY <1>2, <2>2
<1>4. ASSUME NEW i \in 1..n PROVE texts[i] = IF i = 1 THEN r[1] ELSE b \o r[i]
  <2>1. r[i] \in Seq(Tokens)
    OBVIOUS
  <2>2. texts[i] = (IF i = 1 THEN <<>> ELSE b) \o r[i]
    BY <1>1, <1>2
  <2>3. CASE i = 1
    <3>1. texts[i] = <<>> \o r[i]
      BY <2>2, <2>3
    <3>. QED
      BY <2>1, <2>3, <3>1, PlusNothing
  <2>4. CASE i # 1
    BY <2>2, <2>4
  <2>. QED
    BY <2>3, <2>4
<1>5. texts \in Seq(Seq(Tokens)) /\ Len(texts) = n
  <2>1. ASSUME NEW i \in 1..n PROVE texts[i] \in Seq(Tokens)
    <3>1. r[1] \in Seq(Tokens) /\ r[i] \in Seq(Tokens)
      OBVIOUS
    <3>2. b \o r[i] \in Seq(Tokens)
      BY <1>3, <3>1
    <3>. QED
      BY <1>4, <3>1, <3>2
  <2>2. texts \in [1..n -> Seq(Tokens)]
    BY <1>1, <2>1
  <2>. QED
    BY <2>2
<1>6. FlattenSeq(texts) = Flat(texts, n)
  BY <1>5, FlattenIs
<1>7. texts[1] = r[1] /\ texts[2] = b \o r[2] /\ (n = 3 => texts[3] = b \o r[3])
  <2>1. 1 \in 1..n /\ 2 \in 1..n /\ 2 # 1 /\ 3 # 1 /\ (n = 3 => 3 \in 1..n)
    OBVIOUS
  <2>. QED
    BY <1>4, <2>1, Zenon
<1>8. Joined(conditions, op) = FlattenSeq(texts)
  BY <1>1 DEF Joined
<1>. QED
  BY <1>2, <1>6, <1>7, <1>8 DEF Flat

LEMMA JoinedByAnd ==
  ASSUME NEW c \in PlainConditions, NEW d \in PlainConditions, Balanced(c), Balanced(d)
  PROVE  Parse(Joined(<<c, d>>, "AND")) = {{c}, {d}}
<1>1. PICK t, u, w : t = Written(c) /\ u = Written(d) /\ w = Word("AND")
  OBVIOUS
<1>2. ReadsAs(t, c) /\ ReadsAs(u, d) /\ Closes(t) /\ Closes(u)
  BY <1>1, WrittenReads
<1>3. t \in Seq(Tokens) /\ u \in Seq(Tokens) /\ w \in Tokens
  <2>1. "AND" \in Operators
    BY DEF Operators
  <2>. QED
    BY <1>1, <1>2, <2>1 DEF ReadsAs, Tokens
<1>4. PICK conditions, r, n :
        conditions = <<c, d>> /\ r = [i \in 1..2 |-> IF i = 1 THEN t ELSE u] /\ n = 2
  OBVIOUS
<1>5. /\ DOMAIN conditions = 1..n /\ r \in [1..n -> Seq(Tokens)] /\ n \in {2, 3}
      /\ r[1] = t /\ r[2] = u
      /\ \A i \in 1..n : Written(conditions[i]) = r[i]
  <2>1. DOMAIN conditions = 1..n /\ r \in [1..n -> Seq(Tokens)] /\ n \in {2, 3} /\ r[1] = t /\ r[2] = u
    BY <1>3, <1>4
  <2>2. ASSUME NEW i \in 1..n PROVE Written(conditions[i]) = r[i]
    <3>1. i = 1 \/ i = 2
      BY <1>4
    <3>2. conditions[1] = c /\ conditions[2] = d
      BY <1>4
    <3>3. CASE i = 1
      BY <1>1, <2>1, <3>2, <3>3, Zenon
    <3>4. CASE i = 2
      BY <1>1, <2>1, <3>2, <3>4, Zenon
    <3>. QED
      BY <3>1, <3>3, <3>4
  <2>. QED
    BY <2>1, <2>2
<1>6. PICK text : text = Joined(<<c, d>>, "AND")
  OBVIOUS
<1>7. text = t \o (<<w>> \o u)
  <2>1. Joined(conditions, "AND")
           = IF n = 2 THEN r[1] \o (<<Word("AND")>> \o r[2])
             ELSE (r[1] \o (<<Word("AND")>> \o r[2])) \o (<<Word("AND")>> \o r[3])
    BY <1>5, JoinedTexts
  <2>. QED
    BY <1>1, <1>4, <1>5, <1>6, <2>1
<1>8. Joins(text, t, w, u)
  BY <1>3, <1>7, JoinsIs
<1>9. TwoJoined(text, t, "AND", u)
  BY <1>1, <1>3, <1>8, TwoJoins
<1>. QED
  BY <1>2, <1>6, <1>9, ParseAnd

LEMMA JoinedByOr ==
  ASSUME NEW c \in PlainConditions, NEW d \in PlainConditions, Balanced(c), Balanced(d)
  PROVE  Parse(Joined(<<c, d, c>>, "OR")) = {{c, d}}
<1>1. PICK t, u, w : t = Written(c) /\ u = Written(d) /\ w = Word("OR")
  OBVIOUS
<1>2. ReadsAs(t, c) /\ ReadsAs(u, d) /\ Closes(t) /\ Closes(u)
  BY <1>1, WrittenReads
<1>3. t \in Seq(Tokens) /\ u \in Seq(Tokens) /\ w \in Tokens
  <2>1. "OR" \in Operators
    BY DEF Operators
  <2>. QED
    BY <1>1, <1>2, <2>1 DEF ReadsAs, Tokens
<1>4. PICK conditions, r, n :
        conditions = <<c, d, c>> /\ r = [i \in 1..3 |-> IF i = 2 THEN u ELSE t] /\ n = 3
  OBVIOUS
<1>5. /\ DOMAIN conditions = 1..n /\ r \in [1..n -> Seq(Tokens)] /\ n \in {2, 3}
      /\ r[1] = t /\ r[2] = u /\ r[3] = t
      /\ \A i \in 1..n : Written(conditions[i]) = r[i]
  <2>1. /\ DOMAIN conditions = 1..n /\ r \in [1..n -> Seq(Tokens)] /\ n \in {2, 3}
        /\ r[1] = t /\ r[2] = u /\ r[3] = t
    BY <1>3, <1>4
  <2>2. ASSUME NEW i \in 1..n PROVE Written(conditions[i]) = r[i]
    <3>1. i = 1 \/ i = 2 \/ i = 3
      BY <1>4
    <3>2. conditions[1] = c /\ conditions[2] = d /\ conditions[3] = c
      BY <1>4
    <3>3. CASE i = 1
      BY <1>1, <2>1, <3>2, <3>3, Zenon
    <3>4. CASE i = 2
      BY <1>1, <2>1, <3>2, <3>4, Zenon
    <3>5. CASE i = 3
      BY <1>1, <2>1, <3>2, <3>5, Zenon
    <3>. QED
      BY <3>1, <3>3, <3>4, <3>5
  <2>. QED
    BY <2>1, <2>2
<1>6. PICK s, text : s = t \o (<<w>> \o u) /\ text = Joined(<<c, d, c>>, "OR")
  OBVIOUS
<1>7. text = s \o (<<w>> \o t)
  <2>1. Joined(conditions, "OR")
           = IF n = 2 THEN r[1] \o (<<Word("OR")>> \o r[2])
             ELSE (r[1] \o (<<Word("OR")>> \o r[2])) \o (<<Word("OR")>> \o r[3])
    BY <1>5, JoinedTexts
  <2>2. Joined(conditions, "OR") = (t \o (<<w>> \o u)) \o (<<w>> \o t)
    <3>1. n # 2
      BY <1>4
    <3>. QED
      BY <1>1, <1>5, <2>1, <3>1, Zenon
  <2>. QED
    BY <1>4, <1>6, <2>2, Zenon
<1>8. Joins(s, t, w, u)
  BY <1>3, <1>6, JoinsIs
<1>9. s \in Seq(Tokens)
  BY <1>8 DEF Joins
<1>10. Joins(text, s, w, t)
  BY <1>3, <1>7, <1>9, JoinsIs
<1>11. ThreeJoined(text, t, "OR", u)
  BY <1>1, <1>3, <1>8, <1>10, ThreeJoins
<1>. QED
  BY <1>2, <1>6, <1>11, ParseOr

LEMMA NoPlainError ==
  ASSUME NEW c \in PlainConditions
  PROVE  c # Error
<1>1. c.op \in {"equals", "more", "less", "in", "contains"}
  BY DEF PlainConditions
<1>2. Error.op = "error"
  BY DEF Error
<1>. QED
  BY <1>1, <1>2

\* The calls with filters give two plain conditions.
FilterInputOK ==
  input.kind = "filter" => input.c \in PlainConditions /\ input.d \in PlainConditions

LEMMA PlainFiltersHold ==
  ASSUME FilterInputOK
  PROVE  PlainFiltersMean
<1>. SUFFICES ASSUME input.kind = "filter", Balanced(input.c), Balanced(input.d)
              PROVE  JoinedMean(input.c, input.d)
  BY DEF PlainFiltersMean
<1>1. PICK c, d : c = input.c /\ d = input.d
  OBVIOUS
<1>2. c \in PlainConditions /\ d \in PlainConditions /\ Balanced(c) /\ Balanced(d)
  BY <1>1 DEF FilterInputOK
<1>3. PICK and, or :
        /\ and = Parse(Joined(<<input.c, input.d>>, "AND"))
        /\ or = Parse(Joined(<<input.c, input.d, input.c>>, "OR"))
  OBVIOUS
<1>4. and = {{c}, {d}}
  BY <1>1, <1>2, <1>3, JoinedByAnd
<1>5. or = {{c, d}}
  BY <1>1, <1>2, <1>3, JoinedByOr
<1>6. c # Error /\ d # Error
  BY <1>2, NoPlainError
<1>7. IsFilter(and) /\ IsFilter(or)
  BY <1>4, <1>5, <1>6 DEF IsFilter
<1>8. ASSUME NEW meta
      PROVE  /\ Evaluate(and, meta) <=> Says(c, meta) /\ Says(d, meta)
             /\ Evaluate(or, meta) <=> Says(c, meta) \/ Says(d, meta)
  <2>1. Evaluate(and, meta) <=> EvaluateCondition(c, meta) /\ EvaluateCondition(d, meta)
    BY <1>4 DEF Evaluate
  <2>2. Evaluate(or, meta) <=> EvaluateCondition(c, meta) \/ EvaluateCondition(d, meta)
    BY <1>5 DEF Evaluate
  <2>3. (EvaluateCondition(c, meta) <=> Says(c, meta)) /\ (EvaluateCondition(d, meta) <=> Says(d, meta))
    BY <1>2, EvaluatesAsSaid
  <2>. QED
    BY <2>1, <2>2, <2>3
<1>. QED
  BY <1>1, <1>3, <1>7, <1>8 DEF JoinedMean

LEMMA CallsFilterInputOK ==
  ASSUME NEW inputs \in {VectorPairs, Filters, Fusions, Appends, Saves}, Call(inputs)
  PROVE  FilterInputOK'
<1>1. CASE inputs = VectorPairs
  <2>1. PICK n, p, r, x, y :
          input' = [kind |-> "vectors", a |-> Unit(n, p, x), b |-> Unit(n, r, y)]
    BY <1>1 DEF Call, VectorPairs
  <2>. QED
    BY <2>1 DEF FilterInputOK
<1>2. CASE inputs = Filters
  BY <1>2 DEF Call, Filters, FilterInputOK
<1>3. CASE inputs \in {Fusions, Appends, Saves}
  <2>1. /\ \A x \in Fusions : x.kind = "fusion"
        /\ \A x \in Appends : x.kind = "page"
        /\ \A x \in Saves : x.kind = "page"
    BY DEF Fusions, Appends, Saves
  <2>2. input'.kind \in {"fusion", "page"}
    BY <1>3, <2>1 DEF Call
  <2>. QED
    BY <2>2 DEF FilterInputOK
<1>. QED
  BY <1>1, <1>2, <1>3

\* Two plain conditions joined by AND or by OR are read as the conjunction or
\* the disjunction that is written, and hold of metadata exactly when it does,
\* for all fields, texts and quantities, when the quoted strings hold no
\* parenthesis without its partner, which find_and_or would count.
THEOREM PlainFiltersAlwaysMean ==
  AlgorithmsInit /\ [][AlgorithmsNext]_input => []PlainFiltersMean
<1>1. AlgorithmsInit => FilterInputOK
  BY DEF AlgorithmsInit, FilterInputOK, NoCall
<1>2. FilterInputOK /\ [AlgorithmsNext]_input => FilterInputOK'
  <2>. SUFFICES ASSUME FilterInputOK, [AlgorithmsNext]_input PROVE FilterInputOK'
    OBVIOUS
  <2>1. CASE AlgorithmsNext
    BY <2>1, CallsFilterInputOK DEF AlgorithmsNext
  <2>2. CASE UNCHANGED input
    BY <2>2 DEF FilterInputOK
  <2>. QED
    BY <2>1, <2>2
<1>3. FilterInputOK => PlainFiltersMean
  BY PlainFiltersHold
<1>. QED
  BY <1>1, <1>2, <1>3, PTL


-----------------------------------------------------------------------------
(* Pages of cells.  What is read is what was written last.                 *)

\* The writes of an image.
PointerTo == [at : Nat, len : Nat]
Ranges == [at : Nat, len : Nat, what : {Torn} \cup [cell : Nat] \cup PointerTo]

Overlap(r, at, len) == r.at < at + len /\ at < r.at + r.len

\* The bytes of a range in an image.
Latest(image, at, len) ==
  LET writes == {n \in DOMAIN image : Overlap(image[n], at, len)}
      last == image[Max(writes)]
  IN IF writes # {} /\ last.at = at /\ last.len = len THEN last.what ELSE Torn

LEMMA ReadIsLatest ==
  \A p, at, len : ReadBytes(p, at, len) = Latest(p.image, at, len)
BY DEF ReadBytes, Latest, Overlap

LEMMA LatestIs ==
  ASSUME NEW image \in Seq(Ranges), NEW r \in Ranges, NEW at \in Nat, NEW len \in Nat
  PROVE  /\ ~Overlap(r, at, len) =>
              Latest(Append(image, r), at, len) = Latest(image, at, len)
         /\ Overlap(r, at, len) /\ r.at = at /\ r.len = len =>
              Latest(Append(image, r), at, len) = r.what
<1>1. PICK n, J, A, B :
        /\ n = Len(image) /\ J = Append(image, r)
        /\ A = {i \in DOMAIN image : Overlap(image[i], at, len)}
        /\ B = {i \in DOMAIN J : Overlap(J[i], at, len)}
  OBVIOUS
<1>2. /\ n \in Nat /\ DOMAIN image = 1..n /\ DOMAIN J = 1..(n + 1) /\ J[n + 1] = r
      /\ \A i \in 1..n : J[i] = image[i]
  BY <1>1
<1>3. \A i : i \in 1..(n + 1) <=> i \in 1..n \/ i = n + 1
  BY <1>2
<1>4. CASE ~Overlap(r, at, len)
  <2>1. B = A
    BY <1>1, <1>2, <1>3, <1>4
  <2>2. A # {} => J[Max(A)] = image[Max(A)]
    <3>1. A # {} => Max(A) \in A
      <4>1. A \in SUBSET (1..n)
        BY <1>1, <1>2
      <4>. QED
        BY <1>2, <4>1, GreatestNumber
    <3>. QED
      BY <1>1, <1>2, <3>1
  <2>. QED
    BY <1>1, <1>4, <2>1, <2>2 DEF Latest
<1>5. CASE Overlap(r, at, len) /\ r.at = at /\ r.len = len
  <2>1. n + 1 \in B /\ \A y \in B : y <= n + 1
    BY <1>1, <1>2, <1>5
  <2>2. B \in SUBSET Int
    BY <1>1, <1>2
  <2>3. Max(B) = n + 1
    <3>1. PICK m : m = n + 1
      OBVIOUS
    <3>2. m \in B /\ \A y \in B : y <= m
      BY <2>1, <3>1
    <3>3. Max(B) = m
      BY <2>2, <3>2, MaxIs
    <3>. QED
      BY <3>1, <3>3
  <2>4. J[Max(B)] = r
    BY <1>2, <2>3
  <2>5. Latest(J, at, len) = IF B # {} /\ r.at = at /\ r.len = len THEN r.what ELSE Torn
    BY <1>1, <2>4 DEF Latest
  <2>. QED
    BY <1>1, <1>5, <2>1, <2>5
<1>. QED
  BY <1>4, <1>5

\* J is image and a write of r.
Writes(image, r, J) ==
  \A at, len \in Nat :
    /\ ~Overlap(r, at, len) => Latest(J, at, len) = Latest(image, at, len)
    /\ Overlap(r, at, len) /\ r.at = at /\ r.len = len => Latest(J, at, len) = r.what

LEMMA AppendWrites ==
  ASSUME NEW image \in Seq(Ranges), NEW r \in Ranges
  PROVE  Writes(image, r, Append(image, r))
BY LatestIs DEF Writes

\* The image after a call of write_cell.
WrittenTo(image, data, pointer, image2) ==
  image2 = Append(Append(Append(image, data), pointer), Header)

LEMMA WrittenImage ==
  ASSUME NEW image \in Seq(Ranges), NEW data \in Ranges, NEW pointer \in Ranges
  PROVE  WrittenTo(image, data, pointer, image \o <<data, pointer, Header>>)
<1>1. PICK h : h = Header
  OBVIOUS
<1>2. h \in Ranges
  BY <1>1, PageConstants DEF Header, Ranges
<1>3. image \o <<data, pointer, h>> = Append(Append(Append(image, data), pointer), h)
  BY <1>2
<1>. QED
  BY <1>1, <1>3 DEF WrittenTo

\* The pointers lie between the header and the data, side by side.
LEMMA PointersApart ==
  ASSUME NEW i \in 0..(MaxCells - 1)
  PROVE  /\ PointerAt(i) \in Nat /\ PointerAt(i) >= HeaderSize
         /\ PointerAt(i) + PointerSize <= DataStart /\ DataStart \in Nat
         /\ \A j \in 0..(MaxCells - 1) :
              /\ i < j => PointerAt(i) + PointerSize <= PointerAt(j)
              /\ j < i => PointerAt(j) + PointerSize <= PointerAt(i)
<1>1. PICK s, h, m : s = PointerSize /\ h = HeaderSize /\ m = MaxCells
  OBVIOUS
<1>2. s \in Nat /\ s >= 1 /\ h \in Nat /\ m \in Nat /\ i \in Nat /\ i + 1 <= m
  BY <1>1, PageConstants
<1>3. \A a, b \in Nat : a + 1 <= b => a * s + s <= b * s
  <2>. SUFFICES ASSUME NEW a \in Nat, NEW b \in Nat, a + 1 <= b PROVE a * s + s <= b * s
    OBVIOUS
  <2>1. PICK e \in Nat : b = a + 1 + e
    <3>1. b - a - 1 \in Nat /\ b = a + 1 + (b - a - 1)
      OBVIOUS
    <3>. QED
      BY <3>1
  <2>2. b * s = a * s + s + e * s
    BY <1>2, <2>1
  <2>3. e * s \in Nat /\ a * s \in Nat
    BY <1>2
  <2>. QED
    BY <1>2, <2>2, <2>3
<1>4. \A a \in Nat : a * s \in Nat
  BY <1>2
<1>5. i * s + s <= m * s /\ i * s \in Nat /\ m * s \in Nat
  BY <1>2, <1>3, <1>4
<1>6. \A j \in Nat : PointerAt(j) = h + j * s
  BY <1>1 DEF PointerAt
<1>7. DataStart = h + m * s
  BY <1>1 DEF DataStart
<1>8. ASSUME NEW j \in 0..(MaxCells - 1)
      PROVE  /\ i < j => PointerAt(i) + s <= PointerAt(j)
             /\ j < i => PointerAt(j) + s <= PointerAt(i)
  <2>1. j \in Nat /\ j * s \in Nat
    BY <1>1, <1>2, <1>4
  <2>2. (i < j => i * s + s <= j * s) /\ (j < i => j * s + s <= i * s)
    <3>1. (i < j => i + 1 <= j) /\ (j < i => j + 1 <= i)
      BY <1>2, <2>1
    <3>. QED
      BY <1>2, <1>3, <2>1, <3>1
  <2>3. PointerAt(i) = h + i * s /\ PointerAt(j) = h + j * s
    BY <1>2, <1>6, <2>1
  <2>. QED
    BY <1>2, <1>5, <2>1, <2>2, <2>3
<1>9. PointerAt(i) = h + i * s
  BY <1>2, <1>6
<1>. QED
  BY <1>1, <1>2, <1>5, <1>7, <1>8, <1>9

\* What a write leaves in an image: the cell and its pointer are read back, and
\* so is everything else in the data before it and in the other pointers.
Keeps(image, image2, free, len, w, i) ==
  /\ Latest(image2, free, len) = w
  /\ \A at, l \in Nat : DataStart <= at /\ at + l <= free =>
       Latest(image2, at, l) = Latest(image, at, l)
  /\ Latest(image2, PointerAt(i), PointerSize) = [at |-> free, len |-> len]
  /\ \A j \in 0..(MaxCells - 1) : j # i =>
       Latest(image2, PointerAt(j), PointerSize) = Latest(image, PointerAt(j), PointerSize)

LEMMA WriteKeeps ==
  ASSUME NEW image \in Seq(Ranges), NEW free \in Nat, DataStart <= free,
         NEW len \in Nat, len >= 1, NEW w \in [cell : Nat], NEW i \in 0..(MaxCells - 1),
         NEW data, data = [at |-> free, len |-> len, what |-> w],
         NEW pointer, pointer = [at |-> PointerAt(i), len |-> PointerSize,
                                 what |-> [at |-> free, len |-> len]],
         NEW image2, image2 = image \o <<data, pointer, Header>>
  PROVE  image2 \in Seq(Ranges) /\ Keeps(image, image2, free, len, w, i)
<1>1. PICK s, d, b, h : s = PointerSize /\ d = DataStart /\ b = PointerAt(i) /\ h = HeaderSize
  OBVIOUS
<1>2. /\ s \in Nat /\ s >= 1 /\ d \in Nat /\ b \in Nat /\ h \in Nat
      /\ h <= b /\ b + s <= d /\ d <= free
  BY <1>1, PageConstants, PointersApart
<1>3. /\ data \in Ranges /\ pointer \in Ranges /\ Header \in Ranges
  BY <1>1, <1>2 DEF Ranges, PointerTo, Header
<1>4. PICK I1, I2 : I1 = Append(image, data) /\ I2 = Append(I1, pointer)
  OBVIOUS
<1>5. I1 \in Seq(Ranges) /\ I2 \in Seq(Ranges) /\ image2 = Append(I2, Header) /\ image2 \in Seq(Ranges)
  <2>1. I1 \in Seq(Ranges)
    BY <1>3, <1>4
  <2>2. I2 \in Seq(Ranges)
    BY <1>3, <1>4, <2>1
  <2>3. WrittenTo(image, data, pointer, image2)
    BY <1>3, WrittenImage
  <2>4. image2 = Append(I2, Header)
    BY <1>4, <2>3 DEF WrittenTo
  <2>. QED
    BY <1>3, <2>1, <2>2, <2>4
<1>15. Writes(image, data, I1) /\ Writes(I1, pointer, I2) /\ Writes(I2, Header, image2)
  BY <1>3, <1>4, <1>5, AppendWrites
<1>6. ASSUME NEW at \in Nat, NEW l \in Nat, h <= at
      PROVE  Latest(image2, at, l) = Latest(I2, at, l)
  <2>1. ~Overlap(Header, at, l)
    BY <1>1, <1>2, <1>6 DEF Overlap, Header
  <2>. QED
    BY <1>15, <2>1 DEF Writes
<1>7. ASSUME NEW at \in Nat, NEW l \in Nat, b + s <= at \/ at + l <= b
      PROVE  Latest(I2, at, l) = Latest(I1, at, l)
  <2>1. ~Overlap(pointer, at, l)
    BY <1>1, <1>2, <1>7 DEF Overlap
  <2>. QED
    BY <1>15, <2>1 DEF Writes
<1>8. ASSUME NEW at \in Nat, NEW l \in Nat, at + l <= free
      PROVE  Latest(I1, at, l) = Latest(image, at, l)
  <2>1. ~Overlap(data, at, l)
    BY <1>8 DEF Overlap
  <2>. QED
    BY <1>15, <2>1 DEF Writes
<1>9. Latest(I1, free, len) = w
  <2>1. Overlap(data, free, len) /\ data.at = free /\ data.len = len /\ data.what = w
    BY DEF Overlap
  <2>. QED
    BY <1>15, <2>1 DEF Writes
<1>10. Latest(I2, b, s) = [at |-> free, len |-> len]
  <2>1. Overlap(pointer, b, s) /\ pointer.at = b /\ pointer.len = s
    BY <1>1, <1>2 DEF Overlap
  <2>2. Latest(I2, b, s) = pointer.what
    BY <1>2, <1>15, <2>1 DEF Writes
  <2>3. pointer.what = [at |-> free, len |-> len]
    OBVIOUS
  <2>. QED
    BY <2>2, <2>3
<1>11. Latest(image2, free, len) = w
  <2>1. h <= free /\ b + s <= free
    BY <1>2
  <2>2. Latest(image2, free, len) = Latest(I2, free, len)
    BY <1>6, <2>1
  <2>3. Latest(I2, free, len) = Latest(I1, free, len)
    BY <1>7, <2>1
  <2>. QED
    BY <1>9, <2>2, <2>3
<1>12. ASSUME NEW at \in Nat, NEW l \in Nat, d <= at, at + l <= free
       PROVE  Latest(image2, at, l) = Latest(image, at, l)
  <2>1. h <= at /\ b + s <= at
    BY <1>2, <1>12
  <2>2. Latest(image2, at, l) = Latest(I2, at, l)
    BY <1>6, <2>1
  <2>3. Latest(I2, at, l) = Latest(I1, at, l)
    BY <1>7, <2>1
  <2>4. Latest(I1, at, l) = Latest(image, at, l)
    BY <1>8, <1>12
  <2>. QED
    BY <2>2, <2>3, <2>4
<1>13. Latest(image2, b, s) = [at |-> free, len |-> len]
  BY <1>2, <1>6, <1>10
<1>14. ASSUME NEW j \in 0..(MaxCells - 1), j # i
       PROVE  Latest(image2, PointerAt(j), s) = Latest(image, PointerAt(j), s)
  <2>1. PICK at : at = PointerAt(j)
    OBVIOUS
  <2>2. at \in Nat /\ h <= at /\ at + s <= d
    BY <1>1, <2>1, PointersApart
  <2>3. b + s <= at \/ at + s <= b
    <3>1. i < j \/ j < i
      BY <1>14, PageConstants
    <3>. QED
      BY <1>1, <2>1, <3>1, PointersApart
  <2>4. at + s <= free
    BY <1>2, <2>2
  <2>5. Latest(image2, at, s) = Latest(I2, at, s)
    BY <1>2, <1>6, <2>2
  <2>6. Latest(I2, at, s) = Latest(I1, at, s)
    BY <1>2, <1>7, <2>2, <2>3
  <2>7. Latest(I1, at, s) = Latest(image, at, s)
    BY <1>2, <1>8, <2>2, <2>4
  <2>. QED
    BY <2>1, <2>5, <2>6, <2>7
<1>. QED
  BY <1>1, <1>5, <1>11, <1>12, <1>13, <1>14 DEF Keeps

-----------------------------------------------------------------------------
(* The bytes of a set of cells.                                            *)

\* g[S] is the sum of L over S, whichever element is taken first.
SumsSets(g, n, L) ==
  /\ g[{}] = 0
  /\ \A S \in SUBSET (1..n) : g[S] \in Nat /\ \A x \in S : g[S] = g[S \ {x}] + L[x]

LEMMA SetSumsExist ==
  ASSUME NEW n \in Nat, NEW L \in [1..n -> Nat]
  PROVE  \E g : SumsSets(g, n, L)
<1>. DEFINE G == [p \in (1..n) \X Nat |-> p[2] + L[p[1]]]
<1>1. ASSUME NEW i \in 1..n, NEW x \in Nat
      PROVE  G[<<i, x>>] = x + L[i] /\ G[<<i, x>>] \in Nat
  <2>1. L[i] \in Nat
    OBVIOUS
  <2>. QED
    BY <2>1
<1>2. PICK g : Follows(g, n, Nat, 0, G)
  <2>1. 0 \in Nat
    OBVIOUS
  <2>. HIDE DEF G
  <2>. QED
    BY <1>1, <2>1, FoldExists
<1>3. g[{}] = 0
  BY <1>2 DEF Follows
<1>4. ASSUME NEW S \in SUBSET (1..n), S # {}
      PROVE  Max(S) \in 1..n /\ g[S \ {Max(S)}] \in Nat /\ g[S] = g[S \ {Max(S)}] + L[Max(S)]
  <2>1. PICK m, x : m = Max(S) /\ x = g[S \ {m}]
    OBVIOUS
  <2>2. m \in 1..n /\ x \in Nat /\ g[S] = G[<<m, x>>]
    <3>. HIDE DEF G
    <3>. QED
      BY <1>2, <1>4, <2>1 DEF Follows
  <2>3. g[S] = x + L[m]
    <3>. HIDE DEF G
    <3>. QED
      BY <1>1, <2>2
  <2>. QED
    BY <2>1, <2>2, <2>3
<1>5. \A S \in SUBSET (1..n) : g[S] \in Nat
  <2>. SUFFICES ASSUME NEW S \in SUBSET (1..n) PROVE g[S] \in Nat
    OBVIOUS
  <2>1. CASE S = {}
    BY <1>3, <2>1
  <2>2. CASE S # {}
    <3>1. PICK m, x : m = Max(S) /\ x = g[S \ {m}]
      OBVIOUS
    <3>2. m \in 1..n /\ x \in Nat /\ g[S] = x + L[m]
      BY <1>4, <2>2, <3>1
    <3>3. L[m] \in Nat
      BY <3>2
    <3>. QED
      BY <3>2, <3>3
  <2>. QED
    BY <2>1, <2>2
<1>. DEFINE AnyOf(m) == \A S \in SUBSET (1..m) : \A x \in S : g[S] = g[S \ {x}] + L[x]
            P == {m \in 0..n : AnyOf(m)}
<1>6. 0 \in P
  OBVIOUS
<1>7. ASSUME NEW m \in 1..n, m - 1 \in P PROVE m \in P
  <2>0. m \in 0..n
    OBVIOUS
  <2>. SUFFICES ASSUME NEW S \in SUBSET (1..m), NEW x \in S PROVE g[S] = g[S \ {x}] + L[x]
    BY <2>0
  <2>1. CASE m \notin S
    <3>1. S \in SUBSET (1..(m - 1))
      BY <2>1
    <3>2. AnyOf(m - 1)
      BY <1>7
    <3>. QED
      BY <3>1, <3>2
  <2>2. CASE m \in S /\ x = m
    <3>1. Max(S) = m
      <4>1. S \in SUBSET Int /\ \A y \in S : y <= m
        OBVIOUS
      <4>. QED
        BY <2>2, <4>1, MaxIs
    <3>2. S \in SUBSET (1..n) /\ S # {}
      OBVIOUS
    <3>. QED
      BY <1>4, <2>2, <3>1, <3>2
  <2>3. CASE m \in S /\ x # m
    <3>1. PICK R, Q, U : R = S \ {m} /\ Q = S \ {x} /\ U = Q \ {m}
      OBVIOUS
    <3>2. /\ R \in SUBSET (1..(m - 1)) /\ x \in R /\ R \ {x} = U /\ m \in Q
          /\ S \in SUBSET (1..n) /\ R \in SUBSET (1..n)
          /\ Q \in SUBSET (1..n) /\ U \in SUBSET (1..n)
          /\ \A y \in S : y <= m
          /\ \A y \in Q : y <= m
      BY <2>3, <3>1
    <3>3. Max(S) = m /\ Max(Q) = m
      <4>1. S \in SUBSET Int /\ Q \in SUBSET Int
        BY <3>2
      <4>. QED
        BY <2>3, <3>2, <4>1, MaxIs
    <3>4. g[S] = g[R] + L[m] /\ g[Q] = g[U] + L[m]
      <4>1. S # {} /\ Q # {}
        BY <3>2
      <4>. QED
        BY <1>4, <3>1, <3>2, <3>3, <4>1
    <3>5. g[R] = g[U] + L[x]
      <4>1. AnyOf(m - 1)
        BY <1>7
      <4>. QED
        BY <3>2, <4>1
    <3>6. g[U] \in Nat /\ L[x] \in Nat /\ L[m] \in Nat
      <4>1. x \in 1..n
        BY <3>2
      <4>. QED
        BY <1>5, <3>2, <4>1
    <3>7. g[S] = g[Q] + L[x]
      BY <3>4, <3>5, <3>6
    <3>. QED
      BY <3>1, <3>7
  <2>. QED
    BY <2>1, <2>2, <2>3
<1>8. AnyOf(n)
  <2>1. \A m \in 0..n : m \in P
    <3>. HIDE DEF P
    <3>. QED
      BY <1>6, <1>7, Upwards
  <2>2. n \in 0..n
    OBVIOUS
  <2>. QED
    BY <2>1, <2>2
<1>9. SumsSets(g, n, L)
  BY <1>3, <1>5, <1>8 DEF SumsSets
<1>. QED
  BY <1>9

LEMMA CountUpTo ==
  ASSUME NEW n \in Nat
  PROVE  IsFiniteSet(1..n) /\ Cardinality(1..n) = n
BY FS_Interval

\* The writes of a page: of cells that are not empty.
Calls == [len : Nat \ {0}, index : Nat \cup {NoIndex}]

BytesIn(writes, S) == MapThenSumSet(LAMBDA k : writes[k].len, S)

LEMMA SumSetIs ==
  ASSUME NEW writes \in Seq(Calls), NEW n, n = Len(writes), NEW L,
         L = [k \in 1..n |-> writes[k].len], NEW g, SumsSets(g, n, L),
         NEW S \in SUBSET (1..n)
  PROVE  BytesIn(writes, S) = g[S]
<1>. DEFINE Lit(f) == f = [s \in SUBSET S |->
                IF s = {} THEN 0
                ELSE writes[CHOOSE x \in s : TRUE].len + f[s \ {CHOOSE x \in s : TRUE}]]
<1>1. /\ n \in Nat /\ g[{}] = 0
      /\ \A s \in SUBSET (1..n) : g[s] \in Nat /\ \A x \in s : g[s] = g[s \ {x}] + L[x]
      /\ \A k \in 1..n : L[k] = writes[k].len /\ L[k] \in Nat
  <2>1. n \in Nat
    OBVIOUS
  <2>2. ASSUME NEW k \in 1..n PROVE L[k] = writes[k].len /\ L[k] \in Nat
    <3>1. writes[k] \in Calls
      BY <2>1
    <3>2. writes[k].len \in Nat
      BY <3>1 DEF Calls
    <3>. QED
      BY <3>2
  <2>3. /\ g[{}] = 0
        /\ \A s \in SUBSET (1..n) : g[s] \in Nat /\ \A x \in s : g[s] = g[s \ {x}] + L[x]
    BY DEF SumsSets
  <2>. QED
    BY <2>1, <2>2, <2>3
<1>2. PICK q : q = [s \in SUBSET S |-> g[s]]
  OBVIOUS
<1>3. ASSUME NEW s \in SUBSET S, s # {}, NEW x, x = CHOOSE y \in s : TRUE
      PROVE  x \in s /\ s \ {x} \in SUBSET S /\ g[s] = writes[x].len + g[s \ {x}]
  <2>1. x \in s
    BY <1>3
  <2>2. s \in SUBSET (1..n) /\ x \in 1..n /\ s \ {x} \in SUBSET (1..n)
    BY <2>1
  <2>3. g[s] = g[s \ {x}] + L[x] /\ g[s \ {x}] \in Nat /\ L[x] \in Nat /\ L[x] = writes[x].len
    BY <1>1, <2>1, <2>2
  <2>. QED
    BY <2>1, <2>3
<1>4. Lit(q)
  <2>1. ASSUME NEW s \in SUBSET S
        PROVE  q[s] = IF s = {} THEN 0
                      ELSE writes[CHOOSE x \in s : TRUE].len + q[s \ {CHOOSE x \in s : TRUE}]
    <3>1. PICK x : x = CHOOSE y \in s : TRUE
      OBVIOUS
    <3>2. CASE s = {}
      BY <1>1, <1>2, <3>2
    <3>3. CASE s # {}
      <4>1. s \ {x} \in SUBSET S /\ g[s] = writes[x].len + g[s \ {x}]
        BY <1>3, <3>1, <3>3
      <4>2. q[s] = g[s] /\ q[s \ {x}] = g[s \ {x}]
        BY <1>2, <4>1
      <4>. QED
        BY <3>1, <3>3, <4>1, <4>2
    <3>. QED
      BY <3>2, <3>3
  <2>2. q = [s \in SUBSET S |-> q[s]]
    BY <1>2
  <2>. QED
    BY <2>1, <2>2
<1>5. PICK f : f = CHOOSE h : Lit(h)
  OBVIOUS
<1>6. Lit(f)
  <2>. HIDE DEF Lit
  <2>. QED
    BY <1>4, <1>5
<1>7. BytesIn(writes, S) = f[S]
  BY <1>5 DEF BytesIn, MapThenSumSet, MapThenFoldSet
<1>8. ASSUME NEW s \in SUBSET S
      PROVE  f[s] = IF s = {} THEN 0
                    ELSE writes[CHOOSE x \in s : TRUE].len + f[s \ {CHOOSE x \in s : TRUE}]
  BY <1>6
<1>. DEFINE Same(k) == \A s \in SUBSET S : Cardinality(s) = k => f[s] = g[s]
            P == {k \in 0..n : Same(k)}
<1>9. \A s \in SUBSET S : IsFiniteSet(s) /\ Cardinality(s) \in 0..n
  <2>. SUFFICES ASSUME NEW s \in SUBSET S PROVE IsFiniteSet(s) /\ Cardinality(s) \in 0..n
    OBVIOUS
  <2>0. n \in Nat
    BY <1>1
  <2>1. IsFiniteSet(1..n) /\ Cardinality(1..n) = n
    BY <2>0, CountUpTo
  <2>2. IsFiniteSet(s) /\ Cardinality(s) <= n
    <3>1. s \in SUBSET (1..n)
      OBVIOUS
    <3>. QED
      BY <2>1, <3>1, FS_Subset
  <2>3. Cardinality(s) \in Nat
    BY <2>2, FS_CardinalityType
  <2>. QED
    BY <1>1, <2>2, <2>3
<1>10. 0 \in P
  <2>1. ASSUME NEW s \in SUBSET S, Cardinality(s) = 0 PROVE f[s] = g[s]
    <3>1. s = {}
      BY <1>9, <2>1, FS_EmptySet
    <3>. QED
      BY <1>1, <1>8, <3>1
  <2>. QED
    BY <1>1, <2>1
<1>11. ASSUME NEW k \in 1..n, k - 1 \in P PROVE k \in P
  <2>0. k \in 0..n
    BY <1>1
  <2>. SUFFICES ASSUME NEW s \in SUBSET S, Cardinality(s) = k PROVE f[s] = g[s]
    BY <2>0
  <2>1. s # {}
    <3>1. Cardinality({}) = 0 /\ k # 0
      BY FS_EmptySet
    <3>. QED
      BY <3>1
  <2>2. PICK x : x = CHOOSE y \in s : TRUE
    OBVIOUS
  <2>3. x \in s /\ s \ {x} \in SUBSET S /\ g[s] = writes[x].len + g[s \ {x}]
    BY <1>3, <2>1, <2>2
  <2>4. Cardinality(s \ {x}) = k - 1
    <3>1. IsFiniteSet(s)
      BY <1>9
    <3>. QED
      BY <2>3, <3>1, FS_RemoveElement
  <2>5. f[s \ {x}] = g[s \ {x}]
    <3>1. Same(k - 1)
      BY <1>11
    <3>. QED
      BY <2>3, <2>4, <3>1
  <2>6. f[s] = writes[x].len + f[s \ {x}]
    BY <1>8, <2>1, <2>2
  <2>. QED
    BY <2>3, <2>5, <2>6
<1>12. f[S] = g[S]
  <2>1. \A k \in 0..n : k \in P
    <3>. HIDE DEF P
    <3>. QED
      BY <1>1, <1>10, <1>11, Upwards
  <2>2. PICK k : k = Cardinality(S)
    OBVIOUS
  <2>3. k \in 0..n
    BY <1>9, <2>2
  <2>4. Same(k)
    BY <2>1, <2>3
  <2>. QED
    BY <2>2, <2>4
<1>. QED
  BY <1>7, <1>12

-----------------------------------------------------------------------------
(* The calls of write_cell, one after the other.                           *)

Outcomes == {"written", "panic", "full"}
Pages == [size : Nat, free : Nat, cells : Nat, image : Seq(Ranges)]

IndexIn(p, c) == IF c.index = NoIndex THEN p.cells ELSE c.index

\* What a call does.
Called(p, c, k, page, result) ==
  /\ page \in Pages /\ result \in Outcomes
  /\ result = "written" <=> HasRoom(p, Cast(c.len)) /\ ~Panics(p, c.len)
  /\ result # "written" => page = p
  /\ result = "written" =>
       /\ page.size = p.size /\ page.free = p.free + c.len
       /\ page.cells = IF c.index = NoIndex THEN p.cells + 1 ELSE p.cells
       /\ page.image = p.image \o <<[at |-> p.free, len |-> c.len, what |-> [cell |-> k]],
                                    [at |-> PointerAt(IndexIn(p, c)), len |-> PointerSize,
                                     what |-> [at |-> p.free, len |-> c.len]],
                                    Header>>

LEMMA WriteCellIs ==
  ASSUME NEW p \in Pages, NEW c \in Calls, NEW k \in Nat, NEW call,
         call = WriteCell(p, c.len, c.index, [cell |-> k])
  PROVE  Called(p, c, k, call.page, call.result)
<1>1. PICK len, index, i, data, pointer, image :
        /\ len = c.len /\ index = c.index /\ i = IndexIn(p, c)
        /\ data = [at |-> p.free, len |-> len, what |-> [cell |-> k]]
        /\ pointer = [at |-> PointerAt(i), len |-> PointerSize,
                      what |-> [at |-> p.free, len |-> len]]
        /\ image = p.image \o <<data, pointer, Header>>
  OBVIOUS
<1>2. /\ len \in Nat /\ i \in Nat /\ p.free \in Nat /\ p.cells \in Nat /\ p.size \in Nat
      /\ p.image \in Seq(Ranges)
  BY <1>1 DEF Pages, Calls, IndexIn
<1>3. image \in Seq(Ranges)
  <2>1. PointerAt(i) \in Nat
    BY <1>2, PageConstants DEF PointerAt
  <2>2. data \in Ranges /\ pointer \in Ranges /\ Header \in Ranges
    BY <1>1, <1>2, <2>1, PageConstants DEF Ranges, PointerTo, Header
  <2>. QED
    BY <1>1, <1>2, <2>2
<1>4. PICK page : page = [size |-> p.size, free |-> p.free + len,
                          cells |-> IF index = NoIndex THEN p.cells + 1 ELSE p.cells,
                          image |-> image]
  OBVIOUS
<1>5. page \in Pages
  <2>1. p.free + len \in Nat /\ (IF index = NoIndex THEN p.cells + 1 ELSE p.cells) \in Nat
    BY <1>2
  <2>. QED
    BY <1>2, <1>3, <1>4, <2>1 DEF Pages
<1>6. call = IF ~HasRoom(p, Cast(len)) THEN [result |-> "full", page |-> p]
             ELSE IF Panics(p, len) THEN [result |-> "panic", page |-> p]
             ELSE [result |-> "written", page |-> page]
  BY <1>1, <1>4 DEF WriteCell, CellStart, IndexIn
<1>7. CASE ~HasRoom(p, Cast(len))
  <2>1. call.page = p /\ call.result = "full"
    <3>1. call = [result |-> "full", page |-> p]
      BY <1>6, <1>7, Zenon
    <3>. QED
      BY <3>1
  <2>. QED
    BY <1>1, <1>7, <2>1 DEF Called, Outcomes
<1>8. CASE HasRoom(p, Cast(len)) /\ Panics(p, len)
  <2>1. call.page = p /\ call.result = "panic"
    BY <1>6, <1>8
  <2>. QED
    BY <1>1, <1>8, <2>1 DEF Called, Outcomes
<1>9. CASE HasRoom(p, Cast(len)) /\ ~Panics(p, len)
  <2>1. call.page = page /\ call.result = "written"
    BY <1>6, <1>9
  <2>2. /\ page.size = p.size /\ page.free = p.free + len /\ page.image = image
        /\ page.cells = IF index = NoIndex THEN p.cells + 1 ELSE p.cells
    BY <1>4
  <2>. QED
    BY <1>1, <1>5, <1>9, <2>1, <2>2 DEF Called, Outcomes
<1>. QED
  BY <1>7, <1>8, <1>9

Results == [page : Pages, results : Seq(Outcomes)]

\* The page and the results after call k, from those before it.
NextWrite(r, k) ==
  [page |-> WriteCell(r.page, input.writes[k].len, input.writes[k].index,
                      [cell |-> k]).page,
   results |-> Append(r.results,
                      WriteCell(r.page, input.writes[k].len, input.writes[k].index,
                                [cell |-> k]).result)]

FirstWrite == [page |-> NewPage(input.size), results |-> <<>>]

PageInput == /\ input.writes \in Seq(Calls) /\ input.size \in Nat
             /\ \/ \A k \in DOMAIN input.writes : input.writes[k].index = NoIndex
                \/ \A k \in DOMAIN input.writes : input.writes[k].index # NoIndex

\* R[i] is what there is after i calls.
Calling(R, n) ==
  /\ R \in [0..n -> Results] /\ R[0] = FirstWrite
  /\ \A k \in 1..n : R[k] = NextWrite(R[k - 1], k)

LEMMA NextWriteTyped ==
  ASSUME PageInput, NEW k \in 1..Len(input.writes), NEW r \in Results
  PROVE  NextWrite(r, k) \in Results
<1>1. PICK p, c, call :
        /\ p = r.page /\ c = input.writes[k] /\ call = WriteCell(p, c.len, c.index, [cell |-> k])
  OBVIOUS
<1>2. p \in Pages /\ c \in Calls /\ k \in Nat /\ r.results \in Seq(Outcomes)
  <2>1. input.writes \in Seq(Calls)
    BY DEF PageInput
  <2>2. c \in Calls /\ k \in Nat
    BY <1>1, <2>1
  <2>. QED
    BY <1>1, <2>2 DEF Results
<1>3. call.page \in Pages /\ call.result \in Outcomes
  BY <1>1, <1>2, WriteCellIs DEF Called
<1>4. Append(r.results, call.result) \in Seq(Outcomes)
  BY <1>2, <1>3
<1>5. NextWrite(r, k) = [page |-> call.page, results |-> Append(r.results, call.result)]
  BY <1>1 DEF NextWrite
<1>. QED
  BY <1>3, <1>4, <1>5 DEF Results

LEMMA FirstWriteTyped ==
  ASSUME PageInput
  PROVE  FirstWrite \in Results
<1>1. PICK h, p : h = Header /\ p = NewPage(input.size)
  OBVIOUS
<1>2. h \in Ranges
  BY <1>1, PageConstants DEF Header, Ranges
<1>3. DataStart \in Nat
  BY PageConstants DEF DataStart
<1>4. <<h>> \in Seq(Ranges)
  BY <1>2
<1>5. p \in Pages
  BY <1>1, <1>3, <1>4 DEF NewPage, Pages, PageInput
<1>. QED
  BY <1>1, <1>5 DEF FirstWrite, Results

WritesEnd(r, n) == \E R : Calling(R, n) /\ r = R[n]

LEMMA AfterWritesIs ==
  ASSUME PageInput
  PROVE  WritesEnd(AfterWrites, Len(input.writes))
<1>. DEFINE n == Len(input.writes)
            G == [p \in (1..n) \X Results |-> NextWrite(p[2], p[1])]
            order == [k \in DOMAIN input.writes |-> k]
            Lit(h) == h = [S \in SUBSET DOMAIN order |->
                        IF S = {} THEN FirstWrite
                        ELSE NextWrite(h[S \ {Max(S)}], order[Max(S)])]
<1>1. n \in Nat /\ DOMAIN input.writes = 1..n
  BY DEF PageInput
<1>2. DOMAIN order = 1..n /\ \A k \in 1..n : order[k] = k
  BY <1>1
<1>3. ASSUME NEW i \in 1..n, NEW x \in Results
      PROVE  G[<<i, x>>] = NextWrite(x, i) /\ G[<<i, x>>] \in Results
  BY NextWriteTyped
<1>4. FirstWrite \in Results
  BY FirstWriteTyped
<1>5. PICK h : Follows(h, n, Results, FirstWrite, G)
  <2>. HIDE DEF G, n
  <2>. QED
    BY <1>1, <1>3, <1>4, FoldExists
<1>6. Lit(h)
  <2>1. ASSUME NEW S \in SUBSET (1..n)
        PROVE  h[S] = IF S = {} THEN FirstWrite ELSE NextWrite(h[S \ {Max(S)}], order[Max(S)])
    <3>1. CASE S = {}
      BY <1>5, <3>1 DEF Follows
    <3>2. CASE S # {}
      <4>1. PICK m, x : m = Max(S) /\ x = h[S \ {m}]
        OBVIOUS
      <4>2. m \in 1..n /\ x \in Results /\ h[S] = G[<<m, x>>]
        <5>. HIDE DEF G, n
        <5>. QED
          BY <1>5, <3>2, <4>1 DEF Follows
      <4>3. h[S] = NextWrite(x, m)
        <5>. HIDE DEF G, n
        <5>. QED
          BY <1>3, <4>2
      <4>4. order[m] = m
        <5>. HIDE DEF order, n
        <5>. QED
          BY <1>2, <4>2
      <4>. HIDE DEF order, n
      <4>. QED
        BY <3>2, <4>1, <4>3, <4>4
    <3>. QED
      BY <3>1, <3>2
  <2>2. h = [S \in SUBSET (1..n) |-> h[S]]
    BY <1>5 DEF Follows
  <2>. HIDE DEF n, order
  <2>. QED
    BY <1>2, <2>1, <2>2
<1>7. PICK f : f = CHOOSE g : Lit(g)
  OBVIOUS
<1>8. Lit(f)
  <2>. HIDE DEF Lit
  <2>. QED
    BY <1>6, <1>7
<1>9. AfterWrites = f[1..n]
  <2>1. AfterWrites = f[DOMAIN order]
    BY <1>7 DEF AfterWrites, FoldLeft, MapThenFoldSet, NextWrite, FirstWrite
  <2>. HIDE DEF order, n
  <2>. QED
    BY <1>2, <2>1
<1>10. Upto(f, 0) = FirstWrite
  <2>1. 1..0 = {} /\ {} \in SUBSET DOMAIN order
    OBVIOUS
  <2>2. f[{}] = FirstWrite
    <3>. HIDE DEF order
    <3>. QED
      BY <1>8, <2>1
  <2>. QED
    BY <2>1, <2>2 DEF Upto
<1>11. ASSUME NEW i \in 1..n PROVE Upto(f, i) = NextWrite(Upto(f, i - 1), i)
  <2>1. PICK S, R, m : S = 1..i /\ R = 1..(i - 1) /\ m = Max(S)
    OBVIOUS
  <2>2. S # {} /\ m = i /\ S \ {i} = R
    BY <2>1, UptoNext
  <2>3. S \in SUBSET DOMAIN order
    <3>. HIDE DEF order
    <3>. QED
      BY <1>1, <1>2, <2>1
  <2>4. f[S] = IF S = {} THEN FirstWrite ELSE NextWrite(f[S \ {Max(S)}], order[Max(S)])
    <3>. HIDE DEF order
    <3>. QED
      BY <1>8, <2>3
  <2>5. f[S] = NextWrite(f[S \ {m}], order[m])
    <3>. HIDE DEF order
    <3>. QED
      BY <2>1, <2>2, <2>4
  <2>6. f[S] = NextWrite(f[R], i)
    <3>. HIDE DEF order
    <3>. QED
      BY <1>2, <2>2, <2>5
  <2>. QED
    BY <2>1, <2>6 DEF Upto
<1>12. \A i \in 0..n : Upto(f, i) \in Results
  <2>. DEFINE P == {i \in 0..n : Upto(f, i) \in Results}
  <2>1. 0 \in P
    BY <1>1, <1>4, <1>10
  <2>2. ASSUME NEW i \in 1..n, i - 1 \in P PROVE i \in P
    <3>1. PICK x : x = Upto(f, i - 1)
      OBVIOUS
    <3>2. x \in Results /\ i \in 0..n
      BY <1>1, <2>2, <3>1
    <3>3. NextWrite(x, i) \in Results
      BY <3>2, NextWriteTyped
    <3>. QED
      BY <1>11, <3>1, <3>2, <3>3
  <2>3. \A i \in 0..n : i \in P
    <3>. HIDE DEF P, n
    <3>. QED
      BY <1>1, <2>1, <2>2, Upwards
  <2>. QED
    BY <2>3
<1>13. PICK R : R = [i \in 0..n |-> Upto(f, i)]
  OBVIOUS
<1>14. Calling(R, n)
  <2>1. R \in [0..n -> Results] /\ R[0] = FirstWrite
    BY <1>1, <1>10, <1>12, <1>13
  <2>2. \A k \in 1..n : k - 1 \in 0..n /\ k \in 0..n
    BY <1>1
  <2>3. \A k \in 1..n : R[k] = NextWrite(R[k - 1], k)
    BY <1>11, <1>13, <2>2
  <2>. QED
    BY <2>1, <2>3 DEF Calling
<1>15. R[n] = Upto(f, n)
  BY <1>1, <1>13
<1>. QED
  BY <1>9, <1>14, <1>15 DEF Upto, WritesEnd


\* The pages before and after each call, and the results.
Made(P, results, n) ==
  /\ P \in [0..n -> Pages] /\ P[0] = NewPage(input.size)
  /\ results \in Seq(Outcomes) /\ Len(results) = n
  /\ \A k \in 1..n : Called(P[k - 1], input.writes[k], k, P[k], results[k])

LEMMA NextWriteIs ==
  ASSUME PageInput, NEW k \in 1..Len(input.writes), NEW r \in Results,
         NEW s, s = NextWrite(r, k), NEW x, x = s.results[Len(r.results) + 1]
  PROVE  /\ Called(r.page, input.writes[k], k, s.page, x)
         /\ s.results = Append(r.results, x) /\ x \in Outcomes
<1>1. PICK p, c, call :
        /\ p = r.page /\ c = input.writes[k] /\ call = WriteCell(p, c.len, c.index, [cell |-> k])
  OBVIOUS
<1>2. p \in Pages /\ c \in Calls /\ k \in Nat /\ r.results \in Seq(Outcomes)
  <2>1. input.writes \in Seq(Calls)
    BY DEF PageInput
  <2>2. c \in Calls /\ k \in Nat
    BY <1>1, <2>1
  <2>. QED
    BY <1>1, <2>2 DEF Results
<1>3. Called(p, c, k, call.page, call.result)
  BY <1>1, <1>2, WriteCellIs
<1>4. call.result \in Outcomes
  BY <1>3 DEF Called
<1>5. s = [page |-> call.page, results |-> Append(r.results, call.result)]
  BY <1>1 DEF NextWrite
<1>6. s.page = call.page /\ s.results = Append(r.results, call.result)
  BY <1>5
<1>7. x = call.result
  BY <1>2, <1>4, <1>6
<1>. QED
  BY <1>1, <1>3, <1>4, <1>6, <1>7

LEMMA PagesMade ==
  ASSUME PageInput
  PROVE  \E P : /\ Made(P, AfterWrites.results, Len(input.writes))
                /\ AfterWrites.page = P[Len(input.writes)]
<1>1. PICK n, last : n = Len(input.writes) /\ last = AfterWrites
  OBVIOUS
<1>2. n \in Nat
  BY <1>1 DEF PageInput
<1>3. PICK R : Calling(R, n) /\ last = R[n]
  BY <1>1, AfterWritesIs DEF WritesEnd
<1>4. /\ \A i \in 0..n : R[i] \in Results
      /\ R[0] = FirstWrite
      /\ \A k \in 1..n : R[k] = NextWrite(R[k - 1], k)
      /\ \A k \in 1..n : k \in 0..n /\ k - 1 \in 0..n
  BY <1>2, <1>3 DEF Calling
<1>. DEFINE x(k) == R[k].results[Len(R[k - 1].results) + 1]
            Said(i) == /\ Len(R[i].results) = i
                       /\ \A k \in 1..i : R[i].results[k] = x(k)
            U == {i \in 0..n : Said(i)}
<1>5. ASSUME NEW k \in 1..n
      PROVE  /\ Called(R[k - 1].page, input.writes[k], k, R[k].page, x(k))
             /\ R[k].results = Append(R[k - 1].results, x(k)) /\ x(k) \in Outcomes
             /\ R[k - 1].results \in Seq(Outcomes)
  <2>1. PICK r, s, y : r = R[k - 1] /\ s = R[k] /\ y = x(k)
    OBVIOUS
  <2>2. r \in Results /\ s = NextWrite(r, k) /\ y = s.results[Len(r.results) + 1]
    BY <1>4, <2>1
  <2>3. /\ Called(r.page, input.writes[k], k, s.page, y)
        /\ s.results = Append(r.results, y) /\ y \in Outcomes
    BY <1>1, <2>2, NextWriteIs
  <2>4. r.results \in Seq(Outcomes)
    BY <2>2 DEF Results
  <2>. QED
    BY <2>1, <2>3, <2>4
<1>6. 0 \in U
  <2>1. R[0].results = <<>>
    BY <1>4 DEF FirstWrite
  <2>. QED
    BY <1>2, <2>1
<1>7. ASSUME NEW i \in 1..n, i - 1 \in U PROVE i \in U
  <2>1. PICK s, t, y : s = R[i - 1].results /\ t = R[i].results /\ y = x(i)
    OBVIOUS
  <2>2. s \in Seq(Outcomes) /\ t = Append(s, y) /\ Len(s) = i - 1 /\ y \in Outcomes
    BY <1>5, <1>7, <2>1
  <2>3. Len(t) = i /\ t[i] = y /\ \A k \in 1..(i - 1) : t[k] = s[k]
    BY <2>2
  <2>4. \A k \in 1..(i - 1) : s[k] = x(k)
    BY <1>7, <2>1
  <2>5. \A k \in 1..i : k = i \/ k \in 1..(i - 1)
    OBVIOUS
  <2>6. Said(i)
    <3>. HIDE DEF x
    <3>. QED
      BY <2>1, <2>3, <2>4, <2>5
  <2>. HIDE DEF x
  <2>. QED
    BY <1>4, <2>6
<1>8. Said(n)
  <2>1. \A i \in 0..n : i \in U
    <3>. HIDE DEF U
    <3>. QED
      BY <1>2, <1>6, <1>7, Upwards
  <2>2. n \in 0..n
    BY <1>2
  <2>. HIDE DEF x
  <2>. QED
    BY <2>1, <2>2
<1>9. PICK P, results : P = [i \in 0..n |-> R[i].page] /\ results = R[n].results
  OBVIOUS
<1>10. \A i \in 0..n : P[i] = R[i].page /\ P[i] \in Pages
  BY <1>4, <1>9 DEF Results
<1>11. P \in [0..n -> Pages] /\ P[0] = NewPage(input.size)
  <2>1. 0 \in 0..n /\ R[0].page = NewPage(input.size)
    BY <1>2, <1>4 DEF FirstWrite
  <2>. QED
    BY <1>9, <1>10, <2>1
<1>12. results \in Seq(Outcomes) /\ Len(results) = n
  <2>1. R[n] \in Results
    BY <1>2, <1>4
  <2>. QED
    BY <1>8, <1>9, <2>1 DEF Results
<1>13. \A k \in 1..n : Called(P[k - 1], input.writes[k], k, P[k], results[k])
  <2>. SUFFICES ASSUME NEW k \in 1..n
                PROVE  Called(P[k - 1], input.writes[k], k, P[k], results[k])
    OBVIOUS
  <2>1. results[k] = x(k)
    BY <1>8, <1>9
  <2>2. P[k - 1] = R[k - 1].page /\ P[k] = R[k].page
    BY <1>4, <1>10
  <2>. HIDE DEF x
  <2>. QED
    BY <1>5, <2>1, <2>2
<1>14. Made(P, results, n)
  BY <1>11, <1>12, <1>13 DEF Made
<1>15. results = last.results /\ last.page = P[n]
  BY <1>2, <1>3, <1>9, <1>10
<1>. QED
  BY <1>1, <1>14, <1>15

-----------------------------------------------------------------------------
(* What a page holds after i calls.                                        *)

\* The calls up to i that are accepted, and where they put their cells.
Taken(results, i) == {k \in 1..i : results[k] = "written"}
Slot(P, k) == IndexIn(P[k - 1], input.writes[k])

AllAppended == \A k \in DOMAIN input.writes : input.writes[k].index = NoIndex

\* The calls of A to put a cell where no later one of A does.
LastIn(P, A, k) == \A l \in A : Slot(P, l) = Slot(P, k) => l <= k

Stored(P, A, g, p) ==
  /\ p.size = input.size /\ p.free = DataStart + g[A]
  /\ p.cells = IF AllAppended THEN Cardinality(A) ELSE 0
  /\ \A k \in A :
       /\ Slot(P, k) \in 0..(MaxCells - 1)
       /\ P[k - 1].free \in Nat /\ DataStart <= P[k - 1].free
       /\ P[k - 1].free + input.writes[k].len <= p.free
       /\ Latest(p.image, P[k - 1].free, input.writes[k].len) = [cell |-> k]
  /\ \A k \in A : LastIn(P, A, k) =>
       Latest(p.image, PointerAt(Slot(P, k)), PointerSize)
         = [at |-> P[k - 1].free, len |-> input.writes[k].len]

LEMMA TakenIs ==
  ASSUME NEW i \in Nat, NEW results
  PROVE  /\ Taken(results, i) \in SUBSET (1..i) /\ IsFiniteSet(Taken(results, i))
         /\ Cardinality(Taken(results, i)) \in Nat
<1>1. PICK A : A = Taken(results, i)
  OBVIOUS
<1>2. A \in SUBSET (1..i)
  BY <1>1 DEF Taken
<1>3. IsFiniteSet(1..i)
  BY CountUpTo
<1>4. IsFiniteSet(A)
  BY <1>2, <1>3, FS_Subset
<1>5. Cardinality(A) \in Nat
  BY <1>4, FS_CardinalityType
<1>. QED
  BY <1>1, <1>2, <1>4, <1>5

LEMMA TakenNext ==
  ASSUME NEW i \in Nat \ {0}, NEW results
  PROVE  /\ results[i] # "written" => Taken(results, i) = Taken(results, i - 1)
         /\ results[i] = "written" =>
              /\ Taken(results, i) = Taken(results, i - 1) \cup {i}
              /\ i \notin Taken(results, i - 1)
              /\ Cardinality(Taken(results, i)) = Cardinality(Taken(results, i - 1)) + 1
<1>1. PICK A, B : A = Taken(results, i - 1) /\ B = Taken(results, i)
  OBVIOUS
<1>2. \A k : k \in 1..i <=> k \in 1..(i - 1) \/ k = i
  OBVIOUS
<1>3. i \notin 1..(i - 1)
  OBVIOUS
<1>4. /\ results[i] # "written" => B = A
      /\ results[i] = "written" => B = A \cup {i} /\ i \notin A
  BY <1>1, <1>2, <1>3 DEF Taken
<1>5. IsFiniteSet(A)
  BY <1>1, TakenIs
<1>6. i \notin A => Cardinality(A \cup {i}) = Cardinality(A) + 1
  BY <1>5, FS_AddElement
<1>. QED
  BY <1>1, <1>4, <1>6

SmallIndices == \A k \in DOMAIN input.writes : input.writes[k].index < MaxCells

\* A call that is accepted: B is A and the call i, p and q are the pages
\* before and after it.
LEMMA AcceptedStores ==
  ASSUME PageInput, SmallIndices, NEW n, n = Len(input.writes), NEW i \in 1..n,
         NEW P, NEW A \in SUBSET (1..(i - 1)), NEW B, B = A \cup {i},
         NEW g, NEW L, L = [k \in 1..n |-> input.writes[k].len], SumsSets(g, n, L),
         NEW p \in Pages, NEW q, p = P[i - 1],
         Called(p, input.writes[i], i, q, "written"),
         Cardinality(A) \in Nat, Cardinality(B) = Cardinality(A) + 1,
         Stored(P, A, g, p)
  PROVE  Stored(P, B, g, q)
<1>1. PICK c, len, free, s :
        c = input.writes[i] /\ len = c.len /\ free = p.free /\ s = Slot(P, i)
  OBVIOUS
<1>2. n \in Nat /\ i \in Nat /\ c \in Calls /\ len \in Nat /\ len >= 1
  <2>1. input.writes \in Seq(Calls)
    BY DEF PageInput
  <2>2. n \in Nat /\ i \in Nat /\ c \in Calls
    BY <1>1, <2>1
  <2>. QED
    BY <1>1, <2>2 DEF Calls
<1>3. /\ free \in Nat /\ p.cells \in Nat /\ p.image \in Seq(Ranges) /\ p.size \in Nat
  BY <1>1 DEF Pages
<1>4. /\ p.size = input.size /\ free = DataStart + g[A]
      /\ p.cells = IF AllAppended THEN Cardinality(A) ELSE 0
  BY <1>1 DEF Stored
<1>5. A \in SUBSET (1..n) /\ B \in SUBSET (1..n) /\ i \in B /\ B \ {i} = A
  BY <1>2
<1>6. g[B] = g[A] + len /\ g[A] \in Nat
  <2>1. g[B] = g[B \ {i}] + L[i] /\ g[A] \in Nat
    BY <1>5 DEF SumsSets
  <2>2. L[i] = len
    BY <1>1
  <2>. QED
    BY <1>5, <2>1, <2>2
<1>7. DataStart \in Nat /\ DataStart <= free
  <2>1. DataStart \in Nat
    BY PageConstants DEF DataStart
  <2>. QED
    BY <1>4, <1>6, <2>1
<1>8. s = IndexIn(p, c)
  BY <1>1 DEF Slot
<1>9. /\ HasRoom(p, Cast(len)) /\ q \in Pages
      /\ q.size = p.size /\ q.free = free + len
      /\ q.cells = IF c.index = NoIndex THEN p.cells + 1 ELSE p.cells
      /\ q.image = p.image \o <<[at |-> free, len |-> len, what |-> [cell |-> i]],
                                [at |-> PointerAt(s), len |-> PointerSize,
                                 what |-> [at |-> free, len |-> len]],
                                Header>>
  BY <1>1, <1>8 DEF Called
<1>10. s \in 0..(MaxCells - 1)
  <2>1. p.cells < MaxCells /\ MaxCells \in Nat
    BY <1>9, PageConstants DEF HasRoom
  <2>2. i \in DOMAIN input.writes
    BY <1>1 DEF PageInput
  <2>3. c.index < MaxCells /\ c.index \in Nat \cup {NoIndex}
    BY <1>1, <1>2, <2>2 DEF SmallIndices, Calls
  <2>4. CASE c.index = NoIndex
    BY <1>3, <1>8, <2>1, <2>4 DEF IndexIn
  <2>5. CASE c.index # NoIndex
    BY <1>8, <2>1, <2>3, <2>5 DEF IndexIn
  <2>. QED
    BY <2>4, <2>5
<1>11. Keeps(p.image, q.image, free, len, [cell |-> i], s)
  <2>1. PICK data, pointer, w :
          /\ w = [cell |-> i] /\ data = [at |-> free, len |-> len, what |-> w]
          /\ pointer = [at |-> PointerAt(s), len |-> PointerSize,
                        what |-> [at |-> free, len |-> len]]
    OBVIOUS
  <2>2. w \in [cell : Nat] /\ q.image = p.image \o <<data, pointer, Header>>
    BY <1>2, <1>9, <2>1
  <2>. QED
    BY <1>2, <1>3, <1>7, <1>10, <2>1, <2>2, WriteKeeps
<1>12. q.free = DataStart + g[B]
  BY <1>4, <1>6, <1>7, <1>9, <1>2
<1>13. q.cells = IF AllAppended THEN Cardinality(B) ELSE 0
  <2>1. i \in DOMAIN input.writes
    BY <1>1 DEF PageInput
  <2>2. AllAppended <=> c.index = NoIndex
    BY <1>1, <2>1 DEF AllAppended, PageInput
  <2>. QED
    BY <1>4, <1>9, <2>2
<1>14. ASSUME NEW k \in A
       PROVE  /\ Slot(P, k) \in 0..(MaxCells - 1)
              /\ P[k - 1].free \in Nat /\ DataStart <= P[k - 1].free
              /\ P[k - 1].free + input.writes[k].len <= free
              /\ Latest(p.image, P[k - 1].free, input.writes[k].len) = [cell |-> k]
              /\ LastIn(P, A, k) =>
                   Latest(p.image, PointerAt(Slot(P, k)), PointerSize)
                     = [at |-> P[k - 1].free, len |-> input.writes[k].len]
              /\ k < i /\ input.writes[k].len \in Nat
  <2>1. input.writes \in Seq(Calls) /\ k \in 1..n
    BY <1>5 DEF PageInput
  <2>2. input.writes[k] \in Calls
    BY <2>1
  <2>3. k < i /\ input.writes[k].len \in Nat
    BY <2>2 DEF Calls
  <2>. QED
    BY <1>1, <2>3 DEF Stored
<1>15. ASSUME NEW k \in B
       PROVE  /\ Slot(P, k) \in 0..(MaxCells - 1)
              /\ P[k - 1].free \in Nat /\ DataStart <= P[k - 1].free
              /\ P[k - 1].free + input.writes[k].len <= q.free
              /\ Latest(q.image, P[k - 1].free, input.writes[k].len) = [cell |-> k]
  <2>1. CASE k = i
    <3>1. Latest(q.image, free, len) = [cell |-> i]
      BY <1>11 DEF Keeps
    <3>2. free + len <= q.free
      BY <1>2, <1>3, <1>9
    <3>. QED
      BY <1>1, <1>3, <1>7, <1>10, <2>1, <3>1, <3>2
  <2>2. CASE k \in A
    <3>1. PICK at, l : at = P[k - 1].free /\ l = input.writes[k].len
      OBVIOUS
    <3>2. /\ at \in Nat /\ l \in Nat /\ DataStart <= at /\ at + l <= free
          /\ Latest(p.image, at, l) = [cell |-> k] /\ Slot(P, k) \in 0..(MaxCells - 1)
      BY <1>14, <2>2, <3>1
    <3>3. Latest(q.image, at, l) = Latest(p.image, at, l)
      BY <1>11, <3>2 DEF Keeps
    <3>4. at + l <= q.free
      BY <1>2, <1>3, <1>9, <3>2
    <3>. QED
      BY <3>1, <3>2, <3>3, <3>4
  <2>. QED
    BY <2>1, <2>2
<1>16. ASSUME NEW k \in B, LastIn(P, B, k)
       PROVE  Latest(q.image, PointerAt(Slot(P, k)), PointerSize)
                = [at |-> P[k - 1].free, len |-> input.writes[k].len]
  <2>1. CASE k = i
    <3>1. Latest(q.image, PointerAt(s), PointerSize) = [at |-> free, len |-> len]
      BY <1>11 DEF Keeps
    <3>. QED
      BY <1>1, <2>1, <3>1
  <2>2. CASE k \in A
    <3>1. PICK at, l, j, v :
            at = P[k - 1].free /\ l = input.writes[k].len /\ j = Slot(P, k) /\ v = [at |-> at, len |-> l]
      OBVIOUS
    <3>2. j # s
      <4>1. j = s => i <= k
        BY <1>1, <1>5, <1>16, <3>1 DEF LastIn
      <4>2. k < i /\ k \in Nat
        BY <1>14, <2>2
      <4>. QED
        BY <1>2, <4>1, <4>2
    <3>3. LastIn(P, A, k)
      BY <1>16 DEF LastIn
    <3>4. Latest(p.image, PointerAt(j), PointerSize) = v /\ j \in 0..(MaxCells - 1)
      BY <1>14, <2>2, <3>1, <3>3
    <3>5. Latest(q.image, PointerAt(j), PointerSize) = Latest(p.image, PointerAt(j), PointerSize)
      BY <1>11, <3>2, <3>4 DEF Keeps
    <3>. QED
      BY <3>1, <3>4, <3>5
  <2>. QED
    BY <2>1, <2>2
<1>. QED
  BY <1>4, <1>9, <1>12, <1>13, <1>15, <1>16 DEF Stored

AllStored(P, results, g, n) == \A i \in 0..n : Stored(P, Taken(results, i), g, P[i])

\* After all calls the page holds what they put there.
LEMMA CallsStore ==
  ASSUME PageInput, SmallIndices, NEW n, n = Len(input.writes),
         NEW P, NEW results, Made(P, results, n),
         NEW g, NEW L, L = [k \in 1..n |-> input.writes[k].len], SumsSets(g, n, L)
  PROVE  AllStored(P, results, g, n)
<1>. DEFINE U == {i \in 0..n : Stored(P, Taken(results, i), g, P[i])}
<1>1. n \in Nat
  BY DEF PageInput
<1>2. 0 \in U
  <2>1. Taken(results, 0) = {}
    BY DEF Taken
  <2>2. PICK p : p = P[0]
    OBVIOUS
  <2>3. p.size = input.size /\ p.free = DataStart /\ p.cells = 0
    BY <2>2 DEF Made, NewPage
  <2>4. g[{}] = 0 /\ Cardinality({}) = 0 /\ DataStart \in Nat
    BY PageConstants, FS_EmptySet DEF SumsSets, DataStart
  <2>5. Stored(P, {}, g, p)
    BY <2>3, <2>4 DEF Stored
  <2>6. Stored(P, Taken(results, 0), g, P[0])
    BY <2>1, <2>2, <2>5, Zenon
  <2>7. 0 \in 0..n
    BY <1>1
  <2>. QED
    BY <2>6, <2>7
<1>3. ASSUME NEW i \in 1..n, i - 1 \in U PROVE i \in U
  <2>1. PICK A, B, p, q :
          A = Taken(results, i - 1) /\ B = Taken(results, i) /\ p = P[i - 1] /\ q = P[i]
    OBVIOUS
  <2>2. /\ i \in Nat \ {0} /\ i - 1 \in Nat /\ i \in 0..n /\ i - 1 \in 0..n
        /\ p \in Pages /\ Called(p, input.writes[i], i, q, results[i])
        /\ Stored(P, A, g, p)
    <3>1. i \in Nat \ {0} /\ i - 1 \in Nat /\ i \in 0..n /\ i - 1 \in 0..n
      BY <1>1
    <3>. QED
      BY <1>3, <2>1, <3>1 DEF Made
  <2>3. CASE results[i] # "written"
    <3>1. q = p /\ B = A
      BY <2>1, <2>2, <2>3, TakenNext DEF Called
    <3>. QED
      BY <2>1, <2>2, <3>1
  <2>4. CASE results[i] = "written"
    <3>1. B = A \cup {i} /\ Cardinality(B) = Cardinality(A) + 1
      BY <2>1, <2>2, <2>4, TakenNext
    <3>2. A \in SUBSET (1..(i - 1)) /\ Cardinality(A) \in Nat
      BY <2>1, <2>2, TakenIs
    <3>3. Called(p, input.writes[i], i, q, "written")
      BY <2>2, <2>4
    <3>4. Stored(P, B, g, q)
      BY <2>1, <2>2, <3>1, <3>2, <3>3, AcceptedStores
    <3>. QED
      BY <2>1, <2>2, <3>4
  <2>. QED
    BY <2>3, <2>4
<1>4. \A i \in 0..n : i \in U
  <2>. HIDE DEF U
  <2>. QED
    BY <1>1, <1>2, <1>3, Upwards
<1>. QED
  BY <1>4 DEF AllStored

-----------------------------------------------------------------------------
(* The property of the pages, part by part.                                *)

LEMMA CastIs ==
  ASSUME NEW w \in Nat \ {0}, NEW m \in Nat, m < w
  PROVE  m % w = m
OBVIOUS

LEMMA CallFits ==
  ASSUME NEW p \in Pages, NEW len \in Nat, len >= 1
  PROVE  /\ HasRoom(p, Cast(len)) /\ ~Panics(p, len) => p.free + len <= p.size
         /\ len < Width /\ p.size < Width =>
              (HasRoom(p, Cast(len)) /\ ~Panics(p, len)
                 <=> p.free + len <= p.size /\ p.cells < MaxCells)
<1>1. p.free \in Nat /\ p.size \in Nat /\ p.cells \in Nat /\ Width \in Nat \ {0} /\ MaxCells \in Nat
  BY PageConstants DEF Pages
<1>2. HasRoom(p, Cast(len)) /\ ~Panics(p, len) => p.free + len <= p.size
  BY <1>1 DEF HasRoom, Panics
<1>3. ASSUME len < Width, p.size < Width
      PROVE  HasRoom(p, Cast(len)) /\ ~Panics(p, len)
               <=> p.free + len <= p.size /\ p.cells < MaxCells
  <2>1. Cast(len) = len
    BY <1>1, <1>3, CastIs DEF Cast
  <2>2. HasRoom(p, Cast(len)) <=> p.free + len <= p.size /\ p.cells < MaxCells
    BY <2>1 DEF HasRoom
  <2>3. ASSUME p.free + len <= p.size PROVE ~Panics(p, len)
    <3>1. PICK m : m = p.free + len
      OBVIOUS
    <3>2. m \in Nat /\ m < Width /\ ~(m < p.free)
      BY <1>1, <1>3, <2>3, <3>1
    <3>3. Cast(m) = m
      BY <1>1, <3>2, CastIs DEF Cast
    <3>4. Cast(CellStart(p, len) + Cast(len)) = m /\ CellStart(p, len) = p.free
      BY <2>1, <3>1, <3>3 DEF CellStart
    <3>. QED
      BY <2>1, <3>2, <3>4 DEF Panics
  <2>. QED
    BY <2>2, <2>3
<1>. QED
  BY <1>2, <1>3

\* The index of call k, as the property says it, from the calls accepted.
IndexOf(results, k) ==
  IF input.writes[k].index = NoIndex THEN Cardinality(Taken(results, k - 1))
                                     ELSE input.writes[k].index

LEMMA SlotIs ==
  ASSUME PageInput, SmallIndices, NEW n, n = Len(input.writes),
         NEW P, NEW results, Made(P, results, n),
         NEW g, AllStored(P, results, g, n),
         NEW k \in 1..n
  PROVE  Slot(P, k) = IndexOf(results, k)
<1>1. k - 1 \in 0..n /\ k \in DOMAIN input.writes
  BY DEF PageInput
<1>2. PICK A, p : A = Taken(results, k - 1) /\ p = P[k - 1]
  OBVIOUS
<1>3. p.cells = IF AllAppended THEN Cardinality(A) ELSE 0
  BY <1>1, <1>2 DEF AllStored, Stored
<1>4. input.writes[k].index = NoIndex => AllAppended
  BY <1>1 DEF PageInput, AllAppended
<1>. QED
  BY <1>2, <1>3, <1>4 DEF Slot, IndexIn, IndexOf

\* Cells that are appended have indices in their order.
LEMMA AppendedApart ==
  ASSUME NEW k \in Nat, NEW l \in Nat, k <= l, NEW results, k \in Taken(results, k)
  PROVE  Cardinality(Taken(results, k - 1)) < Cardinality(Taken(results, l))
<1>1. k \in Nat \ {0} /\ k - 1 \in Nat /\ results[k] = "written"
  BY DEF Taken
<1>2. Cardinality(Taken(results, k)) = Cardinality(Taken(results, k - 1)) + 1
  BY <1>1, TakenNext
<1>3. PICK A, B : A = Taken(results, k) /\ B = Taken(results, l)
  OBVIOUS
<1>4. A \subseteq B
  <2>1. \A j : j \in 1..k => j \in 1..l
    OBVIOUS
  <2>. QED
    BY <1>3, <2>1 DEF Taken
<1>5. IsFiniteSet(B)
  BY <1>3, TakenIs
<1>6. Cardinality(A) <= Cardinality(B)
  BY <1>4, <1>5, FS_Subset
<1>7. Cardinality(A) \in Nat /\ Cardinality(B) \in Nat /\ Cardinality(Taken(results, k - 1)) \in Nat
  BY <1>1, <1>3, TakenIs
<1>. QED
  BY <1>2, <1>3, <1>6, <1>7

LEMMA ReadSlotIs ==
  ASSUME NEW p, NEW i, NEW at, NEW len,
         Latest(p.image, PointerAt(i), PointerSize) = [at |-> at, len |-> len]
  PROVE  ReadSlot(p, i) = Latest(p.image, at, len)
<1>1. PICK v : v = [at |-> at, len |-> len]
  OBVIOUS
<1>2. "at" \in DOMAIN v /\ v.at = at /\ v.len = len
  BY <1>1
<1>3. ReadBytes(p, PointerAt(i), PointerSize) = v
  BY <1>1, ReadIsLatest
<1>4. ReadSlot(p, i) = ReadBytes(p, at, len)
  BY <1>2, <1>3 DEF ReadSlot
<1>. QED
  BY <1>4, ReadIsLatest

SameIn(results, A, k) == {l \in A : IndexOf(results, l) = IndexOf(results, k)}

\* The page after all calls gives back the cells it accepted.
LEMMA CellsRead ==
  ASSUME PageInput, SmallIndices, NEW n, n = Len(input.writes),
         NEW P, NEW results, Made(P, results, n),
         NEW g, AllStored(P, results, g, n),
         NEW A, A = Taken(results, n), NEW page, page = P[n],
         NEW k \in A, NEW S, S = SameIn(results, A, k)
  PROVE  /\ ReadSlot(page, IndexOf(results, k)) = [cell |-> Max(S)]
         /\ IndexOf(results, k) < MaxCells
         /\ input.writes[k].index = NoIndex =>
              CellData(page, IndexOf(results, k)) = [cell |-> k]
<1>1. n \in Nat /\ n \in 0..n /\ A \in SUBSET (1..n) /\ k \in 1..n /\ k \in S
      /\ DOMAIN input.writes = 1..n
  <2>1. n \in Nat /\ DOMAIN input.writes = 1..n
    BY DEF PageInput
  <2>. QED
    BY <2>1 DEF Taken, SameIn
<1>2. Stored(P, A, g, page)
  BY <1>1 DEF AllStored
<1>3. \A l \in 1..n : Slot(P, l) = IndexOf(results, l)
  BY SlotIs
<1>4. PICK last : last = Max(S)
  OBVIOUS
<1>5. last \in S /\ \A l \in S : l <= last
  <2>1. S \in SUBSET (1..n) /\ S # {}
    BY <1>1 DEF SameIn
  <2>. QED
    BY <1>1, <1>4, <2>1, GreatestNumber
<1>6. last \in A /\ last \in 1..n /\ Slot(P, last) = IndexOf(results, k)
  BY <1>1, <1>3, <1>5 DEF SameIn
<1>7. LastIn(P, A, last)
  <2>. SUFFICES ASSUME NEW l \in A, Slot(P, l) = Slot(P, last) PROVE l <= last
    BY DEF LastIn
  <2>1. l \in 1..n
    BY <1>1
  <2>2. IndexOf(results, l) = IndexOf(results, k)
    BY <1>3, <1>6, <2>1
  <2>. QED
    BY <1>5, <2>2 DEF SameIn
<1>8. PICK j, at, len :
        j = IndexOf(results, k) /\ at = P[last - 1].free /\ len = input.writes[last].len
  OBVIOUS
<1>9. /\ Latest(page.image, PointerAt(j), PointerSize) = [at |-> at, len |-> len]
      /\ Latest(page.image, at, len) = [cell |-> last]
      /\ j \in 0..(MaxCells - 1)
  <2>1. Latest(page.image, PointerAt(Slot(P, last)), PointerSize) = [at |-> at, len |-> len]
    BY <1>2, <1>6, <1>7, <1>8 DEF Stored
  <2>2. Latest(page.image, at, len) = [cell |-> last] /\ Slot(P, last) \in 0..(MaxCells - 1)
    BY <1>2, <1>6, <1>8 DEF Stored
  <2>. QED
    BY <1>6, <1>8, <2>1, <2>2
<1>10. ReadSlot(page, j) = [cell |-> last]
  <2>1. ReadSlot(page, j) = Latest(page.image, at, len)
    BY <1>9, ReadSlotIs
  <2>. QED
    BY <1>9, <2>1
<1>11. j < MaxCells
  BY <1>9, PageConstants
<1>12. ASSUME input.writes[k].index = NoIndex
       PROVE  CellData(page, j) = [cell |-> k]
  <2>1. AllAppended
    BY <1>1, <1>12 DEF PageInput, AllAppended
  <2>2. \A l \in 1..n : IndexOf(results, l) = Cardinality(Taken(results, l - 1))
    BY <1>1, <2>1 DEF AllAppended, IndexOf
  <2>3. k \in Taken(results, k) /\ k \in Nat /\ k <= n
    BY <1>1 DEF Taken
  <2>4. j < page.cells
    <3>1. page.cells = Cardinality(A)
      BY <1>2, <2>1 DEF Stored
    <3>2. Cardinality(Taken(results, k - 1)) < Cardinality(A)
      BY <1>1, <2>3, AppendedApart
    <3>. QED
      BY <1>1, <1>8, <2>2, <3>1, <3>2
  <2>5. last = k
    <3>1. k <= last /\ last \in 1..n
      BY <1>1, <1>5, <1>6
    <3>2. ASSUME k < last PROVE FALSE
      <4>1. PICK m : m = last - 1
        OBVIOUS
      <4>2. m \in Nat /\ k <= m
        BY <1>1, <3>1, <3>2, <4>1
      <4>3. Cardinality(Taken(results, k - 1)) < Cardinality(Taken(results, m))
        BY <2>3, <4>2, AppendedApart
      <4>4. Cardinality(Taken(results, k - 1)) = Cardinality(Taken(results, m))
        <5>1. IndexOf(results, last) = IndexOf(results, k)
          BY <1>5 DEF SameIn
        <5>. QED
          BY <1>1, <2>2, <3>1, <4>1, <5>1
      <4>5. Cardinality(Taken(results, m)) \in Nat
        BY <4>2, TakenIs
      <4>. QED
        BY <4>3, <4>4, <4>5
    <3>. QED
      BY <1>1, <3>1, <3>2
  <2>. QED
    BY <1>10, <2>4, <2>5 DEF CellData
<1>. QED
  BY <1>4, <1>8, <1>10, <1>11, <1>12

\* A call is accepted when its cell fits, and when pages and cells are smaller
\* than a u16 can say, only then is it refused.
LEMMA CallsFit ==
  ASSUME PageInput, SmallIndices, NEW n, n = Len(input.writes),
         NEW P, NEW results, Made(P, results, n),
         NEW g, NEW L, L = [k \in 1..n |-> input.writes[k].len], SumsSets(g, n, L),
         AllStored(P, results, g, n),
         NEW k \in 1..n, NEW A, A = Taken(results, k - 1)
  PROVE  /\ results[k] = "written" => DataStart + g[A \cup {k}] <= input.size
         /\ input.writes[k].len < Width /\ input.size < Width =>
              (results[k] = "written"
                 <=> DataStart + g[A \cup {k}] <= input.size /\ IndexOf(results, k) < MaxCells)
<1>1. PICK p, c, len : p = P[k - 1] /\ c = input.writes[k] /\ len = c.len
  OBVIOUS
<1>2. /\ n \in Nat /\ k \in Nat \ {0} /\ k - 1 \in 0..n /\ k - 1 \in Nat
      /\ c \in Calls /\ k \in DOMAIN input.writes
  <2>1. input.writes \in Seq(Calls)
    BY DEF PageInput
  <2>. QED
    BY <1>1, <2>1
<1>3. len \in Nat /\ len >= 1
  BY <1>1, <1>2 DEF Calls
<1>4. p \in Pages /\ Called(p, c, k, P[k], results[k])
  BY <1>1, <1>2 DEF Made
<1>5. /\ p.size = input.size /\ p.free = DataStart + g[A]
      /\ p.cells = IF AllAppended THEN Cardinality(A) ELSE 0
  <2>1. Stored(P, A, g, p)
    BY <1>1, <1>2 DEF AllStored
  <2>. QED
    BY <2>1 DEF Stored
<1>6. g[A \cup {k}] = g[A] + len /\ g[A] \in Nat
  <2>1. PICK B : B = A \cup {k}
    OBVIOUS
  <2>2. A \in SUBSET (1..(k - 1))
    BY <1>2, TakenIs
  <2>3. A \in SUBSET (1..n) /\ B \in SUBSET (1..n) /\ k \in B /\ B \ {k} = A
    BY <1>2, <2>1, <2>2
  <2>4. g[B] = g[B \ {k}] + L[k] /\ g[A] \in Nat
    BY <2>3 DEF SumsSets
  <2>5. L[k] = len
    BY <1>1
  <2>. QED
    BY <2>1, <2>3, <2>4, <2>5
<1>7. DataStart \in Nat
  BY PageConstants DEF DataStart
<1>8. DataStart + g[A \cup {k}] = p.free + len
  BY <1>3, <1>5, <1>6, <1>7
<1>9. results[k] = "written" <=> HasRoom(p, Cast(len)) /\ ~Panics(p, len)
  BY <1>1, <1>4 DEF Called
<1>10. results[k] = "written" => DataStart + g[A \cup {k}] <= input.size
  BY <1>3, <1>4, <1>5, <1>8, <1>9, CallFits
<1>11. ASSUME len < Width, input.size < Width
       PROVE  results[k] = "written"
                <=> DataStart + g[A \cup {k}] <= input.size /\ p.cells < MaxCells
  BY <1>3, <1>4, <1>5, <1>8, <1>9, <1>11, CallFits
<1>12. results[k] = "written" => IndexOf(results, k) < MaxCells
  <2>. SUFFICES ASSUME results[k] = "written" PROVE IndexOf(results, k) < MaxCells
    OBVIOUS
  <2>1. CASE c.index = NoIndex
    <3>1. p.cells < MaxCells
      BY <1>9 DEF HasRoom
    <3>2. AllAppended
      BY <1>1, <1>2, <2>1 DEF PageInput, AllAppended
    <3>. QED
      BY <1>1, <1>5, <2>1, <3>1, <3>2 DEF IndexOf
  <2>2. CASE c.index # NoIndex
    BY <1>1, <1>2, <2>2 DEF IndexOf, SmallIndices
  <2>. QED
    BY <2>1, <2>2
<1>13. IndexOf(results, k) < MaxCells => p.cells < MaxCells
  <2>1. CASE c.index = NoIndex
    <3>1. AllAppended
      BY <1>1, <1>2, <2>1 DEF PageInput, AllAppended
    <3>. QED
      BY <1>1, <1>5, <2>1, <3>1 DEF IndexOf
  <2>2. CASE c.index # NoIndex
    <3>1. ~AllAppended
      BY <1>1, <1>2, <2>2 DEF AllAppended
    <3>2. p.cells = 0
      BY <1>5, <3>1
    <3>3. c.index \in Nat /\ MaxCells \in Nat
      BY <1>2, <2>2, PageConstants DEF Calls
    <3>4. IndexOf(results, k) = c.index
      BY <1>1, <2>2 DEF IndexOf
    <3>. QED
      BY <3>2, <3>3, <3>4
  <2>. QED
    BY <2>1, <2>2
<1>. QED
  BY <1>1, <1>10, <1>11, <1>12, <1>13

-----------------------------------------------------------------------------
(* PagesKeepCells, its definitions by name.                                *)

AcceptedOf(S) == {k \in S : AfterWrites.results[k] = "written"}
BytesOf(S) == BytesIn(input.writes, S)
CellIndex(k) ==
  IF input.writes[k].index = NoIndex
  THEN Cardinality(AcceptedOf(1..k - 1)) ELSE input.writes[k].index
FitsIn(k) == DataStart + BytesOf(AcceptedOf(1..k - 1) \cup {k}) <= input.size
SameIndex(k) == {l \in AcceptedOf(DOMAIN input.writes) : CellIndex(l) = CellIndex(k)}

CellsCounted ==
  AfterWrites.page.cells
    = Cardinality({k \in AcceptedOf(DOMAIN input.writes) : input.writes[k].index = NoIndex})
CellsKept ==
  \A k \in AcceptedOf(DOMAIN input.writes) :
    /\ ReadSlot(AfterWrites.page, CellIndex(k)) = [cell |-> Max(SameIndex(k))]
    /\ input.writes[k].index = NoIndex =>
         CellData(AfterWrites.page, CellIndex(k)) = [cell |-> k]
CellsFit ==
  \A k \in DOMAIN input.writes :
    /\ AfterWrites.results[k] = "written" => FitsIn(k)
    /\ input.writes[k].len < Width /\ input.size < Width =>
         (AfterWrites.results[k] = "written" <=> FitsIn(k) /\ CellIndex(k) < MaxCells)

LEMMA PagesKeepCellsIs ==
  ASSUME input.kind = "page" /\ SmallIndices => CellsCounted /\ CellsKept /\ CellsFit
  PROVE  PagesKeepCells
BY DEF PagesKeepCells, SmallIndices, CellsCounted, CellsKept, CellsFit,
       SameIndex, FitsIn, CellIndex, BytesOf, BytesIn, AcceptedOf

LEMMA PagesHold ==
  ASSUME PageInput, SmallIndices
  PROVE  CellsCounted /\ CellsKept /\ CellsFit
<1>1. PICK n, L, results, page :
        /\ n = Len(input.writes) /\ L = [k \in 1..n |-> input.writes[k].len]
        /\ results = AfterWrites.results /\ page = AfterWrites.page
  OBVIOUS
<1>2. /\ n \in Nat /\ DOMAIN input.writes = 1..n /\ input.writes \in Seq(Calls)
      /\ L \in [1..n -> Nat] /\ n \in 0..n
  <2>1. n \in Nat /\ DOMAIN input.writes = 1..n /\ input.writes \in Seq(Calls)
    BY <1>1 DEF PageInput
  <2>2. \A k \in 1..n : input.writes[k].len \in Nat
    <3>1. \A k \in 1..n : input.writes[k] \in Calls
      BY <2>1
    <3>. QED
      BY <3>1 DEF Calls
  <2>. QED
    BY <1>1, <2>1, <2>2
<1>3. PICK g : SumsSets(g, n, L)
  BY <1>2, SetSumsExist
<1>4. PICK P : Made(P, results, n) /\ page = P[n]
  BY <1>1, PagesMade
<1>5. AllStored(P, results, g, n)
  BY <1>1, <1>3, <1>4, CallsStore
<1>6. PICK A : A = Taken(results, n)
  OBVIOUS
<1>7. AcceptedOf(DOMAIN input.writes) = A
  BY <1>1, <1>2, <1>6 DEF AcceptedOf, Taken
<1>8. \A k : CellIndex(k) = IndexOf(results, k)
  BY <1>1 DEF CellIndex, IndexOf, AcceptedOf, Taken
<1>9. \A k \in 1..n : BytesOf(AcceptedOf(1..k - 1) \cup {k}) = g[Taken(results, k - 1) \cup {k}]
  <2>. SUFFICES ASSUME NEW k \in 1..n
                PROVE  BytesOf(AcceptedOf(1..k - 1) \cup {k}) = g[Taken(results, k - 1) \cup {k}]
    OBVIOUS
  <2>1. PICK S : S = Taken(results, k - 1) \cup {k}
    OBVIOUS
  <2>2. AcceptedOf(1..k - 1) \cup {k} = S
    BY <1>1, <2>1 DEF AcceptedOf, Taken
  <2>3. S \in SUBSET (1..n)
    <3>1. k - 1 \in Nat /\ \A j : j \in 1..(k - 1) => j \in 1..n
      BY <1>2
    <3>. QED
      BY <2>1, <3>1 DEF Taken
  <2>4. BytesOf(S) = g[S]
    BY <1>1, <1>2, <1>3, <2>3, SumSetIs DEF BytesOf
  <2>. QED
    BY <2>1, <2>2, <2>4
<1>10. CellsCounted
  <2>1. Stored(P, A, g, page)
    BY <1>2, <1>4, <1>5, <1>6 DEF AllStored
  <2>2. page.cells = IF AllAppended THEN Cardinality(A) ELSE 0
    BY <2>1 DEF Stored
  <2>3. PICK C : C = {k \in A : input.writes[k].index = NoIndex}
    OBVIOUS
  <2>4. A \subseteq 1..n
    BY <1>6 DEF Taken
  <2>5. CASE AllAppended
    <3>1. C = A
      BY <1>2, <2>3, <2>4, <2>5 DEF AllAppended
    <3>. QED
      BY <1>1, <1>7, <2>2, <2>3, <2>5, <3>1 DEF CellsCounted
  <2>6. CASE ~AllAppended
    <3>1. C = {}
      BY <1>2, <2>3, <2>4, <2>6 DEF AllAppended, PageInput
    <3>2. Cardinality(C) = 0
      BY <3>1, FS_EmptySet
    <3>. QED
      BY <1>1, <1>7, <2>2, <2>3, <2>6, <3>2 DEF CellsCounted
  <2>. QED
    BY <2>5, <2>6
<1>11. CellsKept
  <2>. SUFFICES ASSUME NEW k \in A
                PROVE  /\ ReadSlot(page, CellIndex(k)) = [cell |-> Max(SameIndex(k))]
                       /\ input.writes[k].index = NoIndex =>
                            CellData(page, CellIndex(k)) = [cell |-> k]
    BY <1>1, <1>7 DEF CellsKept
  <2>1. PICK S : S = SameIn(results, A, k)
    OBVIOUS
  <2>2. SameIndex(k) = S
    BY <1>7, <1>8, <2>1 DEF SameIndex, SameIn
  <2>3. /\ ReadSlot(page, IndexOf(results, k)) = [cell |-> Max(S)]
        /\ input.writes[k].index = NoIndex =>
             CellData(page, IndexOf(results, k)) = [cell |-> k]
    BY <1>1, <1>4, <1>5, <1>6, <2>1, CellsRead
  <2>. QED
    BY <1>8, <2>2, <2>3
<1>12. CellsFit
  <2>. SUFFICES ASSUME NEW k \in 1..n
                PROVE  /\ results[k] = "written" => FitsIn(k)
                       /\ input.writes[k].len < Width /\ input.size < Width =>
                            (results[k] = "written" <=> FitsIn(k) /\ CellIndex(k) < MaxCells)
    BY <1>1, <1>2 DEF CellsFit
  <2>1. PICK B : B = Taken(results, k - 1)
    OBVIOUS
  <2>2. SumsSets(g, n, L) /\ Made(P, results, n) /\ AllStored(P, results, g, n)
    BY <1>3, <1>4, <1>5
  <2>3. n = Len(input.writes) /\ L = [j \in 1..n |-> input.writes[j].len]
    BY <1>1
  <2>4. /\ results[k] = "written" => DataStart + g[B \cup {k}] <= input.size
        /\ input.writes[k].len < Width /\ input.size < Width =>
             (results[k] = "written"
                <=> DataStart + g[B \cup {k}] <= input.size /\ IndexOf(results, k) < MaxCells)
    BY <2>1, <2>2, <2>3, CallsFit, SMTT(60)
  <2>5. FitsIn(k) <=> DataStart + g[B \cup {k}] <= input.size
    BY <1>9, <2>1 DEF FitsIn
  <2>. QED
    BY <1>8, <2>4, <2>5
<1>. QED
  BY <1>10, <1>11, <1>12

-----------------------------------------------------------------------------
(* The calls that are made: all of them append, or none does.              *)

Explicit == [len : Nat \ {0}, index : Nat]

LEMMA ConcatExplicit ==
  ASSUME NEW s \in Seq(Explicit), NEW t \in Seq(Explicit)
  PROVE  s \o t \in Seq(Explicit)
OBVIOUS

LEMMA EmptyIs ==
  ASSUME NEW s \in Seq(Seq(Explicit)), Len(s) = 0
  PROVE  s = <<>>
OBVIOUS

LEMMA FlattenExplicit ==
  ASSUME NEW seqs \in Seq(Seq(Explicit))
  PROVE  FlattenSeq(seqs) \in Seq(Explicit)
<1>1. PICK n, V : n = Len(seqs) /\ V = Seq(Explicit)
  OBVIOUS
<1>2. /\ n \in Nat /\ <<>> \in V /\ \A i \in 1..n : seqs[i] \in V
      /\ \A s, t \in V : s \o t \in V
  BY <1>1, ConcatExplicit
<1>3. CASE n = 0
  <2>1. seqs = <<>>
    BY <1>1, <1>3, EmptyIs
  <2>. QED
    BY <1>1, <1>2, <1>3, <2>1 DEF FlattenSeq
<1>4. CASE n # 0
  <2>. DEFINE Lit(f) == f = [i \in 1..Len(seqs) |->
                               IF i = 1 THEN seqs[i] ELSE f[i - 1] \o seqs[i]]
              G == [p \in (1..n) \X V |-> IF p[1] = 1 THEN seqs[p[1]] ELSE p[2] \o seqs[p[1]]]
  <2>1. ASSUME NEW i \in 1..n, NEW x \in V
        PROVE  G[<<i, x>>] = (IF i = 1 THEN seqs[i] ELSE x \o seqs[i]) /\ G[<<i, x>>] \in V
    <3>1. G[<<i, x>>] = IF i = 1 THEN seqs[i] ELSE x \o seqs[i]
      OBVIOUS
    <3>2. (IF i = 1 THEN seqs[i] ELSE x \o seqs[i]) \in V
      BY <1>2
    <3>. QED
      BY <3>1, <3>2
  <2>2. PICK h : Follows(h, n, V, <<>>, G)
    <3>. HIDE DEF G
    <3>. QED
      BY <1>2, <2>1, FoldExists
  <2>3. ASSUME NEW i \in 1..n
        PROVE  /\ Upto(h, i) = IF i = 1 THEN seqs[i] ELSE Upto(h, i - 1) \o seqs[i]
               /\ Upto(h, i) \in V
    <3>1. PICK S, Q, m : S = 1..i /\ Q = 1..(i - 1) /\ m = Max(S)
      OBVIOUS
    <3>2. S # {} /\ m = i /\ S \ {i} = Q
      BY <3>1, UptoNext
    <3>3. S \in SUBSET (1..n)
      BY <1>2, <3>1
    <3>4. PICK x : x = h[S \ {m}]
      OBVIOUS
    <3>5. x \in V /\ h[S] = G[<<i, x>>] /\ x = h[Q]
      <4>1. x \in V /\ h[S] = G[<<m, x>>]
        <5>. HIDE DEF G
        <5>. QED
          BY <2>2, <3>1, <3>2, <3>3, <3>4 DEF Follows
      <4>. HIDE DEF G
      <4>. QED
        BY <3>2, <3>4, <4>1
    <3>6. h[S] = (IF i = 1 THEN seqs[i] ELSE x \o seqs[i]) /\ h[S] \in V
      <4>. HIDE DEF G
      <4>. QED
        BY <2>1, <3>5
    <3>. QED
      BY <3>1, <3>5, <3>6 DEF Upto
  <2>4. PICK q : q = [i \in 1..n |-> Upto(h, i)]
    OBVIOUS
  <2>5. Lit(q)
    <3>1. ASSUME NEW i \in 1..n PROVE q[i] = IF i = 1 THEN seqs[i] ELSE q[i - 1] \o seqs[i]
      <4>1. CASE i = 1
        BY <2>3, <2>4, <4>1
      <4>2. CASE i # 1
        <5>1. i - 1 \in 1..n
          BY <1>2, <4>2
        <5>2. q[i] = Upto(h, i) /\ q[i - 1] = Upto(h, i - 1)
          BY <2>4, <5>1
        <5>3. Upto(h, i) = Upto(h, i - 1) \o seqs[i]
          BY <2>3, <4>2
        <5>. QED
          BY <4>2, <5>2, <5>3
      <4>. QED
        BY <4>1, <4>2
    <3>2. q = [i \in 1..n |-> q[i]]
      BY <2>4
    <3>. QED
      BY <1>1, <3>1, <3>2
  <2>6. PICK f : f = CHOOSE g : Lit(g)
    OBVIOUS
  <2>7. Lit(f)
    <3>. HIDE DEF Lit
    <3>. QED
      BY <2>5, <2>6
  <2>8. FlattenSeq(seqs) = f[n]
    BY <1>1, <1>4, <2>6 DEF FlattenSeq
  <2>. DEFINE U == {i \in 0..n : i # 0 => f[i] \in V}
  <2>9. 0 \in U
    BY <1>2
  <2>10. ASSUME NEW i \in 1..n, i - 1 \in U PROVE i \in U
    <3>1. f[i] = IF i = 1 THEN seqs[i] ELSE f[i - 1] \o seqs[i]
      BY <1>1, <2>7
    <3>2. f[i] \in V
      <4>1. CASE i = 1
        BY <1>2, <3>1, <4>1
      <4>2. CASE i # 1
        <5>1. f[i - 1] \in V
          BY <2>10, <4>2
        <5>. QED
          BY <1>2, <3>1, <4>2, <5>1
      <4>. QED
        BY <4>1, <4>2
    <3>3. i \in 0..n
      BY <1>2
    <3>. QED
      BY <3>2, <3>3
  <2>11. \A i \in 0..n : i \in U
    <3>. HIDE DEF U, Lit
    <3>. QED
      BY <1>2, <2>9, <2>10, Upwards
  <2>12. f[n] \in V
    <3>1. n \in 0..n
      BY <1>2
    <3>. HIDE DEF Lit
    <3>. QED
      BY <1>4, <2>11, <3>1
  <2>. QED
    BY <1>1, <2>8, <2>12
<1>. QED
  BY <1>3, <1>4

\* The calls with pages append cells that are not empty, or save graphs.
PageInputOK == input.kind = "page" => PageInput

AppendsOrSaves(writes, size) ==
  /\ writes \in Seq(Calls) /\ size \in Nat
  /\ \/ \A k \in DOMAIN writes : writes[k].index = NoIndex
     \/ \A k \in DOMAIN writes : writes[k].index # NoIndex

LEMMA AppendsTyped ==
  ASSUME NEW x \in Appends
  PROVE  x.kind = "page" /\ AppendsOrSaves(x.writes, x.size)
<1>1. PICK size \in PageSizes, lens \in BoundedSeq(CellSizes, MaxAppends) :
        x = [kind |-> "page", size |-> size,
             writes |-> [i \in DOMAIN lens |-> [len |-> lens[i], index |-> NoIndex]]]
  BY DEF Appends
<1>2. PICK m \in 0..MaxAppends : lens \in [1..m -> CellSizes]
  BY DEF BoundedSeq, SeqOf
<1>3. \A i \in 1..m : lens[i] \in Nat \ {0}
  BY <1>2, AlgorithmsConstants
<1>4. PICK w : w = [i \in 1..m |-> [len |-> lens[i], index |-> NoIndex]]
  OBVIOUS
<1>5. m \in Nat /\ w \in [1..m -> Calls]
  BY <1>2, <1>3, <1>4, AlgorithmsConstants DEF Calls
<1>6. w \in Seq(Calls)
  BY <1>5
<1>7. \A k \in DOMAIN w : w[k].index = NoIndex
  BY <1>4
<1>8. x.kind = "page" /\ x.size = size /\ x.writes = w
  BY <1>1, <1>2, <1>4
<1>. QED
  BY <1>6, <1>7, <1>8, AlgorithmsConstants DEF AppendsOrSaves

LEMMA SavesTyped ==
  ASSUME NEW x \in Saves
  PROVE  x.kind = "page" /\ AppendsOrSaves(x.writes, x.size)
<1>1. PICK saves \in SomeSaves :
        x.kind = "page" /\ x.size \in PageSizes /\ x.writes = FlattenSeq(saves)
  BY DEF Saves
<1>2. PICK m \in 0..MaxSaves :
        saves \in [1..m -> {SaveOf(n, len) : n \in 0..MaxNodes, len \in NodeSizes}]
  BY DEF SomeSaves, BoundedSeq, SeqOf
<1>3. ASSUME NEW n \in 0..MaxNodes, NEW len \in NodeSizes
      PROVE  SaveOf(n, len) \in Seq(Explicit)
  <2>1. n \in Nat /\ len \in Nat \ {0} /\ n + 1 \in Nat
    BY AlgorithmsConstants
  <2>2. \A i \in 1..(n + 1) : [len |-> IF i = 1 THEN 16 ELSE len, index |-> i - 1] \in Explicit
    BY <2>1 DEF Explicit
  <2>. QED
    BY <2>1, <2>2 DEF SaveOf
<1>4. m \in Nat /\ \A i \in 1..m : saves[i] \in Seq(Explicit)
  BY <1>2, <1>3, AlgorithmsConstants
<1>5. saves \in Seq(Seq(Explicit))
  BY <1>2, <1>4
<1>6. PICK w : w = FlattenSeq(saves)
  OBVIOUS
<1>7. w \in Seq(Explicit)
  BY <1>5, <1>6, FlattenExplicit
<1>8. \A k \in DOMAIN w : w[k] \in Calls /\ w[k].index # NoIndex
  <2>. SUFFICES ASSUME NEW k \in DOMAIN w PROVE w[k] \in Calls /\ w[k].index # NoIndex
    OBVIOUS
  <2>1. w[k] \in Explicit
    BY <1>7
  <2>. QED
    BY <2>1 DEF Explicit, Calls, NoIndex
<1>9. w \in Seq(Calls)
  BY <1>7, <1>8
<1>. QED
  BY <1>1, <1>6, <1>8, <1>9, AlgorithmsConstants DEF AppendsOrSaves

LEMMA CallsPageInputOK ==
  ASSUME NEW inputs \in {VectorPairs, Filters, Fusions, Appends, Saves}, Call(inputs)
  PROVE  PageInputOK'
<1>1. CASE inputs = VectorPairs
  <2>1. PICK n, p, r, x, y :
          input' = [kind |-> "vectors", a |-> Unit(n, p, x), b |-> Unit(n, r, y)]
    BY <1>1 DEF Call, VectorPairs
  <2>. QED
    BY <2>1 DEF PageInputOK
<1>2. CASE inputs \in {Filters, Fusions}
  <2>1. (\A x \in Filters : x.kind = "filter") /\ (\A x \in Fusions : x.kind = "fusion")
    BY DEF Filters, Fusions
  <2>2. input'.kind # "page"
    BY <1>2, <2>1 DEF Call
  <2>. QED
    BY <2>2 DEF PageInputOK
<1>3. CASE inputs \in {Appends, Saves}
  <2>1. AppendsOrSaves(input'.writes, input'.size)
    BY <1>3, AppendsTyped, SavesTyped DEF Call
  <2>. QED
    BY <2>1 DEF AppendsOrSaves, PageInputOK, PageInput
<1>. QED
  BY <1>1, <1>2, <1>3

\* A page gives back, at each index, the whole cell that it accepted last for
\* it; it counts the cells that are appended, and refuses one only when it does
\* not fit: for every size of a page, of its header and of its pointers, and
\* any number of cells.
THEOREM PagesAlwaysKeepCells ==
  AlgorithmsInit /\ [][AlgorithmsNext]_input => []PagesKeepCells
<1>1. AlgorithmsInit => PageInputOK
  BY DEF AlgorithmsInit, PageInputOK, NoCall
<1>2. PageInputOK /\ [AlgorithmsNext]_input => PageInputOK'
  <2>. SUFFICES ASSUME PageInputOK, [AlgorithmsNext]_input PROVE PageInputOK'
    OBVIOUS
  <2>1. CASE AlgorithmsNext
    BY <2>1, CallsPageInputOK DEF AlgorithmsNext
  <2>2. CASE UNCHANGED input
    BY <2>2 DEF PageInputOK, PageInput
  <2>. QED
    BY <2>1, <2>2
<1>3. PageInputOK => PagesKeepCells
  BY PagesHold, PagesKeepCellsIs DEF PageInputOK
<1>. QED
  BY <1>1, <1>2, <1>3, PTL


-----------------------------------------------------------------------------
(* Rankings.  What a document adds up to, and its place.                   *)

Fractions == Nat \X (Nat \ {0})

LEMMA FractionIs ==
  ASSUME NEW f \in Fractions
  PROVE  f[1] \in Nat /\ f[2] \in Nat \ {0} /\ f = <<f[1], f[2]>> /\ IsScore(f)
BY DEF Fractions, IsScore

LEMMA SumIsFraction ==
  ASSUME NEW f \in Fractions, NEW g \in Fractions
  PROVE  Sum(f, g) \in Fractions
<1>1. PICK a, b, c, d : a = f[1] /\ b = f[2] /\ c = g[1] /\ d = g[2]
  OBVIOUS
<1>2. a \in Nat /\ b \in Nat /\ b >= 1 /\ c \in Nat /\ d \in Nat /\ d >= 1
  BY <1>1, FractionIs
<1>3. a * d + c * b \in Nat
  <2>1. a * d \in Nat /\ c * b \in Nat
    BY <1>2
  <2>. QED
    BY <2>1
<1>4. b * d \in Nat \ {0}
  BY <1>2
<1>5. Sum(f, g) = <<a * d + c * b, b * d>>
  BY <1>1 DEF Sum
<1>. QED
  BY <1>3, <1>4, <1>5 DEF Fractions

LEMMA SumOfNothing ==
  ASSUME NEW f \in Fractions
  PROVE  Sum(<<0, 1>>, f) = f
<1>1. PICK a, b : a = f[1] /\ b = f[2]
  OBVIOUS
<1>2. a \in Nat /\ b \in Nat /\ f = <<a, b>>
  BY <1>1, FractionIs
<1>3. 0 * b + a * 1 = a /\ 1 * b = b
  BY <1>2
<1>4. Sum(<<0, 1>>, f) = <<0 * b + a * 1, 1 * b>>
  BY <1>1 DEF Sum
<1>. QED
  BY <1>2, <1>3, <1>4

\* Sums grow with their parts.
LEMMA SumsGrow ==
  ASSUME NEW s \in Fractions, NEW t \in Fractions, NEW u \in Fractions, NEW v \in Fractions,
         ~Less(u, s), ~Less(v, t), Less(s, u) \/ Less(t, v)
  PROVE  Less(Sum(s, t), Sum(u, v))
<1>1. PICK a, b, c, d, e, f, g, h :
        /\ a = s[1] /\ b = s[2] /\ c = t[1] /\ d = t[2]
        /\ e = u[1] /\ f = u[2] /\ g = v[1] /\ h = v[2]
  OBVIOUS
<1>2. /\ a \in Nat /\ c \in Nat /\ e \in Nat /\ g \in Nat
      /\ b \in Nat \ {0} /\ d \in Nat \ {0} /\ f \in Nat \ {0} /\ h \in Nat \ {0}
  BY <1>1, FractionIs
<1>3. PICK af, eb, ch, gd, dh, bf :
        af = a * f /\ eb = e * b /\ ch = c * h /\ gd = g * d /\ dh = d * h /\ bf = b * f
  OBVIOUS
<1>4. /\ af \in Nat /\ eb \in Nat /\ ch \in Nat /\ gd \in Nat
      /\ dh \in Nat \ {0} /\ bf \in Nat \ {0}
  BY <1>2, <1>3
<1>5. /\ af <= eb /\ ch <= gd /\ (af < eb \/ ch < gd)
  BY <1>1, <1>3, <1>4 DEF Less
<1>6. af * dh <= eb * dh /\ (af < eb => af * dh < eb * dh)
  BY <1>4, <1>5, ProductGrows
<1>7. ch * bf <= gd * bf /\ (ch < gd => ch * bf < gd * bf)
  BY <1>4, <1>5, ProductGrows
<1>8. af * dh \in Nat /\ eb * dh \in Nat /\ ch * bf \in Nat /\ gd * bf \in Nat
  BY <1>4
<1>9. af * dh + ch * bf < eb * dh + gd * bf
  BY <1>5, <1>6, <1>7, <1>8
<1>10. /\ (a * d + c * b) * (f * h) = af * dh + ch * bf
       /\ (e * h + g * f) * (b * d) = eb * dh + gd * bf
  BY <1>2, <1>3
<1>11. Less(Sum(s, t), Sum(u, v))
         <=> (a * d + c * b) * (f * h) < (e * h + g * f) * (b * d)
  BY <1>1 DEF Less, Sum
<1>. QED
  BY <1>9, <1>10, <1>11

-----------------------------------------------------------------------------
\* A document is in a list once, or not at all.
OnceIn(list, n) ==
  /\ n \in Nat /\ DOMAIN list = 1..n
  /\ \A i, j \in 1..n : list[i].doc = list[j].doc => i = j

\* What a document adds up to then.
TotalOf(list, n, doc, share, x) ==
  /\ \A i \in 1..n : list[i].doc = doc => x = share[i]
  /\ (\A i \in 1..n : list[i].doc # doc) => x = <<0, 1>>

LEMMA TotalIs ==
  ASSUME NEW n, NEW list, OnceIn(list, n), NEW doc,
         NEW share, \A i \in 1..n : share[i] \in Fractions
  PROVE  TotalOf(list, n, doc, share, Total(list, doc, share)) /\ Total(list, doc, share) \in Fractions
<1>. DEFINE Base == <<0, 1>>
            Step(x, i) == IF list[i].doc = doc THEN Sum(x, share[i]) ELSE x
            G == [p \in (1..n) \X Fractions |-> Step(p[2], p[1])]
            order == [i \in DOMAIN list |-> i]
            Lit(h) == h = [S \in SUBSET DOMAIN order |->
                        IF S = {} THEN Base
                        ELSE Step(h[S \ {Max(S)}], order[Max(S)])]
<1>1. n \in Nat /\ DOMAIN list = 1..n /\ \A i, j \in 1..n : list[i].doc = list[j].doc => i = j
  BY DEF OnceIn
<1>2. DOMAIN order = 1..n /\ \A k \in 1..n : order[k] = k
  BY <1>1
<1>3. ASSUME NEW i \in 1..n, NEW x \in Fractions
      PROVE  G[<<i, x>>] = Step(x, i) /\ G[<<i, x>>] \in Fractions /\ Step(x, i) \in Fractions
  <2>1. share[i] \in Fractions
    OBVIOUS
  <2>2. Sum(x, share[i]) \in Fractions
    BY <2>1, SumIsFraction
  <2>3. Step(x, i) \in Fractions
    BY <2>2
  <2>4. G[<<i, x>>] = Step(x, i)
    <3>. HIDE DEF Step
    <3>. QED
      OBVIOUS
  <2>. QED
    BY <2>3, <2>4
<1>4. Base \in Fractions
  BY DEF Fractions
<1>5. PICK h : Follows(h, n, Fractions, Base, G)
  <2>. HIDE DEF G, Base
  <2>. QED
    BY <1>1, <1>3, <1>4, FoldExists
<1>6. Lit(h)
  <2>1. ASSUME NEW S \in SUBSET (1..n)
        PROVE  h[S] = IF S = {} THEN Base ELSE Step(h[S \ {Max(S)}], order[Max(S)])
    <3>1. CASE S = {}
      <4>. HIDE DEF Base, Step, G
      <4>. QED
        BY <1>5, <3>1 DEF Follows
    <3>2. CASE S # {}
      <4>1. PICK m, x : m = Max(S) /\ x = h[S \ {m}]
        OBVIOUS
      <4>2. m \in 1..n /\ x \in Fractions /\ h[S] = G[<<m, x>>]
        <5>. HIDE DEF G, Base
        <5>. QED
          BY <1>5, <3>2, <4>1 DEF Follows
      <4>3. h[S] = Step(x, m)
        <5>. HIDE DEF G, Step
        <5>. QED
          BY <1>3, <4>2
      <4>4. order[m] = m
        <5>. HIDE DEF order
        <5>. QED
          BY <1>2, <4>2
      <4>. HIDE DEF order, Step
      <4>. QED
        BY <3>2, <4>1, <4>3, <4>4
    <3>. QED
      BY <3>1, <3>2
  <2>2. h = [S \in SUBSET (1..n) |-> h[S]]
    <3>. HIDE DEF Base, G
    <3>. QED
      BY <1>5 DEF Follows
  <2>. HIDE DEF order, Step, Base
  <2>. QED
    BY <1>2, <2>1, <2>2
<1>7. PICK f : f = CHOOSE g : Lit(g)
  OBVIOUS
<1>8. Lit(f)
  <2>. HIDE DEF Lit
  <2>. QED
    BY <1>6, <1>7
<1>9. Total(list, doc, share) = f[1..n]
  <2>1. Total(list, doc, share) = f[DOMAIN order]
    BY <1>7 DEF Total, FoldLeft, MapThenFoldSet
  <2>. HIDE DEF order
  <2>. QED
    BY <1>2, <2>1
<1>10. f[{}] = Base /\ \A i \in 1..n : Upto(f, i) = Step(Upto(f, i - 1), i)
  <2>1. {} \in SUBSET DOMAIN order
    OBVIOUS
  <2>2. f[{}] = Base
    <3>. HIDE DEF order, Step, Base
    <3>. QED
      BY <1>8, <2>1
  <2>3. ASSUME NEW i \in 1..n PROVE Upto(f, i) = Step(Upto(f, i - 1), i)
    <3>1. PICK S, R, m : S = 1..i /\ R = 1..(i - 1) /\ m = Max(S)
      OBVIOUS
    <3>2. S # {} /\ m = i /\ S \ {i} = R
      BY <3>1, UptoNext
    <3>3. S \in SUBSET DOMAIN order
      <4>. HIDE DEF order
      <4>. QED
        BY <1>1, <1>2, <3>1
    <3>4. f[S] = IF S = {} THEN Base ELSE Step(f[S \ {Max(S)}], order[Max(S)])
      <4>. HIDE DEF order, Step, Base
      <4>. QED
        BY <1>8, <3>3
    <3>5. f[S] = Step(f[R], i)
      <4>1. order[i] = i
        <5>. HIDE DEF order
        <5>. QED
          BY <1>2
      <4>. HIDE DEF order, Step, Base
      <4>. QED
        BY <3>1, <3>2, <3>4, <4>1
    <3>. HIDE DEF Step
    <3>. QED
      BY <3>1, <3>5 DEF Upto
  <2>. QED
    BY <2>2, <2>3
<1>. DEFINE Good(i, x) ==
              /\ x \in Fractions
              /\ \A j \in 1..i : list[j].doc = doc => x = share[j]
              /\ (\A j \in 1..i : list[j].doc # doc) => x = Base
            U == {i \in 0..n : Good(i, Upto(f, i))}
<1>11. 0 \in U
  <2>1. 1..0 = {}
    OBVIOUS
  <2>2. Upto(f, 0) = Base
    BY <1>10, <2>1 DEF Upto
  <2>. HIDE DEF Base, Step
  <2>. QED
    BY <1>1, <1>4, <2>1, <2>2
<1>12. ASSUME NEW i \in 1..n, i - 1 \in U PROVE i \in U
  <2>1. PICK x, y : x = Upto(f, i - 1) /\ y = Upto(f, i)
    OBVIOUS
  <2>2. Good(i - 1, x) /\ y = Step(x, i) /\ i \in 0..n
    BY <1>1, <1>10, <1>12, <2>1
  <2>3. \A j \in 1..i : j = i \/ j \in 1..(i - 1)
    OBVIOUS
  <2>4. \A j \in 1..(i - 1) : j \in 1..n /\ j # i /\ j \in 1..i
    BY <1>1
  <2>5. CASE list[i].doc = doc
    <3>1. \A j \in 1..(i - 1) : list[j].doc # doc
      BY <1>1, <2>4, <2>5
    <3>2. x = Base
      BY <2>2, <3>1
    <3>3. y = share[i]
      <4>1. share[i] \in Fractions
        OBVIOUS
      <4>. QED
        BY <2>2, <2>5, <3>2, <4>1, SumOfNothing
    <3>4. Good(i, y)
      BY <2>3, <2>5, <3>1, <3>3
    <3>. QED
      BY <2>1, <2>2, <3>4
  <2>6. CASE list[i].doc # doc
    <3>1. y = x
      BY <2>2, <2>6
    <3>2. Good(i, y)
      <4>. HIDE DEF Base
      <4>. QED
        BY <2>2, <2>3, <2>4, <2>6, <3>1
    <3>. QED
      BY <2>1, <2>2, <3>2
  <2>. QED
    BY <2>5, <2>6
<1>13. Good(n, Upto(f, n))
  <2>1. \A i \in 0..n : i \in U
    <3>. HIDE DEF U
    <3>. QED
      BY <1>1, <1>11, <1>12, Upwards
  <2>2. n \in 0..n
    BY <1>1
  <2>. QED
    BY <2>1, <2>2
<1>. QED
  BY <1>9, <1>13 DEF Upto, TotalOf

\* Hits of distinct documents, as there are in FusedDocs at most.
RankingIn(list, n) ==
  /\ OnceIn(list, n) /\ Len(list) = n
  /\ Cardinality(FusedDocs) \in Nat /\ n <= Cardinality(FusedDocs)

LEMMA PlaceIs ==
  ASSUME NEW n, NEW list, RankingIn(list, n), NEW doc
  PROVE  /\ \A i \in 1..n : list[i].doc = doc => Place(list, doc) = i
         /\ (\A i \in 1..n : list[i].doc # doc) => Place(list, doc) = Cardinality(FusedDocs) + 1
<1>1. /\ n \in Nat /\ DOMAIN list = 1..n /\ Len(list) = n
      /\ \A i, j \in 1..n : list[i].doc = list[j].doc => i = j
  BY DEF RankingIn, OnceIn
<1>2. ASSUME NEW i \in 1..n, list[i].doc = doc PROVE Place(list, doc) = i
  <2>1. doc \in DocsOf(list)
    BY <1>1, <1>2 DEF DocsOf
  <2>2. PICK I : I = {j \in 1..Len(list) : list[j].doc = doc}
    OBVIOUS
  <2>3. i \in I /\ \A j \in I : j = i
    BY <1>1, <1>2, <2>2
  <2>4. Min(I) = i
    <3>1. PICK m : m = Min(I)
      OBVIOUS
    <3>2. i <= i
      BY <1>1
    <3>3. m \in I
      BY <2>3, <3>1, <3>2 DEF Min
    <3>. QED
      BY <2>3, <3>1, <3>3
  <2>5. Place(list, doc) = IF I # {} THEN Min(I) ELSE 0
    BY <2>1, <2>2 DEF Place, SelectInSeq
  <2>. QED
    BY <2>3, <2>4, <2>5
<1>3. ASSUME \A i \in 1..n : list[i].doc # doc
      PROVE  Place(list, doc) = Cardinality(FusedDocs) + 1
  <2>1. doc \notin DocsOf(list)
    BY <1>1, <1>3 DEF DocsOf
  <2>. QED
    BY <2>1 DEF Place
<1>. QED
  BY <1>2, <1>3

\* Shares that are positive, and less for each hit than for those before it.
Falling(share, n) ==
  /\ \A i \in 1..n : share[i] \in Fractions /\ share[i][1] >= 1
  /\ \A i, j \in 1..n : i < j => Less(share[j], share[i])

\* A document gets more the better its place is.
LEMMA PlacesTell ==
  ASSUME NEW n, NEW list, RankingIn(list, n), NEW share, Falling(share, n),
         NEW d, NEW e, NEW x, NEW y,
         x = Total(list, d, share), y = Total(list, e, share)
  PROVE  /\ x \in Fractions /\ y \in Fractions
         /\ ~(Place(list, d) > Place(list, e)) => ~Less(x, y)
         /\ Place(list, d) < Place(list, e) => Less(y, x)
<1>1. n \in Nat /\ Cardinality(FusedDocs) \in Nat /\ n <= Cardinality(FusedDocs) /\ OnceIn(list, n)
  BY DEF RankingIn, OnceIn
<1>2. \A i \in 1..n : share[i] \in Fractions /\ share[i][1] >= 1
  BY DEF Falling
<1>3. /\ TotalOf(list, n, d, share, x) /\ x \in Fractions
      /\ TotalOf(list, n, e, share, y) /\ y \in Fractions
  BY <1>1, <1>2, TotalIs
<1>4. ~Less(x, x) /\ ~Less(y, y) /\ ~(Less(x, y) /\ Less(y, x))
  <2>1. IsScore(x) /\ IsScore(y)
    BY <1>3, FractionIs
  <2>2. \A s, t : Less(s, t) <=> Lower(s, t)
    BY DEF Less, Lower
  <2>. QED
    BY <2>1, <2>2, LowerOrders
<1>5. CASE \E i \in 1..n : list[i].doc = d
  <2>1. PICK i \in 1..n : list[i].doc = d
    BY <1>5
  <2>2. Place(list, d) = i /\ x = share[i]
    BY <1>3, <2>1, PlaceIs DEF TotalOf
  <2>3. CASE \E j \in 1..n : list[j].doc = e
    <3>1. PICK j \in 1..n : list[j].doc = e
      BY <2>3
    <3>2. Place(list, e) = j /\ y = share[j]
      BY <1>3, <3>1, PlaceIs DEF TotalOf
    <3>3. i < j => Less(y, x)
      BY <2>2, <3>2 DEF Falling
    <3>4. i = j => x = y
      BY <2>2, <3>2
    <3>5. i \in Nat /\ j \in Nat
      BY <1>1
    <3>6. ~(i > j) => i < j \/ i = j
      BY <3>5
    <3>. QED
      BY <1>3, <1>4, <2>2, <3>2, <3>3, <3>4, <3>6
  <2>4. CASE \A j \in 1..n : list[j].doc # e
    <3>1. y = <<0, 1>>
      BY <1>3, <2>4 DEF TotalOf
    <3>2. x[1] >= 1 /\ x[2] \in Nat \ {0} /\ x[1] \in Nat
      BY <1>2, <1>3, <2>2, FractionIs
    <3>3. Less(y, x)
      <4>1. 0 * x[2] = 0 /\ x[1] * 1 = x[1]
        BY <3>2
      <4>. QED
        BY <3>1, <3>2, <4>1 DEF Less
    <3>. QED
      BY <1>3, <1>4, <3>3
  <2>. QED
    BY <2>3, <2>4
<1>6. CASE \A i \in 1..n : list[i].doc # d
  <2>1. x = <<0, 1>> /\ Place(list, d) = Cardinality(FusedDocs) + 1
    BY <1>3, <1>6, PlaceIs DEF TotalOf
  <2>2. CASE \E j \in 1..n : list[j].doc = e
    <3>1. PICK j \in 1..n : list[j].doc = e
      BY <2>2
    <3>2. Place(list, e) = j
      BY <3>1, PlaceIs
    <3>3. Place(list, d) > Place(list, e)
      BY <1>1, <2>1, <3>2
    <3>4. ~(Place(list, d) < Place(list, e))
      BY <1>1, <2>1, <3>2
    <3>. QED
      BY <1>3, <3>3, <3>4
  <2>3. CASE \A j \in 1..n : list[j].doc # e
    <3>1. y = <<0, 1>> /\ Place(list, e) = Cardinality(FusedDocs) + 1
      BY <1>3, <2>3, PlaceIs DEF TotalOf
    <3>2. ~(Place(list, d) < Place(list, e))
      BY <1>1, <2>1, <3>1
    <3>3. x = y
      BY <2>1, <3>1
    <3>. QED
      BY <1>3, <1>4, <3>2, <3>3
  <2>. QED
    BY <2>2, <2>3
<1>. QED
  BY <1>5, <1>6

-----------------------------------------------------------------------------
(* Rankings that are sorted and cut off.                                   *)

\* fused is the beginning, of length m, of s, which has all of docs, sorted.
CutFrom(fused, m, s, n, docs, score) ==
  /\ n \in Nat /\ m \in 0..n /\ s \in [1..n -> docs]
  /\ \A i, j \in 1..n : s[i] = s[j] => i = j
  /\ \A d \in docs : \E i \in 1..n : s[i] = d
  /\ \A i, j \in 1..n : i < j => ~Less(score[s[i]], score[s[j]])
  /\ Len(fused) = m /\ DOMAIN fused = 1..m /\ \A i \in 1..m : fused[i] = s[i]

LEMMA AllRanked ==
  ASSUME NEW n \in Nat, NEW docs, IsFiniteSet(docs), Cardinality(docs) = n,
         NEW s \in [1..n -> docs], \A i, j \in 1..n : s[i] = s[j] => i = j
  PROVE  \A d \in docs : \E i \in 1..n : s[i] = d
<1>1. IsFiniteSet(1..n) /\ Cardinality(1..n) = n
  BY CountUpTo
<1>2. s \in Injection(1..n, docs)
  BY DEF Injection, IsInjective
<1>3. Cardinality(1..n) = Cardinality(docs) <=> s \in Surjection(1..n, docs)
  BY <1>2, FS_Injection
<1>4. s \in Surjection(1..n, docs)
  BY <1>1, <1>3
<1>. QED
  BY <1>4 DEF Surjection

LEMMA RankedIs ==
  ASSUME NEW docs, IsFiniteSet(docs), NEW score, DOMAIN score = docs,
         NEW topK \in Nat, NEW fused \in Ranked(score, topK),
         NEW n, n = Cardinality(docs), NEW m, m = IF topK < n THEN topK ELSE n
  PROVE  \E s : CutFrom(fused, m, s, n, docs, score)
<1>1. n \in Nat /\ m \in 0..n /\ m \in Nat
  <2>1. n \in Nat
    BY FS_CardinalityType
  <2>. QED
    BY <2>1
<1>2. PICK s \in SetToSeqs(docs) :
        BestFirst(s, score) /\ fused = SubSeq(s, 1, IF topK < Len(s) THEN topK ELSE Len(s))
  BY DEF Ranked
<1>3. s \in [1..n -> docs] /\ \A i, j \in 1..n : s[i] = s[j] => i = j
  BY <1>2 DEF SetToSeqs
<1>4. Len(s) = n /\ DOMAIN s = 1..n
  BY <1>1, <1>3
<1>5. fused = SubSeq(s, 1, m)
  BY <1>2, <1>4
<1>6. \A i \in 1..m : i \in 1..n
  BY <1>1
<1>7. Len(fused) = m /\ DOMAIN fused = 1..m /\ \A i \in 1..m : fused[i] = s[i]
  <2>1. s \in Seq(docs)
    BY <1>1, <1>3
  <2>. QED
    BY <1>1, <1>4, <1>5, <2>1
<1>8. \A d \in docs : \E i \in 1..n : s[i] = d
  BY <1>1, <1>3, AllRanked
<1>9. \A i, j \in 1..n : i < j => ~Less(score[s[i]], score[s[j]])
  BY <1>2, <1>4 DEF BestFirst
<1>. QED
  BY <1>1, <1>3, <1>7, <1>8, <1>9 DEF CutFrom

\* The place of d in fused, 0 when it is cut off.
PlaceIn(fused, d) == SelectInSeq(fused, LAMBDA x : x = d)

LEMMA PlaceInIs ==
  ASSUME NEW fused, NEW m \in Nat, Len(fused) = m, NEW d,
         \A i, j \in 1..m : fused[i] = fused[j] => i = j
  PROVE  /\ \A i \in 1..m : fused[i] = d => PlaceIn(fused, d) = i
         /\ PlaceIn(fused, d) # 0 => \E i \in 1..m : fused[i] = d
<1>1. PICK I : I = {j \in 1..Len(fused) : fused[j] = d}
  OBVIOUS
<1>2. PlaceIn(fused, d) = IF I # {} THEN Min(I) ELSE 0
  BY <1>1 DEF PlaceIn, SelectInSeq
<1>3. ASSUME NEW i \in 1..m, fused[i] = d PROVE PlaceIn(fused, d) = i
  <2>1. i \in I /\ \A j \in I : j = i
    BY <1>1, <1>3
  <2>2. Min(I) = i
    <3>1. PICK k : k = Min(I)
      OBVIOUS
    <3>2. i <= i
      OBVIOUS
    <3>3. k \in I
      BY <2>1, <3>1, <3>2 DEF Min
    <3>. QED
      BY <2>1, <3>1, <3>3
  <2>. QED
    BY <1>2, <2>1, <2>2
<1>4. PlaceIn(fused, d) # 0 => \E i \in 1..m : fused[i] = d
  BY <1>1, <1>2
<1>. QED
  BY <1>3, <1>4

\* The parts of Agrees, by name.
FusedOnes == DocsOf(input.dense) \cup DocsOf(input.sparse)
NoneAhead(fused) ==
  \A d, e \in FusedOnes :
    Better(d, e) /\ PlaceIn(fused, e) # 0
      => PlaceIn(fused, d) # 0 /\ PlaceIn(fused, d) < PlaceIn(fused, e)

LEMMA AgreesIs ==
  ASSUME NEW fused, IsInjective(fused), ToSet(fused) \subseteq FusedOnes, NoneAhead(fused),
         Len(fused) = IF input.topK < Cardinality(FusedOnes) THEN input.topK
                      ELSE Cardinality(FusedOnes)
  PROVE  Agrees(fused)
<1>1. PICK docs, place :
        /\ docs = FusedOnes
        /\ place = [d \in docs |-> SelectInSeq(fused, LAMBDA x : x = d)]
  OBVIOUS
<1>2. \A d \in docs : place[d] = PlaceIn(fused, d)
  BY <1>1 DEF PlaceIn
<1>3. \A d, e \in docs :
        Better(d, e) /\ place[e] # 0 => place[d] # 0 /\ place[d] < place[e]
  BY <1>1, <1>2 DEF NoneAhead
<1>. QED
  BY <1>1, <1>3 DEF Agrees, FusedOnes

\* A ranking agrees when better documents have more.
LEMMA RankedAgrees ==
  ASSUME IsFiniteSet(FusedOnes), input.topK \in Nat,
         NEW score, DOMAIN score = FusedOnes,
         \A d, e \in FusedOnes : Better(d, e) => Less(score[e], score[d]),
         NEW fused \in Ranked(score, input.topK)
  PROVE  Agrees(fused)
<1>1. PICK docs, n, m, topK :
        /\ docs = FusedOnes /\ topK = input.topK /\ n = Cardinality(docs)
        /\ m = IF topK < n THEN topK ELSE n
  OBVIOUS
<1>2. PICK s : CutFrom(fused, m, s, n, docs, score)
  BY <1>1, RankedIs
<1>3. /\ n \in Nat /\ m \in 0..n /\ m \in Nat /\ s \in [1..n -> docs]
      /\ \A i, j \in 1..n : s[i] = s[j] => i = j
      /\ \A d \in docs : \E i \in 1..n : s[i] = d
      /\ \A i, j \in 1..n : i < j => ~Less(score[s[i]], score[s[j]])
      /\ Len(fused) = m /\ DOMAIN fused = 1..m /\ \A i \in 1..m : fused[i] = s[i]
      /\ \A i \in 1..m : i \in 1..n
  BY <1>2 DEF CutFrom
<1>4. \A i, j \in 1..m : fused[i] = fused[j] => i = j
  BY <1>3
<1>5. IsInjective(fused)
  BY <1>3, <1>4 DEF IsInjective
<1>6. ToSet(fused) \subseteq docs
  BY <1>3 DEF ToSet
<1>7. NoneAhead(fused)
  <2>. SUFFICES ASSUME NEW d \in docs, NEW e \in docs, Better(d, e), PlaceIn(fused, e) # 0
                PROVE  PlaceIn(fused, d) # 0 /\ PlaceIn(fused, d) < PlaceIn(fused, e)
    BY <1>1 DEF NoneAhead
  <2>1. PICK j \in 1..m : fused[j] = e
    BY <1>3, <1>4, PlaceInIs
  <2>2. PlaceIn(fused, e) = j /\ j \in 1..n /\ s[j] = e
    BY <1>3, <1>4, <2>1, PlaceInIs
  <2>3. PICK i \in 1..n : s[i] = d
    BY <1>3
  <2>4. Less(score[e], score[d])
    BY <1>1
  <2>5. i # j
    <3>1. ASSUME i = j PROVE FALSE
      <4>1. d = e
        BY <2>2, <2>3, <3>1
      <4>2. Better(d, d)
        BY <4>1
      <4>3. \A list : Place(list, d) < Place(list, d) => Place(list, d) > Place(list, d)
        OBVIOUS
      <4>. QED
        BY <4>2 DEF Better
    <3>. QED
      BY <3>1
  <2>6. ~(j < i)
    BY <1>3, <2>2, <2>3, <2>4
  <2>7. i < j /\ i \in 1..m
    BY <1>3, <2>5, <2>6
  <2>8. PlaceIn(fused, d) = i
    <3>1. fused[i] = d
      BY <1>3, <2>3, <2>7
    <3>. QED
      BY <1>3, <1>4, <2>7, <3>1, PlaceInIs
  <2>. QED
    BY <2>2, <2>7, <2>8
<1>. QED
  BY <1>1, <1>3, <1>5, <1>6, <1>7, AgreesIs

-----------------------------------------------------------------------------
(* The two strategies.                                                     *)

LEMMA BetterGetsMore ==
  ASSUME NEW m, RankingIn(input.dense, m), NEW n, RankingIn(input.sparse, n),
         NEW f, Falling(f, m), NEW g, Falling(g, n), NEW d, NEW e, Better(d, e)
  PROVE  Less(Sum(Total(input.dense, e, f), Total(input.sparse, e, g)),
              Sum(Total(input.dense, d, f), Total(input.sparse, d, g)))
<1>1. PICK s, t, u, v :
        /\ s = Total(input.dense, e, f) /\ t = Total(input.sparse, e, g)
        /\ u = Total(input.dense, d, f) /\ v = Total(input.sparse, d, g)
  OBVIOUS
<1>2. /\ s \in Fractions /\ u \in Fractions
      /\ ~(Place(input.dense, d) > Place(input.dense, e)) => ~Less(u, s)
      /\ Place(input.dense, d) < Place(input.dense, e) => Less(s, u)
  BY <1>1, PlacesTell
<1>3. /\ t \in Fractions /\ v \in Fractions
      /\ ~(Place(input.sparse, d) > Place(input.sparse, e)) => ~Less(v, t)
      /\ Place(input.sparse, d) < Place(input.sparse, e) => Less(t, v)
  BY <1>1, PlacesTell
<1>4. ~Less(u, s) /\ ~Less(v, t) /\ (Less(s, u) \/ Less(t, v))
  BY <1>2, <1>3 DEF Better
<1>5. Less(Sum(s, t), Sum(u, v))
  BY <1>2, <1>3, <1>4, SumsGrow
<1>. QED
  BY <1>1, <1>5

\* Scores that are positive and fall.
Scored(list, n) ==
  /\ RankingIn(list, n)
  /\ \A i \in 1..n : list[i].score \in Nat \ {0}
  /\ \A i, j \in 1..n : i < j => list[j].score < list[i].score

LEMMA RankShares ==
  ASSUME NEW n \in Nat, NEW share, share = [i \in 1..n |-> <<1, RrfK + i>>]
  PROVE  Falling(share, n)
<1>1. \A i \in 1..n : RrfK + i \in Nat \ {0} /\ i \in Nat
  BY FusionConstants
<1>2. \A i \in 1..n : share[i] \in Fractions /\ share[i][1] >= 1
  BY <1>1 DEF Fractions
<1>3. ASSUME NEW i \in 1..n, NEW j \in 1..n, i < j PROVE Less(share[j], share[i])
  <2>1. share[j][1] * share[i][2] = RrfK + i /\ share[i][1] * share[j][2] = RrfK + j
    BY <1>1
  <2>. QED
    BY <1>1, <1>3, <2>1, FusionConstants DEF Less
<1>. QED
  BY <1>2, <1>3 DEF Falling

\* Scores times a weight, in parts of a whole.
LEMMA WeightShares ==
  ASSUME NEW n \in Nat, NEW list, Scored(list, n), NEW w \in Nat \ {0}, NEW q \in Nat \ {0},
         NEW share, share = [i \in 1..n |-> <<w * list[i].score, q>>]
  PROVE  Falling(share, n)
<1>1. PICK x : x = [i \in 1..n |-> list[i].score]
  OBVIOUS
<1>2. /\ \A i \in 1..n : x[i] \in Nat \ {0} /\ share[i] = <<w * x[i], q>>
      /\ \A i, j \in 1..n : i < j => x[j] < x[i]
  BY <1>1 DEF Scored
<1>3. ASSUME NEW i \in 1..n PROVE share[i] \in Fractions /\ share[i][1] >= 1
  <2>1. PICK y : y = w * x[i]
    OBVIOUS
  <2>2. y \in Nat \ {0}
    BY <1>2, <2>1
  <2>3. share[i] = <<y, q>>
    BY <1>2, <2>1
  <2>. QED
    BY <2>2, <2>3 DEF Fractions
<1>4. ASSUME NEW i \in 1..n, NEW j \in 1..n, i < j PROVE Less(share[j], share[i])
  <2>1. PICK a, b, y, z : a = x[i] /\ b = x[j] /\ y = w * a /\ z = w * b
    OBVIOUS
  <2>2. a \in Nat /\ b \in Nat /\ b < a
    BY <1>2, <1>4, <2>1
  <2>3. y = a * w /\ z = b * w /\ y \in Nat /\ z \in Nat
    <3>1. a * w = w * a /\ b * w = w * b /\ w * a \in Nat /\ w * b \in Nat
      BY <2>2
    <3>. QED
      BY <2>1, <3>1
  <2>4. z < y
    BY <2>2, <2>3, ProductGrows
  <2>5. z * q < y * q
    BY <2>3, <2>4, ProductGrows
  <2>6. share[i] = <<y, q>> /\ share[j] = <<z, q>>
    BY <1>2, <2>1
  <2>. QED
    BY <2>5, <2>6 DEF Less
<1>. QED
  BY <1>3, <1>4 DEF Falling

\* The calls with rankings.
FusionInput ==
  /\ input.topK \in Nat /\ FusedOnes \subseteq FusedDocs
  /\ \E m : Scored(input.dense, m)
  /\ \E n : Scored(input.sparse, n)

LEMMA RrfAgrees ==
  ASSUME FusionInput, NEW fused \in FuseRrf(input.dense, input.sparse, input.topK)
  PROVE  Agrees(fused)
<1>1. PICK m, n : Scored(input.dense, m) /\ Scored(input.sparse, n)
  BY DEF FusionInput
<1>2. /\ m \in Nat /\ DOMAIN input.dense = 1..m /\ RankingIn(input.dense, m)
      /\ n \in Nat /\ DOMAIN input.sparse = 1..n /\ RankingIn(input.sparse, n)
  BY <1>1 DEF Scored, RankingIn, OnceIn
<1>3. PICK f, g :
        f = [i \in 1..m |-> <<1, RrfK + i>>] /\ g = [i \in 1..n |-> <<1, RrfK + i>>]
  OBVIOUS
<1>4. Falling(f, m) /\ Falling(g, n)
  BY <1>2, <1>3, RankShares
<1>5. PICK score :
        score = [doc \in FusedOnes |-> Sum(Total(input.dense, doc, f), Total(input.sparse, doc, g))]
  OBVIOUS
<1>6. \A d, e \in FusedOnes : Better(d, e) => Less(score[e], score[d])
  BY <1>2, <1>4, <1>5, BetterGetsMore
<1>7. IsFiniteSet(FusedOnes)
  BY AlgorithmsConstants, FS_Subset DEF FusionInput
<1>8. FuseRrf(input.dense, input.sparse, input.topK) = Ranked(score, input.topK)
  BY <1>2, <1>3, <1>5 DEF FuseRrf, FusedOnes
<1>9. DOMAIN score = FusedOnes /\ input.topK \in Nat
  BY <1>5 DEF FusionInput
<1>. QED
  BY <1>6, <1>7, <1>8, <1>9, RankedAgrees

LEMMA WeightedAgrees ==
  ASSUME FusionInput, NEW alpha \in Tenths,
         NEW fused \in FuseWeighted(input.dense, input.sparse, input.topK, alpha)
  PROVE  Agrees(fused)
<1>1. PICK m, n : Scored(input.dense, m) /\ Scored(input.sparse, n)
  BY DEF FusionInput
<1>2. /\ m \in Nat /\ DOMAIN input.dense = 1..m /\ RankingIn(input.dense, m)
      /\ n \in Nat /\ DOMAIN input.sparse = 1..n /\ RankingIn(input.sparse, n)
  BY <1>1 DEF Scored, RankingIn, OnceIn
<1>3. alpha \in Nat \ {0} /\ 10 - alpha \in Nat \ {0}
  BY AlgorithmsConstants
<1>4. PICK q : q = 10 * MaxSparse(input.sparse)
  OBVIOUS
<1>5. PICK f, g :
        /\ f = [i \in 1..m |-> <<alpha * input.dense[i].score, 10>>]
        /\ g = [i \in 1..n |-> <<(10 - alpha) * input.sparse[i].score, q>>]
  OBVIOUS
<1>6. Falling(f, m)
  <2>1. PICK ten : ten = 10
    OBVIOUS
  <2>2. ten \in Nat \ {0} /\ f = [i \in 1..m |-> <<alpha * input.dense[i].score, ten>>]
    BY <1>5, <2>1
  <2>. QED
    BY <1>1, <1>2, <1>3, <2>2, WeightShares
<1>7. Falling(g, n)
  <2>1. CASE n = 0
    BY <2>1 DEF Falling
  <2>2. CASE n # 0
    <3>1. input.sparse[1].score \in Nat \ {0}
      <4>1. 1 \in 1..n
        BY <1>2, <2>2
      <4>. QED
        BY <1>1, <4>1 DEF Scored
    <3>2. MaxSparse(input.sparse) \in Nat \ {0}
      BY <3>1 DEF MaxSparse
    <3>3. q \in Nat \ {0}
      BY <1>4, <3>2
    <3>. QED
      BY <1>1, <1>2, <1>3, <1>5, <3>3, WeightShares
  <2>. QED
    BY <2>1, <2>2
<1>8. PICK score :
        score = [doc \in FusedOnes |-> Sum(Total(input.dense, doc, f), Total(input.sparse, doc, g))]
  OBVIOUS
<1>9. \A d, e \in FusedOnes : Better(d, e) => Less(score[e], score[d])
  BY <1>2, <1>6, <1>7, <1>8, BetterGetsMore
<1>10. IsFiniteSet(FusedOnes)
  BY AlgorithmsConstants, FS_Subset DEF FusionInput
<1>11. FuseWeighted(input.dense, input.sparse, input.topK, alpha) = Ranked(score, input.topK)
  BY <1>2, <1>4, <1>5, <1>8 DEF FuseWeighted, FusedOnes
<1>12. DOMAIN score = FusedOnes /\ input.topK \in Nat
  BY <1>8 DEF FusionInput
<1>. QED
  BY <1>9, <1>10, <1>11, <1>12, RankedAgrees

\* The calls with rankings fuse two of distinct documents.
FusionInputOK == input.kind = "fusion" => FusionInput

RankingOK(list) == DocsOf(list) \subseteq FusedDocs /\ \E n : Scored(list, n)

LEMMA RankingsOK ==
  ASSUME NEW list \in Rankings
  PROVE  RankingOK(list)
<1>1. PICK S, docs, scores :
        /\ S \in SUBSET FusedDocs /\ docs \in SetToSeqs(S) /\ scores \in ScoreLists
        /\ list = [i \in DOMAIN docs |-> [doc |-> docs[i], score |-> scores[i]]]
  BY DEF Rankings
<1>2. PICK n, N : n = Cardinality(S) /\ N = Cardinality(FusedDocs)
  OBVIOUS
<1>3. n \in Nat /\ N \in Nat /\ n <= N
  <2>1. IsFiniteSet(FusedDocs) /\ S \in SUBSET FusedDocs
    BY <1>1, AlgorithmsConstants
  <2>2. IsFiniteSet(S) /\ n <= N
    BY <1>2, <2>1, FS_Subset
  <2>. QED
    BY <1>2, <2>1, <2>2, FS_CardinalityType
<1>4. docs \in [1..n -> S] /\ \A i, j \in 1..n : docs[i] = docs[j] => i = j
  BY <1>1, <1>2 DEF SetToSeqs
<1>5. /\ \A i \in 1..n : scores[i] \in Nat \ {0}
      /\ \A i, j \in 1..n : i < j => scores[j] < scores[i]
  <2>1. /\ scores \in Seq(Nat \ {0}) /\ Len(scores) >= N
        /\ \A i, j \in DOMAIN scores : i < j => scores[j] < scores[i]
    BY <1>1, <1>2, AlgorithmsConstants
  <2>2. \A i \in 1..n : i \in DOMAIN scores
    BY <1>3, <2>1
  <2>. QED
    BY <2>1, <2>2
<1>6. /\ DOMAIN list = 1..n
      /\ \A i \in 1..n : list[i].doc = docs[i] /\ list[i].score = scores[i]
  BY <1>1, <1>4
<1>7. Len(list) = n
  <2>1. list = [i \in 1..n |-> [doc |-> docs[i], score |-> scores[i]]]
    BY <1>1, <1>4
  <2>. QED
    BY <1>3, <2>1
<1>8. Scored(list, n)
  <2>1. RankingIn(list, n)
    BY <1>2, <1>3, <1>4, <1>6, <1>7 DEF RankingIn, OnceIn
  <2>2. \A i \in 1..n : list[i].score \in Nat \ {0}
    BY <1>5, <1>6
  <2>3. \A i, j \in 1..n : i < j => list[j].score < list[i].score
    BY <1>5, <1>6
  <2>. QED
    BY <2>1, <2>2, <2>3 DEF Scored
<1>9. DocsOf(list) \subseteq FusedDocs
  BY <1>1, <1>4, <1>6 DEF DocsOf
<1>. QED
  BY <1>8, <1>9 DEF RankingOK

LEMMA CallsFusionInputOK ==
  ASSUME NEW inputs \in {VectorPairs, Filters, Fusions, Appends, Saves}, Call(inputs)
  PROVE  FusionInputOK'
<1>1. CASE inputs = VectorPairs
  <2>1. PICK n, p, r, x, y :
          input' = [kind |-> "vectors", a |-> Unit(n, p, x), b |-> Unit(n, r, y)]
    BY <1>1 DEF Call, VectorPairs
  <2>. QED
    BY <2>1 DEF FusionInputOK
<1>2. CASE inputs \in {Filters, Appends, Saves}
  <2>1. /\ \A x \in Filters : x.kind = "filter"
        /\ \A x \in Appends : x.kind = "page"
        /\ \A x \in Saves : x.kind = "page"
    BY DEF Filters, Appends, Saves
  <2>2. input'.kind # "fusion"
    BY <1>2, <2>1 DEF Call
  <2>. QED
    BY <2>2 DEF FusionInputOK
<1>3. CASE inputs = Fusions
  <2>1. /\ input'.dense \in Rankings /\ input'.sparse \in Rankings
        /\ input'.topK \in 1..Cardinality(FusedDocs)
    BY <1>3 DEF Call, Fusions
  <2>2. RankingOK(input'.dense) /\ RankingOK(input'.sparse)
    BY <2>1, RankingsOK
  <2>3. input'.topK \in Nat
    BY <2>1
  <2>. QED
    BY <2>2, <2>3 DEF RankingOK, FusionInputOK, FusionInput, FusedOnes
<1>. QED
  BY <1>1, <1>2, <1>3

\* Both fusions of two rankings give as many documents as were asked for and
\* there are, each once, and none in front of, or instead of, a better one: for
\* every k of the reciprocal ranks, every weight that gives each ranking a
\* share, rankings of any length, and positive scores that fall.
THEOREM FusionsAlwaysAgree ==
  AlgorithmsInit /\ [][AlgorithmsNext]_input => []FusionAgrees
<1>1. AlgorithmsInit => FusionInputOK
  BY DEF AlgorithmsInit, FusionInputOK, NoCall
<1>2. FusionInputOK /\ [AlgorithmsNext]_input => FusionInputOK'
  <2>. SUFFICES ASSUME FusionInputOK, [AlgorithmsNext]_input PROVE FusionInputOK'
    OBVIOUS
  <2>1. CASE AlgorithmsNext
    BY <2>1, CallsFusionInputOK DEF AlgorithmsNext
  <2>2. CASE UNCHANGED input
    BY <2>2 DEF FusionInputOK, FusionInput, FusedOnes
  <2>. QED
    BY <2>1, <2>2
<1>3. FusionInputOK => FusionAgrees
  BY RrfAgrees, WeightedAgrees DEF FusionInputOK, FusionAgrees
<1>. QED
  BY <1>1, <1>2, <1>3, PTL
=============================================================================

-------------------------------- MODULE Fusion ------------------------------
(***************************************************************************)
(* The fusion of a dense and a sparse ranking in                           *)
(* crates/vexra-query/src/fusion.rs.  A ranking is a sequence of hits,     *)
(* best first.  Scores are fractions of integers; f32 rounding is left     *)
(* out.  Documents of equal score come in the order of a HashMap, so a     *)
(* fusion is the set of the rankings that may come out.                    *)
(***************************************************************************)
EXTENDS Integers, FiniteSets, SequencesExt

CONSTANT RrfK   \* the k of reciprocal rank fusion, 60 by convention

ASSUME FusionConstants == RrfK \in Nat

Sum(f, g) == <<f[1] * g[2] + g[1] * f[2], f[2] * g[2]>>
Less(f, g) == f[1] * g[2] < g[1] * f[2]

DocsOf(list) == {list[i].doc : i \in DOMAIN list}

\* What the hits of doc in a list add up to: and_modify and or_insert.
Total(list, doc, share) ==
  FoldLeft(LAMBDA sum, i : IF list[i].doc = doc THEN Sum(sum, share[i])
                                                ELSE sum,
           <<0, 1>>, [i \in DOMAIN list |-> i])

BestLast(s, score) ==
  \A i, j \in DOMAIN s : i < j => ~Less(score[s[j]], score[s[i]])
BestFirst(s, score) ==
  \A i, j \in DOMAIN s : i < j => ~Less(score[s[i]], score[s[j]])

\* Sorted by score and cut off after top_k.
Ranked(score, topK) ==
  {SubSeq(s, 1, IF topK < Len(s) THEN topK ELSE Len(s)) :
     s \in {t \in SetToSeqs(DOMAIN score) : BestFirst(t, score)}}

\* The hit at index i has rank i - 1, and 1 / (k + rank + 1).
FuseRrf(dense, sparse, topK) ==
  LET Shares(list) == [i \in DOMAIN list |-> <<1, RrfK + i>>]
  IN Ranked([doc \in DocsOf(dense) \cup DocsOf(sparse) |->
               Sum(Total(dense, doc, Shares(dense)),
                   Total(sparse, doc, Shares(sparse)))],
            topK)

\* The sparse score to divide by, at least 1e-6; BM25 scores are not negative,
\* so a first score of 0 means that all are.
MaxSparse(sparse) ==
  IF sparse # <<>> /\ sparse[1].score > 0 THEN sparse[1].score ELSE 1

FuseWeighted(dense, sparse, topK, alpha) ==
  LET Dense == [i \in DOMAIN dense |-> <<alpha * dense[i].score, 10>>]
      Sparse == [i \in DOMAIN sparse |->
                   <<(10 - alpha) * sparse[i].score, 10 * MaxSparse(sparse)>>]
  IN Ranked([doc \in DocsOf(dense) \cup DocsOf(sparse) |->
               Sum(Total(dense, doc, Dense), Total(sparse, doc, Sparse))],
            topK)

=============================================================================

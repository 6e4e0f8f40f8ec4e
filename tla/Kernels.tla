------------------------------- MODULE Kernels ------------------------------
(***************************************************************************)
(* The distance kernels of crates/vexra-index/src/distance.rs and their    *)
(* use by DistanceMetric::compute: the portable loops, the AVX2 and NEON   *)
(* loops with their lanes, reductions and remainders, and the dispatch.    *)
(*                                                                         *)
(* Numbers are integers, so a sum is the same in every order: the rounding *)
(* of f32 is left out.  A score is compared with other scores only.  It is *)
(* a fraction that orders them as the code's score does: the Euclidean one *)
(* is squared, and the cosine one is not subtracted from 1, but negated    *)
(* and squared with its sign.                                              *)
(***************************************************************************)
EXTENDS Integers, SequencesExt

Builds == {"scalar", "avx2", "neon"}
Metrics == {"cosine", "euclidean", "dot"}

\* The terms of the three sums, one per element.
Products(a, b) == [i \in DOMAIN a |-> a[i] * b[i]]
Squares(a, b) == [i \in DOMAIN a |-> (a[i] - b[i]) * (a[i] - b[i])]

Plus(x, y) == x + y
SumFrom(terms, i) == FoldLeft(Plus, 0, SubSeq(terms, i, Len(terms)))

Scalar(terms) == SumFrom(terms, 1)

\* The loop over whole registers of w lanes: the lanes, and how many elements
\* are in them; the others are left to the loop over the remainder.
WholeRegisters(terms, w) ==
  LET loop[s \in [i : Nat, lanes : [1..w -> Int]]] ==
        IF s.i + w <= Len(terms)
        THEN loop[[i |-> s.i + w,
                   lanes |-> [l \in 1..w |-> s.lanes[l] + terms[s.i + l]]]]
        ELSE s
  IN loop[[i |-> 0, lanes |-> [l \in 1..w |-> 0]]]

\* horizontal_sum_avx: the halves are added, then neighbors, twice.
AddedOnce(v) ==
  LET half == [l \in 1..4 |-> v[l] + v[l + 4]] IN half[1] + half[2]
HorizontalSum(v) ==
  LET half == [l \in 1..4 |-> v[l] + v[l + 4]]
      Hadd(x) == <<x[1] + x[2], x[3] + x[4], x[1] + x[2], x[3] + x[4]>>
  IN Hadd(Hadd(half))[1]

Avx2(terms) ==
  LET r == WholeRegisters(terms, 8)
  IN HorizontalSum(r.lanes) + SumFrom(terms, r.i + 1)

\* vaddvq_f32 adds the lanes.
Neon(terms) ==
  LET r == WholeRegisters(terms, 4)
  IN SumFrom(r.lanes, 1) + SumFrom(terms, r.i + 1)

SumOf(build, terms) ==
  CASE build = "avx2" -> Avx2(terms)
    [] build = "neon" -> Neon(terms)
    [] OTHER -> Scalar(terms)

EuclideanSquared(build, a, b) == SumOf(build, Squares(a, b))

DotProduct(build, a, b) == SumOf(build, Products(a, b))

\* A vector without a direction is at distance 1, like an orthogonal one.
IfBothZero(na, nb) == na = 0 /\ nb = 0
NoDirection(na, nb) == na = 0 \/ nb = 0

Cosine(build, a, b) ==
  LET dot == DotProduct(build, a, b)
      na == DotProduct(build, a, a)
      nb == DotProduct(build, b, b)
  IN IF NoDirection(na, nb) THEN <<0, 1>>
     ELSE <<IF dot < 0 THEN dot * dot ELSE -(dot * dot), na * nb>>

\* Lower is nearer for each metric: the dot product is negated.
Compute(metric, build, a, b) ==
  CASE metric = "cosine" -> Cosine(build, a, b)
    [] metric = "euclidean" -> <<EuclideanSquared(build, a, b), 1>>
    [] OTHER -> <<-DotProduct(build, a, b), 1>>

\* The order of two scores.
Lower(s, t) == s[1] * t[2] < t[1] * s[2]
=============================================================================

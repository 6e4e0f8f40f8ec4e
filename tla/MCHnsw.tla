------------------------------- MODULE MCHnsw -------------------------------
(* The instance of Hnsw that TLC checks.  Ids are interchangeable.           *)
EXTENDS Hnsw
CONSTANTS a, b, c, d

MCIds == {a, b, c}
FourIds == {a, b, c, d}
\* Four points of a plane, two of them to search for, and a fifth: the last of
\* the four is the nearest to it, behind two that are farther than the first.
MCPoints == {<<11, 50>>, <<40, 25>>, <<20, 0>>, <<0, 0>>}
MCQueries == {<<-10, 23>>, <<40, 25>>, <<0, 0>>}
\* The order of Euclidean distances.
Squared(v, w) ==
  (v[1] - w[1]) * (v[1] - w[1]) + (v[2] - w[2]) * (v[2] - w[2])
MCKs == {1, 3}
Symmetry == Permutations(Ids)
=============================================================================

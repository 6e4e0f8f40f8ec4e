----------------------------- MODULE FoldLemmas -----------------------------
(***************************************************************************)
(* Lemmas that the proof modules of several components rest on: least and  *)
(* greatest numbers, induction from 0 to n, and folds.                     *)
(***************************************************************************)
EXTENDS Integers, FiniteSetsExt, SequencesExt, WellFoundedInduction, TLAPS

-----------------------------------------------------------------------------
(* Folds.  The lemmas of this part are what an induction over a sequence   *)
(* needs: T[i] is what holds of the result after i elements.               *)

LEMMA LeastNumber ==
  ASSUME NEW S \in SUBSET Nat, S # {}
  PROVE  \E n \in S : \A m \in S : n <= m
<1>. DEFINE R == {ss \in Nat \X Nat : ss[1] < ss[2]}
<1>1. IsWellFoundedOn(R, Nat)
  <2>1. OpToRel(<, Nat) = R
    BY DEF OpToRel
  <2>. QED
    BY <2>1, NatLessThanWellFounded
<1>2. PICK x \in S : \A y \in S : ~(<<y, x>> \in R)
  <2>. HIDE DEF R
  <2>. QED
    BY <1>1, WFMin
<1>3. ASSUME NEW y \in S PROVE x <= y
  <2>1. x \in Nat /\ y \in Nat
    OBVIOUS
  <2>2. ~(y < x)
    BY <1>2, <2>1
  <2>. QED
    BY <2>1, <2>2
<1>. QED
  BY <1>3

LEMMA MaxIs ==
  ASSUME NEW S \in SUBSET Int, NEW m \in S, \A y \in S : y <= m
  PROVE  Max(S) = m
<1>1. \A y \in S : m >= y
  OBVIOUS
<1>2. PICK x : x = Max(S)
  OBVIOUS
<1>3. x \in S /\ \A y \in S : x >= y
  BY <1>1, <1>2 DEF Max
<1>4. x >= m /\ m >= x /\ x \in Int /\ m \in Int
  BY <1>1, <1>3
<1>. QED
  BY <1>2, <1>4

LEMMA GreatestNumber ==
  ASSUME NEW n \in Nat, NEW S \in SUBSET (1..n), S # {}
  PROVE  Max(S) \in S /\ \A y \in S : y <= Max(S)
<1>. DEFINE U == {n - i : i \in S}
<1>1. \A i \in S : n - i \in Nat /\ i \in Int
  OBVIOUS
<1>2. U \in SUBSET Nat /\ U # {}
  BY <1>1
<1>3. PICK u \in U : \A w \in U : u <= w
  <2>. HIDE DEF U
  <2>. QED
    BY <1>2, LeastNumber
<1>4. PICK m \in S : u = n - m
  OBVIOUS
<1>5. ASSUME NEW y \in S PROVE y <= m
  <2>1. n - y \in U
    OBVIOUS
  <2>2. n - m <= n - y
    BY <1>3, <1>4, <2>1
  <2>. QED
    BY <1>1, <2>2
<1>6. Max(S) = m
  <2>1. S \in SUBSET Int
    BY <1>1
  <2>. QED
    BY <1>5, <2>1, MaxIs
<1>. QED
  BY <1>5, <1>6

\* Induction from 0 to n.
LEMMA Upwards ==
  ASSUME NEW n \in Nat, NEW P, 0 \in P, \A i \in 1..n : i - 1 \in P => i \in P
  PROVE  \A i \in 0..n : i \in P
<1>. DEFINE U == {i \in 0..n : i \notin P}
<1>. SUFFICES ASSUME U # {} PROVE FALSE
  OBVIOUS
<1>1. PICK k \in U : \A j \in U : k <= j
  <2>1. U \in SUBSET Nat
    OBVIOUS
  <2>. HIDE DEF U
  <2>. QED
    BY <2>1, LeastNumber
<1>2. k \in 1..n /\ k \notin P
  OBVIOUS
<1>3. k - 1 \in 0..n /\ ~(k <= k - 1)
  BY <1>2
<1>4. k - 1 \in P
  BY <1>1, <1>3
<1>. QED
  BY <1>2, <1>4

\* The function that a fold goes by, on the sets of positions: G is its operator.
Follows(h, n, V, base, G) ==
  /\ h = [S \in SUBSET (1..n) |-> h[S]]
  /\ h[{}] = base
  /\ \A S \in SUBSET (1..n) : S # {} =>
       /\ Max(S) \in 1..n
       /\ h[S \ {Max(S)}] \in V
       /\ h[S] = G[<<Max(S), h[S \ {Max(S)}]>>]

\* It exists when G stays in a set.
LEMMA FoldExists ==
  ASSUME NEW n \in Nat, NEW V, NEW base \in V, NEW G,
         \A i \in 1..n : \A x \in V : G[<<i, x>>] \in V
  PROVE  \E h : Follows(h, n, V, base, G)
<1>. DEFINE Step(h, S) ==
              S # {} => /\ Max(S) \in 1..n
                        /\ h[S \ {Max(S)}] \in V
                        /\ h[S] = G[<<Max(S), h[S \ {Max(S)}]>>]
            Sol(h, m) ==
              /\ h = [S \in SUBSET (1..m) |-> h[S]]
              /\ h[{}] = base
              /\ \A S \in SUBSET (1..m) : h[S] \in V /\ Step(h, S)
            P == {m \in 0..n : \E h : Sol(h, m)}
<1>1. 0 \in P
  <2>1. PICK h : h = [S \in SUBSET (1..0) |-> base]
    OBVIOUS
  <2>2. SUBSET (1..0) = {{}} /\ h[{}] = base
    BY <2>1
  <2>3. Sol(h, 0)
    <3>1. h = [S \in SUBSET (1..0) |-> h[S]]
      BY <2>1
    <3>. QED
      BY <2>2, <3>1
  <2>. HIDE DEF Sol
  <2>. QED
    BY <2>3
<1>2. ASSUME NEW m \in 1..n, m - 1 \in P PROVE m \in P
  <2>1. PICK h : Sol(h, m - 1)
    <3>. HIDE DEF Sol
    <3>. QED
      BY <1>2
  <2>2. PICK H : H = [S \in SUBSET (1..m) |-> IF m \in S THEN G[<<m, h[S \ {m}]>>] ELSE h[S]]
    OBVIOUS
  <2>3. ASSUME NEW S \in SUBSET (1..m), m \notin S
        PROVE  S \in SUBSET (1..(m - 1)) /\ H[S] = h[S]
    <3>1. S \in SUBSET (1..(m - 1))
      BY <2>3
    <3>. QED
      BY <2>2, <2>3, <3>1
  <2>4. ASSUME NEW S \in SUBSET (1..m), m \in S
        PROVE  /\ H[S] = G[<<m, h[S \ {m}]>>] /\ H[S \ {m}] = h[S \ {m}]
               /\ Max(S) = m /\ S \ {m} \in SUBSET (1..(m - 1))
    <3>1. \A y \in S : y <= m
      OBVIOUS
    <3>2. S \in SUBSET Int
      OBVIOUS
    <3>3. Max(S) = m
      BY <2>4, <3>1, <3>2, MaxIs
    <3>4. S \ {m} \in SUBSET (1..(m - 1)) /\ S \ {m} \in SUBSET (1..m)
      OBVIOUS
    <3>. QED
      BY <2>2, <2>4, <3>3, <3>4
  <2>5. ASSUME NEW S \in SUBSET (1..m) PROVE H[S] \in V /\ Step(H, S)
    <3>1. CASE m \notin S
      <4>1. h[S] \in V /\ Step(h, S)
        <5>1. S \in SUBSET (1..(m - 1))
          BY <2>3, <3>1
        <5>. HIDE DEF Step
        <5>. QED
          BY <2>1, <5>1
      <4>2. PICK R : R = S \ {Max(S)}
        OBVIOUS
      <4>3. H[R] = h[R]
        <5>1. R \in SUBSET (1..m) /\ m \notin R
          BY <3>1, <4>2
        <5>. QED
          BY <2>3, <5>1
      <4>. QED
        BY <2>3, <3>1, <4>1, <4>2, <4>3
    <3>2. CASE m \in S
      <4>1. PICK R : R = S \ {m}
        OBVIOUS
      <4>2. R \in SUBSET (1..(m - 1)) /\ Max(S) = m /\ H[S] = G[<<m, h[R]>>] /\ H[R] = h[R]
        BY <2>4, <3>2, <4>1
      <4>3. h[R] \in V
        BY <2>1, <4>2
      <4>4. G[<<m, h[R]>>] \in V
        BY <4>3
      <4>. QED
        BY <3>2, <4>1, <4>2, <4>3, <4>4
    <3>. QED
      BY <3>1, <3>2
  <2>6. H[{}] = base
    <3>1. {} \in SUBSET (1..m) /\ m \notin {}
      OBVIOUS
    <3>2. H[{}] = h[{}]
      BY <2>3, <3>1
    <3>. QED
      BY <2>1, <3>2
  <2>7. Sol(H, m)
    <3>1. H = [S \in SUBSET (1..m) |-> H[S]]
      BY <2>2
    <3>. HIDE DEF Step
    <3>. QED
      BY <2>5, <2>6, <3>1
  <2>. HIDE DEF Sol
  <2>. QED
    BY <2>7
<1>3. n \in P
  <2>1. n \in 0..n
    OBVIOUS
  <2>. HIDE DEF P
  <2>. QED
    BY <1>1, <1>2, <2>1, Upwards
<1>4. PICK h : Sol(h, n)
  <2>. HIDE DEF Sol
  <2>. QED
    BY <1>3
<1>5. /\ h = [S \in SUBSET (1..n) |-> h[S]] /\ h[{}] = base
      /\ \A S \in SUBSET (1..n) : Step(h, S)
  <2>. HIDE DEF Step
  <2>. QED
    BY <1>4
<1>6. Follows(h, n, V, base, G)
  BY <1>5 DEF Follows
<1>. QED
  BY <1>6

\* A fold over a sequence of n elements goes from one element to the next.
Upto(f, i) == f[1..i]

LEMMA UptoNext ==
  ASSUME NEW i \in Nat, i # 0
  PROVE  1..i # {} /\ Max(1..i) = i /\ (1..i) \ {i} = 1..(i - 1)
<1>1. i \in 1..i /\ (\A y \in 1..i : y <= i) /\ 1..i \in SUBSET Int
  OBVIOUS
<1>2. Max(1..i) = i
  BY <1>1, MaxIs
<1>. QED
  BY <1>1, <1>2

\* T[i] holds of a fold after i elements.
LEMMA FoldEnds ==
  ASSUME NEW n \in Nat, NEW f, NEW T, f[{}] \in T[0],
         \A i \in 1..n : Upto(f, i - 1) \in T[i - 1] => Upto(f, i) \in T[i]
  PROVE  f[1..n] \in T[n]
<1>. DEFINE P == {i \in 0..n : Upto(f, i) \in T[i]}
<1>1. 0 \in P
  <2>1. 1..0 = {}
    OBVIOUS
  <2>. QED
    BY <2>1 DEF Upto
<1>2. \A i \in 1..n : i - 1 \in P => i \in P
  OBVIOUS
<1>3. n \in P
  <2>1. n \in 0..n
    OBVIOUS
  <2>. HIDE DEF P
  <2>. QED
    BY <1>1, <1>2, <2>1, Upwards
<1>. QED
  BY <1>3 DEF Upto
=============================================================================

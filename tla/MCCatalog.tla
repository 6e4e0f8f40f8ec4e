------------------------------ MODULE MCCatalog -----------------------------
(* The instance of Catalog that TLC checks: two threads, three names for two *)
(* places on a catalog page.  Threads and names are interchangeable.         *)
EXTENDS Catalog, TLC
CONSTANTS t1, t2, a, b, c

MCThreads == {t1, t2}
MCNames == {a, b, c}
TwoNames == {a, b}
SymmetryOfTwo == Permutations(MCThreads) \cup Permutations(TwoNames)
Symmetry == Permutations(MCThreads) \cup Permutations(MCNames)

\* A database that was closed with one collection and opened again.
InitWithOne ==
  \E n \in Names :
    LET root   == RootPages + 1
        config == [name |-> n, pages |-> [i \in 1 .. RootPages |-> i]]
    IN
    /\ phase = "open"
    /\ header = [count |-> root + 1, root |-> root] /\ fileHeader = header
    /\ mem = [p \in 1 .. root |-> IF p = root THEN <<config>> ELSE <<>>] /\ file = mem
    /\ live = (n :> config)
    /\ thread = [t \in Threads |-> Idle]
    /\ failed = {}

SpecWithOne == InitWithOne /\ [][Next]_vars
=============================================================================

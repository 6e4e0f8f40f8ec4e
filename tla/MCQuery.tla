------------------------------ MODULE MCQuery -------------------------------
(* The instances of Query and of Algorithms that TLC checks.  A behavior is  *)
(* either the life of a collection or one call of an algorithm.              *)
EXTENDS Query, Algorithms
CONSTANTS a, b, c

MCDocs == {a, b, c}
MCVecs == {<<1, 0>>, <<2, 0>>, <<-1, 1>>, <<0, 0>>}
Symmetry == Permutations(MCDocs)
MCKs == {2, 5}
MCElements == {1, -2}

\* Two fields; a string, one with a comma that it is a part of, one with an
\* operator in it, and one with half a pair of parentheses.
MCFields == {"x", "y"}
MCTexts == {"red", "dark, red", "it CONTAINS red", ":("}
MCWithin(s, t) == s = t \/ (s = "red" /\ t # ":(")
MCMentions(s) == s = "it CONTAINS red"
MCParens(s) == IF s = ":(" THEN 1 ELSE 0
MCItems(s) == IF s = "dark, red" THEN {"dark", "red"} ELSE {s}
MCQuantities == {1, 2}
MCMetas == {"x" :> [str |-> "dark, red"], "x" :> [int |-> 2] @@ "y" :> [str |-> "red"]}

MCScoreLists == {<<3, 2, 1>>, <<9, 2, 1>>}
MCTenths == {2, 5}

\* The page sizes end one below the largest u16 offset, at it and behind it; one
\* cell is as long as a u16 cannot say, and a graph can have a node too many.
MCPageSizes == {80, 127, 128, 160}
MCCellSizes == {8, 16, 48, 128}
MCNodeSizes == {16, 24}

MCInit == CollectionInit /\ AlgorithmsInit
MCNext ==
  \/ input = NoCall /\ CollectionNext /\ UNCHANGED input
  \/ vectors = <<>> /\ metadata = <<>> /\ AlgorithmsNext /\ UNCHANGED vars
MCSpec == MCInit /\ [][MCNext]_<<vars, input>>
=============================================================================

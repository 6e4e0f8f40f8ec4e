---------------------------- MODULE MCCollection ----------------------------
(* The instance of Collection that TLC checks.                              *)
EXTENDS Collection
CONSTANTS a, b, v, w, m

TwoNames == {a, b}
OneName == {a}
NoNames == {}
MCVecs == {v, w}
OneVec == {v}
MCMetas == {m}
NoMetas == {}
=============================================================================

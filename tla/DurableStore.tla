---------------------------- MODULE DurableStore ----------------------------
(***************************************************************************)
(* What the write-ahead log promises (vexra-storage/src/wal.rs, lines 3-6, *)
(* and the tests test_wal_recovery and test_wal_checkpoint): a page store  *)
(* whose contents change only when a page write is acknowledged, and that  *)
(* a crash, a recovery or a checkpoint never changes.                      *)
(***************************************************************************)
CONSTANTS Pages, Data

VARIABLES
  store,    \* the contents a reader would find after a restart
  serving   \* whether a process has the store open and accepts writes

vars == <<store, serving>>

Init ==
  /\ store \in [Pages -> Data]
  /\ serving = FALSE

Write(p, d) ==
  /\ serving
  /\ store' = [store EXCEPT ![p] = d]
  /\ UNCHANGED serving

\* Starting, stopping and crashing all leave the contents alone.
StartOrStop ==
  /\ serving' = ~serving
  /\ UNCHANGED store

Next ==
  \/ \E p \in Pages, d \in Data : Write(p, d)
  \/ StartOrStop

Spec == Init /\ [][Next]_vars
=============================================================================

-------------------------------- MODULE MCWal -------------------------------
(* The instance of Wal that TLC checks: pages p1, p2 and contents d1, d2.    *)
EXTENDS Wal, TLC
CONSTANTS p1, p2, d1, d2, s1, s2

MCPages == {p1, p2}
MCData == {d1, d2}
MCSalts == {s1, s2}
=============================================================================

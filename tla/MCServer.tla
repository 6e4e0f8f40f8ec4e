------------------------------ MODULE MCServer ------------------------------
(* The instance of Server that TLC checks.                                  *)
EXTENDS Server
CONSTANTS t1, t2, n1, n2, d1

MCThreads == {t1, t2}
MCNames == {n1, n2}
MCBusy == {n1}
MCDocs == {d1}
=============================================================================

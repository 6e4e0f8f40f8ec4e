----------------------------- MODULE MCPageCache ----------------------------
(* The instance of PageCache that TLC checks: two collections, two threads.  *)
EXTENDS PageCache
CONSTANTS t1, t2

MCThreads == {t1, t2}
=============================================================================

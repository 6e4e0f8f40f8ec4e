CONSTANTS
  t1 = t1
  t2 = t2
  Threads <- MCThreads
  CachePages = 3
  PageCells = 1
  MaxInserts = 2
SPECIFICATION Spec
INVARIANT PagesHaveOneOwner
CHECK_DEADLOCK FALSE

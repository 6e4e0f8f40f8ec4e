CONSTANTS
  t1 = t1
  t2 = t2
  Threads <- MCThreads
  CachePages = 3
  PageCells = 1
  MaxInserts = 2
SPECIFICATION Spec
INVARIANTS TypeOK FlushIsComplete CleanIsOnDisk GrowsByDirtyPages PagesNotShared
PROPERTIES InsertsReturn
CHECK_DEADLOCK FALSE

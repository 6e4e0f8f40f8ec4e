CONSTANTS
  t1 = t1
  t2 = t2
  a = a
  b = b
  c = c
  Threads <- MCThreads
  Names <- MCNames
  RootPages = 2
  CatalogCells = 2
  MaxCount = 8
  Overlap = FALSE
  Crashes = FALSE
SYMMETRY Symmetry
SPECIFICATION Spec
INVARIANTS TypeOK CatalogMatches PagesNotShared
PROPERTIES RestartKeepsCollections

CONSTANTS
  t1 = t1
  t2 = t2
  a = a
  b = b
  c = c
  Threads <- MCThreads
  Names <- TwoNames
  RootPages = 2
  CatalogCells = 2
  MaxCount = 4
  Overlap = TRUE
  Crashes = FALSE
SYMMETRY SymmetryOfTwo
SPECIFICATION Spec
INVARIANT PagesNotShared

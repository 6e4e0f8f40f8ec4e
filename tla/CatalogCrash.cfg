CONSTANTS
  t1 = t1
  t2 = t2
  a = a
  b = b
  c = c
  Threads <- MCThreads
  Names <- TwoNames
  RootPages = 1
  CatalogCells = 2
  MaxCount = 5
  Overlap = FALSE
  Crashes = TRUE
SYMMETRY SymmetryOfTwo
SPECIFICATION SpecWithOne
INVARIANT PagesNotShared

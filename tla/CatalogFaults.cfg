CONSTANTS
  t1 = t1
  t2 = t2
  a = a
  b = b
  c = c
  Threads <- MCThreads
  Names <- TwoNames
  RootPages = 1
  CatalogCells = 2
  MaxCount = 2
  Overlap = TRUE
  Crashes = TRUE
SYMMETRY SymmetryOfTwo
SPECIFICATION Spec
INVARIANTS AlwaysOpens

CONSTANTS
  t1 = t1
  t2 = t2
  a = a
  b = b
  c = c
  Threads <- MCThreads
  Names <- TwoNames
  RootPages = 1
  CatalogCells = 2
  MaxCount = 5
  Overlap = TRUE
  Crashes = FALSE
SYMMETRY SymmetryOfTwo
SPECIFICATION SpecWithOne
INVARIANT CollectionsAreRecorded

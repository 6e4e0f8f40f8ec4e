CONSTANTS
  a = a
  b = b
  c = c
  d = d
  None = None
  Ids <- MCIds
  Points <- MCPoints
  Queries <- MCQueries
  Distance <- Squared
  M = 1
  MMax = 2
  EfConstruction = 3
  EfSearch = 2
  Ks <- MCKs
  MaxLevel = 1
  MaxRemovals = 2
  MaxTombstones = 1
SYMMETRY Symmetry
SPECIFICATION Spec
INVARIANTS AnswersDistinct

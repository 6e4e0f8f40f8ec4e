CONSTANTS
  a = a
  b = b
  v = v
  w = w
  m = m
  Names <- OneName
  Vecs <- MCVecs
  Metas <- MCMetas
  Offset = 1
  PageCells = 2
  MaxPages = 2
  MaxMetaPages = 1
  MaxId = 5
SPECIFICATION Spec
INVARIANTS TypeOK MapsInverse PagesAreCurrent
PROPERTIES OneDocumentPerCallUnlessClash

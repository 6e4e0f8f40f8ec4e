CONSTANTS
  a = a
  b = b
  v = v
  w = w
  m = m
  Names <- OneName
  Vecs <- MCVecs
  Metas <- NoMetas
  Offset = 1
  PageCells = 5
  MaxPages = 2
  MaxMetaPages = 1
  MaxId = 5
SPECIFICATION Spec
PROPERTY OneDocumentPerCall

CONSTANTS
  a = a
  b = b
  v = v
  w = w
  m = m
  Names <- NoNames
  Vecs <- OneVec
  Metas <- NoMetas
  Offset = 1
  PageCells = 2
  MaxPages = 2
  MaxMetaPages = 1
  MaxId = 9
SPECIFICATION Spec
PROPERTY RestartKeepsDocuments

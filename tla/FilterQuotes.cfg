CONSTANTS
  a = a
  b = b
  c = c
  NoVec = NoVec
  NoMeta = NoMeta
  Docs <- MCDocs
  Vecs <- MCVecs
  Metas <- MCMetas
  Ks <- MCKs
  Build = "avx2"
  MaxDimension = 17
  Elements <- MCElements
  Within <- MCWithin
  Mentions <- MCMentions
  Parens <- MCParens
  Items <- MCItems
  Fields <- MCFields
  Texts <- MCTexts
  Quantities <- MCQuantities
  FusedDocs <- MCDocs
  ScoreLists <- MCScoreLists
  RrfK = 60
  Tenths <- MCTenths
  HeaderSize = 16
  PointerSize = 4
  MaxCells = 4
  Width = 128
  PageSizes <- MCPageSizes
  CellSizes <- MCCellSizes
  MaxAppends = 5
  NodeSizes <- MCNodeSizes
  MaxSaves = 3
  MaxNodes = 4
SPECIFICATION MCSpec
INVARIANTS QuotedFiltersMean
CHECK_DEADLOCK FALSE

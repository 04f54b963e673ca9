CONSTANTS
  BlockSize = 2
  ImageBlocks = 4
  MaxPieces = 3
  Pieces <- MCPieces
SPECIFICATION FairSparseSpec
INVARIANTS ListIsImage HeaderDescribesChunks PlainIsImage ReadBack
PROPERTY SparseEnds
CHECK_DEADLOCK FALSE

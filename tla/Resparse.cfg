CONSTANTS
  BlockSize = 4
  ImageBlocks = 10
  MaxPieces = 3
  MaxOut = 2
  MaxFiles = 12
  Pieces <- MCPieces
  MaxLens <- MCMaxLens
SPECIFICATION FairResparseSpec
INVARIANTS NothingLost ListsUsable FilesFit
PROPERTY ResparseEnds
CHECK_DEADLOCK FALSE

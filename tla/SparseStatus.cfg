CONSTANTS
  BlockSize = 2
  ImageBlocks = 4
  MaxPieces = 2
  Pieces <- MCPieces
SPECIFICATION SparseSpec
INVARIANT StatusTellsFailure
CHECK_DEADLOCK FALSE

CONSTANTS
  NumGroups = 92
  BlocksPerGroup = 10
  InodesPerGroup = 12
  Header <- MCHeader
  Limit <- MCBigLimit
  ForceFlags = {FALSE}
  Requests = {1, 2, 5, 94}
  Trees <- MCBigFile
  JournalBlocks = {5}
  ReservedGdt = 2
  BlockSize = 1024
  InlineXattr = TRUE
SPECIFICATION MkfsSpec
INVARIANTS LeafFits

CONSTANTS
  NumGroups = 6
  BlocksPerGroup = 7
  InodesPerGroup = 12
  Header <- MCHeader
  Limit <- MCLimitNoRoom
  ForceFlags = {FALSE, TRUE}
  Requests = {1, 2, 3, 5, 6, 20, 40}
  Trees <- MCTrees
  JournalBlocks = {0, 5, 20, 40}
  ReservedGdt = 2
  BlockSize = 4096
  InlineXattr = FALSE
SPECIFICATION FairMkfsSpec
INVARIANTS InodesConsistent EveryBlockHasOneInode ExtentsSound TreeMatchesInodes CountsMatchImage UninitGroupsAreEmpty
PROPERTY MkfsEnds

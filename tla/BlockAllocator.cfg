CONSTANTS
  NumGroups = 4
  BlocksPerGroup = 5
  Header <- MCHeader
  Limit <- MCLimit
  ForceFlags = {FALSE, TRUE}
  Requests = {1, 2, 3, 5, 11}
SPECIFICATION FairAllocatorSpec
INVARIANTS AllocatorTypeOK GroupsConsistent BlocksAccountedFor ReturnedBlocksAreLast ShortFirstRegionMeansFull
PROPERTIES ImplementsPool

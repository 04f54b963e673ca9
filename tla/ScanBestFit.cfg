CONSTANTS
  NumGroups = 4
  MaxFree = 5
  MaxLen = 6
SPECIFICATION ScanSpec
INVARIANT ScanFindsBestFit

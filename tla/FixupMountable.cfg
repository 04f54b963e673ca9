SPECIFICATION FixupSpec
CONSTANTS
  NumGroups = 3
  SuperGroups = {0, 1}
  OldPerGroup = 3
  InodesPerBlock = 2
  LastBlock <- MCLastBlock
  Dirs = {"root", "a", "b"}
  Root = "root"
  Home <- MCHome
  Entries <- MCEntries
  FreeInodes <- MCFreeInodes
  DirtyPadding = {0, 2}
  ShortRecLen = {"root", "b"}
  MaxCrashes = 1
INVARIANT UnmountableWhileFixed

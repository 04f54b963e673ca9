SPECIFICATION FairFixupSpec
CONSTANTS
  NumGroups = 3
  SuperGroups = {0, 1}
  OldPerGroup = 3
  InodesPerBlock = 2
  LastBlock <- MCLastBlock
  Dirs = {"root", "a", "b"}
  Root = "root"
  Home <- MCHome
  Entries <- MCEntries
  FreeInodes <- MCFreeInodes
  DirtyPadding = {0, 2}
  ShortRecLen = {"root", "b"}
  MaxCrashes = 3
INVARIANTS
  EntriesResolve
  MarksMatchState
  BitmapsClearedFirst
  CountedOnce
  DoneMeansRepaired
  LostReadOnlyAfterStop
PROPERTIES
  MarkPassComplete
  NoWriteKeepsDisk
  RepairCompletes

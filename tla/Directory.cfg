CONSTANT Directories <- MCDirectories
SPECIFICATION FairDirectorySpec
INVARIANTS RecordsFillBlocks NamesKept WalkMeetsRecords
PROPERTY DirectoryEnds

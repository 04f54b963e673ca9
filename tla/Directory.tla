----------------------------- MODULE Directory -----------------------------
(***************************************************************************)
(* The blocks of one directory: build_directory_structure lists the names, *)
(* dentry_size says how many blocks they take, add_dentry packs them, and  *)
(* recurse_dir of ext4fixup walks the records by their rec_len.            *)
(***************************************************************************)
EXTENDS Integers, Sequences, FiniteSets

CONSTANT Directories
  \* A directory: [block_size, root, force, beside, names].  force is the
  \* command line's -f; beside counts the blocks of its inode that hold no
  \* records, a block of extents or a capability's; a name is [len,
  \* lost_found, readable] as scandir and lstat find it.
ASSUME DirectoriesAssumption ==
  \A d \in Directories :
    /\ d.block_size \in {1024, 2048, 4096, 8192, 16384, 32768, 65536}
    /\ d.root \in BOOLEAN /\ d.force \in BOOLEAN /\ d.beside \in 0 .. 1
    /\ d.names \in Seq([len : 1 .. 255, lost_found : BOOLEAN, readable : BOOLEAN])

VARIABLES
  dir,             \* the directory
  pc,              \* where the two programs are
  dentries,        \* the lengths of the names to store
  len, i,          \* make_directory: size of the blocks, dentry_size's index
  offset,          \* end of the last record
  recs,            \* the records: [at, size, rec_len]
  dirp, count      \* recurse_dir: the current record and the records seen

directoryVars == <<dir, pc, dentries, len, i, offset, recs, dirp, count>>

DirectoryInit ==
  /\ dir \in Directories
  /\ pc = "list" /\ dentries = <<>> /\ len = 0 /\ i = 0 /\ offset = 0 /\ recs = <<>>
  /\ dirp = 0 /\ count = 0

-----------------------------------------------------------------------------
(* Sizes.                                                                  *)

BlockSize == dir.block_size
BlocksFor(bytes) == (bytes + BlockSize - 1) \div BlockSize
\* An inode number, two lengths, a type and the name, four bytes at a time.
RecLen(name_len) == 8 + 4 * ((name_len + 3) \div 4)

\* Mutant: a name that fits exactly is taken to the next block.
StartOfStrict(total, size) ==
  IF (total % BlockSize) + size >= BlockSize THEN (total \div BlockSize + 1) * BlockSize ELSE total
\* dentry_size: where a record after total bytes begins.
StartOf(total, size) ==
  IF (total % BlockSize) + size > BlockSize THEN (total \div BlockSize + 1) * BlockSize ELSE total

-----------------------------------------------------------------------------
(* build_directory_structure, up to make_directory.                        *)

LostFound == 10
NeedsLostFound == dir.root /\ \A k \in DOMAIN dir.names : ~dir.names[k].lost_found

ListName ==
  /\ pc = "list" /\ Len(dentries) < Len(dir.names)
  /\ dir.names[Len(dentries) + 1].readable
  /\ dentries' = Append(dentries, dir.names[Len(dentries) + 1].len)
  /\ UNCHANGED <<dir, pc, len, i, offset, recs, dirp, count>>

\* Mutant: the name is not taken back.
NameFailsKept ==
  /\ pc = "list" /\ Len(dentries) < Len(dir.names)
  /\ ~dir.names[Len(dentries) + 1].readable
  /\ dentries' = Append(dentries, dir.names[Len(dentries) + 1].len)
  /\ pc' = IF dir.force THEN "list" ELSE "failed"
  /\ UNCHANGED <<dir, len, i, offset, recs, dirp, count>>
\* With -f there is one name less and the same index comes again: it is the end
\* of the loop when the name was the last, and else a name that was freed.
NameFails ==
  /\ pc = "list" /\ Len(dentries) < Len(dir.names)
  /\ ~dir.names[Len(dentries) + 1].readable
  /\ \/ ~dir.force /\ pc' = "failed"
     \/ dir.force /\ Len(dentries) + 1 = Len(dir.names) /\ pc' = "listed"
     \/ dir.force /\ Len(dentries) + 1 < Len(dir.names) /\ pc' = "freed"
  /\ UNCHANGED <<dir, dentries, len, i, offset, recs, dirp, count>>

Prefix == IF NeedsLostFound THEN <<LostFound>> ELSE <<>>

EndList ==
  /\ pc = "listed" \/ (pc = "list" /\ Len(dentries) = Len(dir.names))
  /\ dentries' = Prefix \o dentries
  /\ len' = 24 /\ i' = 1 /\ pc' = "size"
  /\ UNCHANGED <<dir, offset, recs, dirp, count>>

-----------------------------------------------------------------------------
(* make_directory; dentry_size first.                                      *)

SizeDentry ==
  /\ pc = "size" /\ i <= Len(dentries)
  /\ len' = StartOf(len, RecLen(dentries[i])) + RecLen(dentries[i])
  /\ i' = i + 1
  /\ UNCHANGED <<dir, pc, dentries, offset, recs, dirp, count>>

EndSize ==
  /\ pc = "size" /\ i > Len(dentries)
  /\ len' = BlocksFor(len) * BlockSize
  /\ pc' = "add"
  /\ UNCHANGED <<dir, dentries, i, offset, recs, dirp, count>>

Names == <<1, 2>> \o dentries   \* "." and ".." come first

U16(n) == n % 65536

\* Mutant: the record in front of a boundary is not padded.
Unpadded(rs, gap) == rs
Padded(rs, gap) == [rs EXCEPT ![Len(rs)].rec_len = U16(@ + gap)]

\* Every name but "." and ".." is checked against the end.
AddDentry ==
  /\ pc = "add" /\ Len(recs) < Len(Names)
  /\ LET size == RecLen(Names[Len(recs) + 1])
         end_block == (offset + size - 1) \div BlockSize
         crosses == offset \div BlockSize # end_block
         start == IF crosses THEN end_block * BlockSize ELSE offset
         before == IF crosses THEN Padded(recs, start - offset) ELSE recs
     IN  /\ recs' = Append(before, [at |-> start, size |-> size, rec_len |-> U16(size)])
         /\ offset' = start + size
         /\ pc' = IF Len(recs) >= 2 /\ (offset' > len \/ (offset' = len /\ Len(recs') < Len(Names)))
                  THEN "failed" ELSE "add"
  /\ UNCHANGED <<dir, dentries, len, i, dirp, count>>

\* Mutant: the pad is of the last block alone.
LastGapOfBlock == BlockSize - offset
LastGap == len - offset

PadLast ==
  /\ pc = "add" /\ Len(recs) = Len(Names)
  /\ recs' = [recs EXCEPT ![Len(recs)].rec_len = U16(@ + LastGap)]
  /\ pc' = "walk"
  /\ UNCHANGED <<dir, dentries, len, i, offset, dirp, count>>

-----------------------------------------------------------------------------
(* recurse_dir of ext4fixup, on the blocks in a row.                       *)

At(o) == {k \in DOMAIN recs : recs[k].at = o}

\* "This is a bug in an older version of make_ext4fs": a rest this short is
\* no record.
ShortTail == 8

\* The size the walk goes by is that of i_blocks, which counts every block.
DirSize == len + dir.beside * BlockSize
Going == pc = "walk" /\ dirp < DirSize /\ DirSize - dirp > ShortTail

WalkRecord ==
  /\ Going
  /\ \E k \in At(dirp) : recs[k].rec_len > 0 /\ dirp' = dirp + recs[k].rec_len
  /\ count' = count + 1
  /\ UNCHANGED <<dir, pc, dentries, len, i, offset, recs>>

\* With a rec_len of 0 dirp stays where it is, and the loop never ends.
WalkStuck ==
  /\ Going
  /\ \E k \in At(dirp) : recs[k].rec_len = 0
  /\ UNCHANGED directoryVars

\* All blocks are read before the first record.  The number of one behind the
\* records was never set, and there may be no block of that number.
ReadFails ==
  /\ pc = "walk" /\ dirp = 0 /\ DirSize > len
  /\ pc' = "unread"
  /\ UNCHANGED <<dir, dentries, len, i, offset, recs, dirp, count>>

\* What was read instead is something the walk may end in or take for records,
\* and is written back.
WalkBehind ==
  /\ Going /\ dirp = len
  /\ pc' \in {"walked", "astray"}
  /\ UNCHANGED <<dir, dentries, len, i, offset, recs, dirp, count>>

\* A rec_len that is too short is repaired by the walk.
WalkEnds ==
  /\ pc = "walk" /\ ~Going
  /\ pc' = "walked"
  /\ UNCHANGED <<dir, dentries, len, i, offset, recs, dirp, count>>

DirectoryEnded == pc \in {"walked", "failed", "freed", "unread", "astray"}
DirectoryStep ==
  \/ ListName \/ NameFails \/ EndList \/ SizeDentry \/ EndSize \/ AddDentry \/ PadLast
  \/ ReadFails \/ WalkRecord \/ WalkBehind \/ WalkEnds
DirectoryNext == DirectoryStep \/ WalkStuck \/ (DirectoryEnded /\ UNCHANGED directoryVars)
DirectorySpec == DirectoryInit /\ [][DirectoryNext]_directoryVars
\* One thread: it goes on while it can.
FairDirectorySpec == DirectorySpec /\ WF_directoryVars(DirectoryStep)

-----------------------------------------------------------------------------
(* Properties.                                                             *)

Packed == pc \in {"walk", "walked"}
Unreadable == {k \in DOMAIN dir.names : ~dir.names[k].readable}

\* A directory that is built holds lost+found where it must be added and every
\* name in its place.  A name that cannot be read ends the program, and with -f
\* it is left out alone when it is the last: that the loop goes on with a freed
\* name takes one before it.
NamesKept ==
  /\ Packed =>
       /\ Unreadable = {} \/ (dir.force /\ Unreadable = {Len(dir.names)})
       /\ dentries = Prefix \o [k \in 1 .. Len(dir.names) - Cardinality(Unreadable) |-> dir.names[k].len]
       /\ Len(recs) = Len(dentries) + 2
  /\ pc = "freed" => dir.force /\ \E k \in Unreadable : k < Len(dir.names)

\* A rec_len of 65536 does not fit.
WholeBlock64K(k) == BlockSize = 65536 /\ recs[k].rec_len = 0
RealRecLen(k) == IF WholeBlock64K(k) THEN 65536 ELSE recs[k].rec_len

\* dentry_size and add_dentry agree: packing never hits the critical error,
\* it uses every block, no record crosses a block, and the records of a block
\* are chained without a gap from its first byte to its last.
RecordsFillBlocks ==
  /\ pc = "failed" => ~dir.force /\ Unreadable # {}
  /\ Packed =>
       /\ \A b \in 0 .. len \div BlockSize - 1 : At(b * BlockSize) # {}
       /\ \A k \in DOMAIN recs :
            /\ (recs[k].at % BlockSize) + recs[k].size <= BlockSize
            /\ RealRecLen(k) >= recs[k].size
            /\ recs[k].at + RealRecLen(k) =
                 IF k < Len(recs) THEN recs[k + 1].at ELSE len

\* The walk meets every record once and nothing else: it is always at the
\* record it counts next.  It does not come to that, or goes on behind the last
\* record, only when i_blocks counts a block that has none.
WalkMeetsRecords ==
  /\ pc = "walk" /\ dirp < len => count < Len(recs) /\ dirp = recs[count + 1].at
  /\ pc = "walked" => count = Len(recs)
  /\ pc = "astray" => dir.beside > 0 /\ count = Len(recs)
  /\ pc = "unread" => dir.beside > 0 /\ count = 0

\* Building and walking end, but for a walk that comes to a record whose
\* rec_len of a whole 64 KiB block is stored as 0.
DirectoryEnds == <>(DirectoryEnded \/ (pc = "walk" /\ \E k \in At(dirp) : WholeBlock64K(k)))
=============================================================================

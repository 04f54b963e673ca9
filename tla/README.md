# A TLA+ model of make_ext4fs

make_ext4fs builds an ext4 image from a directory tree, ext4fixup repairs
images an old version built, and libsparse, which both programs carry, writes
and reads images in the Android sparse format. All three are sequential C
programs; what is hard in them is not concurrency but long chains of small
steps that must agree: counters with bitmaps, extents with allocations, inode
numbers with directories, a header with what follows it, and, in ext4fixup, a
disk that is changed in place by a tool that may be stopped after any write.

Paths below are relative to the repository's `src/`.

## 1. Inventory

| Component | State | Operations | What makes it correct |
|---|---|---|---|
| Block allocator, `allocate.c` | per group: block bitmap, `free_blocks`, `first_free_block`; per allocation: region list, `list.last`, out-of-band list | `init_bg`, `reserve_blocks`, `free_blocks`, `ext4_allocate_best_fit(_partial)`, `allocate_blocks`, `allocate_block`, `reduce_allocation`, `reserve_oob_blocks`, `append_oob_allocation` | three views of a group agree; a set bit is metadata or has one owner; only the request in progress gives blocks back |
| Inode allocator, `allocate.c` | per group: inode bitmap, `free_inodes`, `first_free_inode`, `used_dirs`, `EXT4_BG_INODE_UNINIT` | `reserve_inodes`, `allocate_inode`, `get_inode`, `add_directory` | the views agree; an inode number is given once; a table the kernel may skip is unused |
| Extents, `extent.c` | extent header and extents in an inode or a leaf, `i_size`, `i_blocks` | `do_inode_allocate_extents` and its callers | what the regions give is the file that was asked for; extents cover it without gap or overlap; the leaf block is accounted for; a leaf does not overflow |
| Indirect blocks, `indirect.c` | indirect blocks of the resize inode | `inode_attach_resize`, `inode_allocate_indirect` (no caller) | the resize inode lists each reserved descriptor block in its place |
| Image builder, `make_ext4fs.c`, `contents.c` | the source tree, the stack of `build_directory_structure`, directory blocks whose inode numbers are filled in later | `make_directory`, `make_file`, `make_link`, `make_special`, `inode_set_permissions`, `inode_set_capabilities` | inodes, names and link counts match the tree; records fill the blocks counted for them; the build ends |
| Attributes, `contents.c` | at most one capability per inode | `xattr_add`, `get_xattr_block_for_inode` | it goes into the inode or into a block that is counted and has one owner, or is refused |
| Layout and superblock, `ext4_utils.c`, `ext4_sb.c` | `fs_info`, `fs_aux_info`, superblock, descriptors | `compute_*`, `ext4_init_fs_aux_info`, `ext4_fill_in_sb`, `ext4_queue_sb`, `ext4_parse_sb_info`, `ext4_update_free` | groups hold their header; four functions agree where its parts are; a reader works out the same geometry; the counts describe the bitmaps |
| ext4fixup, `ext4fixup.c` | on disk: magic number in the boot block, low bit of `s_desc_size`, superblocks, descriptors, inode bitmaps, directory entries with a mark bit; in memory: what `read_ext` read | the sanity, marking and updating passes of `recurse_dir`, `update_superblocks_and_bg_desc`, `set_fs_fixup_state` | whenever it is stopped, a restart can tell old numbers from new ones and finish |
| libsparse list, `backed_block.c` | sorted list of pieces, `last_used` | `queue_bb`, `merge_bb`, `backed_block_split`, `backed_block_list_move` | sorted, disjoint, stands for what was queued |
| libsparse output, `sparse.c`, `output_file.c` | offset, chunk count, checksum; the counting output | `sparse_file_write`, `sparse_file_resparse`, `sparse_file_len`, `sparse_file_callback` | header, chunks and image agree; a failure is reported; dealing out loses nothing, keeps the limit and ends |
| libsparse input, `sparse_read.c` | the list it builds, block, checksum | `sparse_file_read`, `sparse_file_import` | reading gives back what was written |
| Permissions file, `canned_fs_config.c` | sorted table | load, lookup with `qsort` and `bsearch` of the C library | the search finds what was loaded |
| `uuid5.c`, `sha1.c`, `crc16.c`, `sparse_crc32.c`, `wipe.c`, `make_ext4fs_main.c` | none between calls | hashes, one ioctl, option parsing | out of a model checker's reach or without interesting state |

How they interact. `make_ext4fs_internal` runs everything: it computes the
layout, calls `block_allocator_init`, reserves the first inodes, makes the
journal and the resize inode, and walks the tree. The walk takes inodes from
the inode allocator and hands them to the extent code, which takes regions
from the block allocator, gives one block back or turns it into a leaf, and
queues the data as pieces in a `sparse_file`. When the walk is over
`ext4_update_free` copies the counters into the superblock, the metadata is
queued, and `write_ext4_image` writes the list of pieces. ext4fixup shares only
`read_ext` and the structures; it works on an existing image with plain writes.
Failures are reported by `error()`, which jumps out of the program without `-f`
and returns to a caller that may go on with a failure value with `-f`.

Hard behaviour: requests served from several regions of a nearly full image;
failure of a later region of a request; values patched in after a recursion
that changed the same tables; sizes computed in one pass and used in another
(directory blocks, chunk counts, group headers); a stop between any two writes
of ext4fixup and any number of restarts; pieces queued out of order with a
cursor into a list whose elements are merged and freed; a write that fails with
its result dropped; unsigned differences at the ends of their ranges.
`PROJECT.json` lists each hazard at its line.

## 2. Modules

```
BestFit ── ScanBestFit                 (pure algorithm)
   │
   ├── BlockAllocator                  (refines BlockPool)
   ├── InodeAllocator
   │       │
   └────── Mkfs ── MkfsProofs          (composes both allocators; the proofs
                                        about the scan and the block allocator
                                        come first in MkfsProofs)
Layout ── LayoutProofs                 (what Mkfs and the allocator start from)
Directory ── DirectoryProofs           (make_directory writes, ext4fixup walks)
Fixup ── FixupProofs                   (stands alone, like the tool)
BackedBlocks ── BackedBlocksProofs     (the list)
   ├── SparseFile ── SparseFileProofs  (list, then write and read)
   └── Resparse ── ResparseProofs      (list, then deal out to files)
Arithmetic                             (lemmas every proof module uses)
```

**BestFit, ScanBestFit.** `IsBestFit` says which group
`ext4_allocate_best_fit_partial` picks: the smallest that holds the whole
request, else the largest, the first of equals. `ScanBestFit` is the loop of
the C code, one state per iteration.

**BlockAllocator.** A block is `<<group, bit>>`. `AllocateBlocks` starts a
request, `AllocatePartial` is one iteration of `ext4_allocate_best_fit` (so the
states between two regions exist), `OutOfSpace` its failure, after which the
program stops or, with `-f`, goes on. `KeepInInode` and `KeepWithLeaf` are the
two ways `do_inode_allocate_extents` goes on (`reduce_allocation(1)`,
`reserve_oob_blocks(1)`), `KeepWhole` the users that keep everything,
`AllocateBlock` the single blocks for attributes. `alloc_pc` is the program
counter; `crashed` stands for the NULL pointers the code follows when a list
was emptied, `clash` for "attempted to reserve already reserved block". `kept`
and `lost` are history variables: who owns what.

**BlockPool.** The abstract specification: a pool, a request that gathers
blocks, owners that keep them. `BlockAllocator` implements it under the mapping
*available = clear bits, gathered = blocks of the list*.

**InodeAllocator.** Operators on the inode half of `allocate.c`, used as
conjuncts by the actions of Mkfs.

**Mkfs.** `make_ext4fs_internal` from `block_allocator_init` on. One action per
call of the code that makes an inode (`ReserveFirstInodes`, `CreateJournal`,
`CreateResize`, `MakeRoot`, `MakeDirectory`, `MakeLeaf`), per way its blocks
arrive (`GatherRegion`, `AttachInInode`, `AttachWithLeaf`, `AttachWhole`,
`WithoutBlocks`) and per end of an entry (`FinishPlain`, `FinishXattr…`,
`LeaveDirectory`, `UpdateFree`). `stack` is the C stack of
`build_directory_structure`; `pc` names the call in progress. A source tree
gives each directory its number of blocks and its entries; names are left out,
since no decision depends on them. `current` holds the length that was asked
for: `i_size` and `i_blocks` are computed from it, the extents from the regions
that came back, and only `ExtentsSound` compares the two. The counters of a
descriptor pass through fields of 16 bits (`U16`). `InlineXattr` says whether a
capability fits into the inode, as it does with 256 bytes and not with 128.

**Layout.** From the options to the geometry, one action per function:
`ComputeParameters`, `InitAux`, `InitBg` once per group, `FillInSb`,
`CreateResize`, `QueueSb`, and `ParseSb` for a program that reads the result.
What is queued is a set of stretches of blocks, so that overlap can be seen;
unsigned 32-bit differences are computed modulo 2^32. The superblock holds the
logarithm of the block size, rounded down, and 16 bits of the inode size and the
reserve; `ParsedInfo` reads those back, so that an image made with `-b 3000`,
which nothing refuses, is read as one of 2048 (`ReadBack`). `limit` and `header` of a
group are the `Limit` and `Header` of the allocator.

**Directory.** The names of one directory from `scandir` to the records:
`ListName` and `NameFails` (with `-f` the last name is left out, and one before
it is looked at again after it was freed, `pc = "freed"`), `SizeDentry` (one
call of `dentry_size`), `AddDentry`, `PadLast`, with `rec_len` in 16 bits; then
`recurse_dir` of ext4fixup over the same blocks by `rec_len` alone
(`WalkRecord`, and `ReadFails` and `WalkBehind` where `i_blocks` counts a block
that has no records: its number was never set, so there may be no such block,
and what is read instead may be taken for records).

**Fixup.** The disk is eight variables, each changed by one `write()` at a time;
memory is lost by `Crash`. `recurse_dir` is a stack of frames, each with the
directory as it was read; entries are processed, then written back block by
block, the child before its parent. Inode numbers are integers and `SlotOf` the
place they mean, so a wrong group size is a wrong file. The copy of the superblock
for group `i` is written at `i * blocks_per_group` (`ext4fixup.c:339`), and with
blocks of 1 KiB the group begins one block later: `OnTarget` says which copies are
hit, `overwritten` which groups lost their last block to the next one's copy, and a
tool that reads a directory from such a block is `undefined`. `NumGroups` stands for
`aux_info->groups` and for the `num_block_groups` of `ext4fixup.c:277`; they differ
only for 1 KiB images of one block more than full groups, which the sanity check
refuses.

**BackedBlocks, SparseFile.** Pieces have block, length and a source; a unit of
a piece is a *cell*, the identity of the byte that belongs there. The list is a
sequence; `last_used` is a block number, `Unset`, or `Freed` when `merge_bb` has
freed what it pointed to, and a step that reads it then is a choice between
undefined behaviour and a search from the head. A checksum is the sequence of
cells it was fed, so equal checksums mean equal data. `Stream` lays the chunks
of a sparse file out with their headers, so that the offsets the reader keeps
are real offsets.

**Resparse.** `sparse_file_resparse`: `CountPiece` and `Overflow` are the loop
of `move_chunks_up_to_len`, whose sum comes from an output that only counts and
may fail (`CounterFails`); `Split` and `Moved` of BackedBlocks are
`backed_block_split` and `backed_block_list_move`; `Store` puts a round's file
into the array or, past its end, into `tmp`, and `Return` moves `tmp` back.
Lengths are in units of four bytes, the size of all header fields, so the 28
and 12 bytes of the headers are 7 and 3, and an `unsigned int` has 2^30 of them.

The `MC…` modules give the constants their small values.

## 3. Runs

| Run | Instance | What it shows |
|---|---|---|
| `best_fit_scan` | 4 groups of 0..5 free blocks, lengths 1..6 | the scan ends on `IsBestFit`, and reports "out of space" only when every group is full |
| `block_allocator` | 4 groups of 5 blocks, superblocks in two, a short last group; requests of 1, 2, 3, 5, 11; with and without `-f` | bookkeeping, ownership, refinement of the pool |
| `mkfs` | 6 groups of 7 blocks, 12 inodes each, the last with its header only; 252 trees, journals of 0, 5, 20 and 40 blocks; with and without `-f` | a finished image is consistent, extents and ownership survive every failure that does not crash, the build ends |
| `fixup` | 3 groups of 3 inodes that become 4, three directories in five blocks, up to 3 stops, with and without `-n`; a first data block of 0 and, as with blocks of 1 KiB, of 1, with a directory block at the end of group 0 | every restart resolves every name; the repair completes; only a tool that was stopped reads the block it overwrote |
| `sparse` | 4 blocks of 2 units, up to 3 of 16 pieces, any one write failing, both formats | the list stands for the image, header and chunks agree, reading gives back what was written |
| `layout` | options for blocks of 1, 4, 32 and 64 KiB, and of 512, 1500 and 3000 bytes, and lengths around every point where a group appears, is dropped or needs one more block of descriptors | groups fit the image, no two parts of a header overlap, a reader agrees, the resize inode lists what is reserved |
| `resparse` | up to 3 of 10 pieces in 10 blocks of 4 units, nine values of `max_len`, room for 0 to 2 files | nothing is lost or changed, lists stay sorted, files fill and keep their limit, dealing out ends |
| `directory` | up to five names of four lengths in blocks of 1024 bytes, 247 to 249 in 64 KiB; unreadable names, the last and others, with and without `-f`, a root with and without `lost+found`, a block without records | two sizing passes agree, records chain to the end of each block, no name but the unreadable last one is missing, the walk meets each record once and ends |
| `mkfs_leaf`, `fixup_mountable`, `sparse_status`, `resparse_len` | | a statement of a comment or message that the code does not keep: see section 6 |

Why the bounds are enough. The allocator's groups interact only through the
choice of the best fit, and an allocation behaves differently for one region,
two or three, and more than three; four groups give all of them, and a request
of 11 plus the spare block crosses every group. Five blocks a group leave room
for a header, a return and a refill. In `mkfs` twelve inodes a group (ten are
reserved) make the tree spill into the second group; the groups are small
enough that some trees fill the image, some fail, and a six-block file needs a
leaf; a journal of 20 blocks crosses groups and one of 40 never fits. One tree
has seventy entries, more than there are inodes. Fixup needs one directory of
several blocks (a stop between them), three levels (a stop between child and
parent), an entry without file type, a deleted entry, and a number that is
valid in both numberings; three stops put one in each phase, or all in one. With
blocks of 1 KiB the directory that loses a block is one the root names, and a walk
over it can only come after a stop.
Three pieces are the fewest that read `last_used` after a merge freed it; four
blocks leave gaps before, between and behind them. For `resparse` the values of
`max_len` lie on both sides of the overhead, of a block above it and of the
sizes of the pieces; two files are the fewest with one that is followed by
another and a surplus. `layout` enumerates lengths in stretches and not every
length: between them only the size of the last group changes. In `directory`
two records of 248 and two of 252 bytes fill a block of 1024 with 24 for `.`
and `..` exactly, the case in which the passes would first differ; after 247
records of 264 bytes there is room for one more in 64 KiB, so a second long name
begins a block and is the only one in it.
Bounds that cut a counter short are `MaxCrashes`, `MaxPieces`, `MaxFiles`,
`MaxOut`, `MaxFree` and `MaxLen`; no behaviour that `MaxFiles` cuts is one
`ResparseEnds` promises anything about.

Deadlock is looked for everywhere except in the sparse and resparse runs, where
the program that owns the file may queue no more, where reading through a freed
pointer has no next step, and where `MaxFiles` ends a loop that does not end.

Fairness. Everything is one thread of control that never waits, so a step that
can be taken is taken: `WF` of `AllocatorStep`, `MkfsStep`, `SparseStep`,
`ResparseStep` and `DirectoryStep`. What the environment does (making requests,
queueing pieces before a write) is not in these actions and never forced. For
ext4fixup `WF(FixupStep)` includes `Start`: a tool that was stopped is started
again, as its restart logic assumes, and `MaxCrashes` makes the stops finitely
many. Liveness checked: `MkfsEnds`, `RepairCompletes`, `SparseEnds`,
`ResparseEnds`, `DirectoryEnds`.

## 4. Proofs

`MkfsProofs` holds for every number of groups, every header and limit with
`Header <= Limit <= BlocksPerGroup` (`GeometryAssumption`), every set of request
lengths, every number of inodes per group, every source tree, and with and
without `-f`. Two assumptions limit what the builder's theorems say of a
geometry: `LeafAssumption`, that there are fewer groups than bytes in a block,
since only then is the refusal of `extent.c:142` out of reach (an image of 1024
groups of 1 KiB blocks, or 4096 of 4 KiB, is where it begins); and
`WidthAssumption`, that a group has fewer than 65536 blocks and inodes, which is
what `ee_len` and the counters of `ext4_utils.h:114` hold, and which `-g` or
blocks above 8 KiB can exceed. Its theorems about the scan and the block
allocator use only what those modules assume, and are in it so that the
builder's can cite them. `GeometryAssumption` is not taken on trust:
`GroupsAlwaysFit` of `LayoutProofs` derives it for the options Layout starts
from, except in the case `OffByOne`. `LayoutProofs` holds for every length,
block size, group size and inode count (`OptionsAssumption`; what a reader
arrives at, for those the superblock's fields can hold, `Storable`),
`BackedBlocksProofs` and `SparseFileProofs` for every block size of more than
one unit, every size of the image and every set of pieces within it
(`PiecesAssumption`). `ResparseProofs` holds beside that for every `max_len` of
32 bits, every number of files, rounds and pieces (`ResparseAssumption`).
`DirectoryProofs` holds for every number of names of 1 to 255 bytes and every
power of two from 1024 to 65536 as block size (`DirectoriesAssumption`).
`FixupProofs` holds for every number of groups and group sizes, both first data
blocks, and any directory blocks in the last blocks of the groups
(`FixupAssumption`), any number of stops, and every image in which the live
entries of a directory come first, its blocks follow each other, numbers are
within their group, each directory can be reached from the root, and a directory
with a short last record has an entry and no deleted one (`ImageAssumption`, as
make_ext4fs builds them).

*Scan.* `ScanIsBestFit`: when the loop ends it has found the best fit, for every
number of groups, content and length. The invariant says the group found so far
is the best of those seen.

*Block allocator.* The invariants the run checks are not inductive: that
`free_blocks` of `allocate.c` clears only a block of the request needs the
position of the request's regions. `AllocatorInv` adds `ListInv`: the regions
lie between header and limit, each ends at `first_free_block` of its group, no
two share a group, and while blocks are still needed the groups of the regions
found so far are exhausted. The last part carries the argument: a group is
chosen again only if it has free blocks, and a group a region was taken from
has none left unless that region ended the request. So every region of a
request lies in a group of its own, and the block `reduce_allocation` gives
back is the last one allocated there, although `list.last` points to the first
region. There is one lemma per operation for the effect on bitmap and counters
(`ReserveRun`, `FreeOne`) and one per action for the invariant. From
`AllocatorInvariance` follow `TypeCorrect`, `GroupsStayConsistent`,
`NoDoubleAllocation`, `ReservesFreeBlocksOnly`, `GivesBackOwnOnly`,
`ReturnsLastBlocks` and, with `StepRefines`, `RefinesPool`.
`ShortFirstRegionNeedsFullImage` needs one fact more: the first region of a
request is the largest, so if it is one block long no group had two.

*Builder.* `MkfsUsesAllocator`: the builder implements the allocator's
specification. Each request it makes must be a request the specification
allows (`DemandAssumption` says `Requests` covers the trees), which needs to
know that the stack walks directories of the tree and that a call in progress
has an activation to return to: `WalkInv`. With it every theorem about the
allocator holds of the builder; `MkfsAccountsForBlocks` spells one out.
`InodesStayConsistent` is proved from its own invariant.

What relates inodes to allocators is `BuildInv`, a conjunction of named parts.
`PlaceInv` says that a request in progress belongs to an inode that has no
blocks yet; `RoomInv` that the reserved inodes are marked before any entry gets
a number, so `FreshInode` gives a number that is in no use; `WalkersInv` that
the directories on the stack are different inodes, that only the root is at the
bottom, and that the inode in hand is none of them, so that an attribute block
is never given to an inode that has one. On these rest `BlocksInv`, which says
of each inode by itself that its extents are sound and its blocks were given out
(`ExtentsStaySound`; that they are as long as what was asked for is
`RequestInv`: what the regions found so far hold and what is still needed make
up the length in `current` and one spare block, which is then given back or
becomes the leaf), and `OwnedInv`, that the blocks of all inodes together are
`kept` and disjoint (`BlocksHaveOneInode`). Both are proved from one statement
of what a step may do to the table, `BlocksMove`: keep every block, stop, make
an inode, give one inode the blocks of the list, or give one an attribute block.
That the extents cover the file needs the sums `LenOf` of the recursion:
`LenOfIs` finds them with the facts about recursion over `0 .. n` in Arithmetic,
where induction is a fact about sets of numbers (`NatSetInduction`), so nothing
is assumed.

`CountsMatch` needs three more invariants. `DirsInv` says that `used_dirs` of a
group counts the directories in it, together with the one `make_directory` has
counted but not written; `UninitInv` that a group with an inode is not flagged;
and `TotalIs` and `TotalCounts` that the sum `Total` over the groups is the
number of elements of the union of what the groups count, which
`FreeBlocksTotal` and `FreeInodesTotal` apply to both bitmaps. The counters of one
group stay below 2^16 (`BelowIsSmall`, `FitsField`), so the descriptors say the same.

`TreeMatches` needs the whole walk. While directories are patched late, the
statement at the end holds of no earlier state; `TreeInv` says what does. A
directory on the stack is named up to its position and not behind it, and any
other directory to its end (`WalkedUpTo`, `WalkedAll`); an inode in use past the
reserved ones is named once, or is on the stack and not the root, or is the one
in hand (`NamedOnce`, `NamedOrOpen`); a directory is named by its parent, or
lies above it on the stack, or is in hand (`ParentsName`); and each directory
has the links, and the kinds of entries, of a directory of the source tree
(`Like`). One lemma moves this over each event of the walk: an inode comes into
use (`TreeTakes`), a directory is entered (`TreePush`), an entry gets its number
(`TreeBump`), a directory is left (`TreePop`), and everything else leaves
directories alone (`TreeStays`). At the end the stack is empty, and the number
of links is a count of names by a bijection from positions to names.

The properties of a finished image except a build with `-f` and fewer than ten
inodes in a group (`Unreserved`). The proof stopped there: `reserve_inodes` fails
and with `-f` the build goes on with the reserved inodes unmarked, so that
entries are given the root's number, among others. TLC confirms it with eight
inodes in a group.

*Layout.* `GeometryInv` says that the stored options and the groups described so
far are what the formulas of `ext4_init_fs_aux_info` and `init_bg` give.
`LastGroup` works out which remainder of the length leaves the last group
without room for its header, which is all `GroupsAlwaysFit` needs; it also showed
that with 1 KiB blocks a last group that is all header ends a block behind the
image, now part of `OffByOne`. `ReaderArrivesAtGeometry` runs
`ext4_parse_sb_info` on the stored numbers, which needs that the logarithm taken of
a power of two and the shift by it are inverse. `PiecesInv` lists everything that is
queued, part by part, and the header of a group is divided into superblock,
descriptors, reserved blocks, bitmaps and table in that order
(`HeadersNeverOverlap`). For `ReservedAreListed`, `Ranks` numbers the groups
with a superblock, so the n-th slot of the resize inode is the n-th of them, and
`Division` takes the unsigned remainder apart.

*Directory.* The invariant says where the records lie by the sums of
`dentry_size`: `Totals(f, n)` says that `f[k]` bytes are taken after k names, so
`len` in the sizing pass and `offset` in the packing pass are the same `f` at
different places (`SizeInv`, `AddInv`), and since `f` grows strictly `add_dentry`
never runs past the size, which is `f` at the last name rounded up. That both
passes take the same step is `StartOfIs`: one asks whether a record fits into
what is left of its block, the other whether its last byte lies in another
block. `RecordsInv` says of the records up to an offset
that none crosses a block, each reaches to the next, and each block begins with
one (`BlockBegins`); padding the last record takes it to the end. From it
follows `RecordsAlwaysFill`. Records are at most a block apart
(`NextWithinBlock`), so the 16 bits of `rec_len` say how far (`StoredDistance`)
but for 65536, which is stored as 0 and leaves the walk where it is. Elsewhere
the walk is at the record after those it has counted (`WalkInv`), from which
follows `WalkAlwaysMeets`. `NamesInv` says that what has been listed are the names in
their order, readable all of them, and `NamesAlwaysKept` what is missing at the end.

*libsparse, the list.* `QueuedKeeps` of `BackedBlocksProofs` is the heart: wherever the
search starts, insertion and the two merges leave a sorted list of disjoint
pieces that holds the cells it held and the new ones. The search from `last_used`
finds the same place as one from the head because the piece at `last_used` is
in the list or the pointer is known to be dangling. It gives `ListAlwaysImage`.
A second part of the module is about single lists of disjoint pieces that may be
of no length and need not be sorted, which is what `sparse_file_resparse` makes
of them: `SplitKeeps` for `backed_block_split`, `CutIs` and `MovedKeeps` for
`backed_block_list_move`.

*libsparse, dealing out.* `NothingLost` and `ListsUsable` hold between calls and
of the files; `Dealt` says the same of all lists at every step of
`move_chunks_up_to_len`: the source, the round's file, the surplus and the files
share no unit, and hold together the cells that were asked for and no other
(`ResparseLosesNothing`). Pieces of no length, which a split can leave, hold no
cell, and the merges of a later insertion would still join them; so each piece
also begins in a block that was asked for (`Anchored`), and a new piece, which
lies elsewhere, stays apart from them. There is one lemma for each way the lists
change: `QueueDeals`, `SplitDeals`, `CutDeals`, `AppendDeals`, `SurplusDeals`,
`ReturnDeals`. `InOrder` adds that what is surplus lies before the round's file
and both before the source, which is why appending and moving keep lists sorted
(`ResparseKeepsOrder`); a failure of the counting output breaks it, and `Dealt`
does not need it. `CountInv` says that the sum is that of the pieces passed and
within the room. `FilesInv` carries the limit and the filling of each file: a
split comes as close to the room as a block (`SplitsIs`, `HalfCounts`), and
where none is made the sum is above seven eighths (`NotSplitIs`).
`ResparsedFilesFit` follows, with `LengthInv` for pieces of no length and a
count of the gaps of a sorted list for what the skip chunks add.

*libsparse, writing and reading.* What is written is related to it by
`ChunkInv`: `PlaceInv` says that the writer is at the end of the chunks it has
written and of which piece; `CountInv` that the chunk and block counts computed
before the first write are those of the chunks written plus those of the pieces
still to come (`HeaderAlwaysDescribes`); `PlacedInv` where each chunk lies in
the stream. `PlainInv` is the same for a plain file, in which gaps are seeks.
The reader's list gets the invariants of the writer's, cell by cell up to the
block it has reached (`CellsInv`), since reading is queueing pieces whose source
is the file (`NameInv` keeps the two kinds of cells apart), and its checksum
runs behind the writer's (`CrcInv`, `SumInv`): the two agree unless a chunk is
`SummedApart`. `FileInvariance` puts the parts together; `PlainAlwaysImage` and
`ReadAlwaysBack` follow.

*ext4fixup.* `ControlInv` relates the program counter to the phase on disk;
`DryRunWritesNothing` follows from it step by step. `CountInv`, `WriteInv` and
`UninterruptedInv` say which of the writes of group size, counts and bitmaps are
done: a group's descriptors are in one of two states, the counted one only when
the superblock has the new size, and what `Start` read is one of the same two.
From them follow `FreeInodesCountedOnce` and `BitmapsAreClean`.
The inode numbers need the walk. `DiskInv` says that a number counts with the
size its mark and the phase imply, and that while numbers are updated an entry
is unmarked only when everything below it is finished: that is what lets a
restarted pass skip it. A pass in progress holds copies of the directories on
its path, so `FrameInv` says the same of each activation's buffer, and that the
entries it has passed, with all below them, and the blocks it has written are
finished; `Shape` ties each activation to the entry its caller is at. *Below* is
the intersection of all sets of directories closed under the entries the tool
descends into: so one step is enough to move from the children of a directory to
the directory (`BelowStep`) without an induction over the tree, and when the
activation of the root has written its last block, everything is finished
(`WalkOver`). The phase may then change without any number changing its
meaning. `WalkInvariance` gives `EntriesAlwaysResolve`, `MarksOnlyWhileExpected`
and `MarkingIsComplete`. The arithmetic is `SlotOfInum` and `NewSize`: a number
made from a slot leads back to it, and rounding the group size up is idempotent.

A block that was overwritten is out of all this: what is said of entries is said of
those in blocks that are `Intact`, and a walk that opens another ends in `undefined`,
which by `LostReadOnlyAfterStop` only a restart does (model-checked).
`DoneIsRepaired` needs `RepairInv` beside these: which of the backups, records
and directories are repaired at each place of the program, where `Start` reads
what an earlier run left; and `TotalFree`, the sum of the free counts, a natural
number by induction over a set of group numbers.

*Only model-checked.* Liveness, which is out of the prover's reach: `MkfsEnds`,
`RepairCompletes`, `SparseEnds`, `ResparseEnds`, `DirectoryEnds`; and
`LostReadOnlyAfterStop`. Every other property of a passing run is stated by a
theorem. Two properties are proved and in no run: `NeverReservedTwice`, which
follows from `GroupsConsistent`, and `UsesAllocator`. The statements of comments and
messages that the code does not keep (section 6) are refuted by TLC on an
instance each.

## 5. What a property is about

*Allocator.* `GroupsConsistent`, `BlocksAccountedFor`, `NeverReservedTwice`,
`ReturnedBlocksAreLast` (the assumption in the comment of `reduce_allocation`),
`ShortFirstRegionMeansFull` (bounds where the defect in section 6 can strike),
`ImplementsPool`; `ScanFindsBestFit` for the choice of a group.

*Builder.* `EveryBlockHasOneInode` ties the inodes to the allocator's history,
`ExtentsSound` the extents to the length asked for, to `i_blocks` and to each
other, `TreeMatchesInodes` the directories, patched late, their link counts and
`..` to the inodes, `CountsMatchImage` superblock and descriptors to the bitmaps
and the directories, `UninitGroupsAreEmpty` the flag to both, `InodesConsistent`
the inode bitmaps to their counters, `UsesAllocator` the calls to the
allocator's specification, `MkfsEnds` the end.

*Layout.* `GroupsFitImage`, `HeadersApart`, `ReaderAgrees` and
`ResizeListsReserved` state exactly where they hold: the conditions in front of
them are the off-by-one with 1 KiB blocks (`OffByOne`; for the reader only the
group it drops), the dropped block of descriptors, options that do not fit the
superblock's fields (`Storable`), and numbers of reserved blocks that do not divide
2^32.

*Directory.* `RecordsFillBlocks` compares the two passes of `make_directory`,
`NamesKept` the names scandir found with the records, whichever cannot be read,
`WalkMeetsRecords` what one program wrote with what the other reads,
`DirectoryEnds` is the end of both.

*ext4fixup.* `EntriesResolve` is the point of the mark bit: each number on disk
still means the same inode. `MarksMatchState`, `MarkPassComplete` and
`BitmapsClearedFirst` are the orderings it depends on, `CountedOnce` and
`DoneMeansRepaired` the result, with blocks of 1 KiB including the copies that
missed, `LostReadOnlyAfterStop` that what they overwrote is not met in a run without
a stop, `NoWriteKeepsDisk` the promise of `-n`,
`RepairCompletes` the end.

*libsparse.* `ListIsImage`, `HeaderDescribesChunks`, `PlainIsImage`, `ReadBack`
(which says exactly which good files a reader refuses), `SparseEnds`;
`NothingLost`, `ListsUsable`, `FilesFit`, `ResparseEnds`.

## 6. Where code and comments disagree

Each of these is a run that ends in a counterexample; `PROJECT.json` quotes the
lines.

* `mkfs_leaf`: the test for too many extents lacks parentheses; a file in 85 or
  more regions overruns a leaf of 1024 bytes.
* `fixup_mountable`: stopped between the magic number and the superblock's low
  bit, the restarted tool marks directories of an image that still looks
  mountable.
* `sparse_status`: results of writes behind gaps and at the end are dropped, and
  `sparse_file_write` returns 0.
* `resparse_len`: skip chunks of gaps between pieces are not counted, and a file
  is longer than `max_len`.

What follows was met while modelling and is in the models, inside the
conditions of properties that pass.

* Allocator: `reduce_allocation` starts from `list.last`, the first region; if
  that is one block long, taking one block off drops every region
  (`allocate.c:295`), and `reserve_oob_blocks` (`:690`) then moves all regions
  but one. By `ShortFirstRegionNeedsFullImage` this needs an image with at most
  one free block per group.
* Builder: with `-f` and fewer than ten inodes in a group the reserved inodes are
  not marked (`make_ext4fs.c:548`), and entries get their numbers.
* ext4fixup: stopped between the superblock and the descriptors
  (`ext4fixup.c:286`), the restarted tool never adds the new inodes to the
  descriptors' free counts. `CountedOnce` therefore promises that a group is
  counted once only of a run that was not stopped. With blocks of 1 KiB the copy of
  the superblock for a group is written without `first_data_block`
  (`ext4fixup.c:339`): no backup is updated, and each copy overwrites the last block
  of the group before. The sanity pass gets
  `no_write` instead of `tmp_no_write`. A deleted first entry of a block ends the
  walk over its directory.
* Layout: with 1 KiB blocks the remainder of the length is compared with the
  header although the first group starts at block 1: a full group is dropped, or
  one too short is kept, or one that is all header reaches a block past the
  image (`ext4_utils.c:154`). When the dropped group took a
  block of descriptors with it, readers compute another geometry. A length of 0,
  an inode larger than a block, and blocks of 32 or 64 KiB where nothing is
  reserved divide by zero; an image smaller than its first group's header has no
  group. The slots of the resize inode repeat one reserved block and omit
  another unless their number divides 2^32 (`indirect.c:570`). The block size given
  with `-b` is not checked: one that is not 1024 shifted left is stored as the
  logarithm of a smaller one (`ext4_utils.c:212`), and below 1024 the superblock does
  not fit its memory.
* Directory: `i_blocks` counts the block of extents or attributes, so `recurse_dir`
  reads, may walk, and writes back a block whose number was never set
  (`ext4fixup.c:700`). A record that is alone in a block of 64 KiB has a `rec_len` of 65536,
  stored as 0, and ext4fixup's walk does not end. With `-f`, a name whose `lstat`
  fails is left out when it is the last; before the last it is looked at again after
  it was freed (`make_ext4fs.c:163`).
* libsparse: the writer's checksum leaves gaps and all but one block of a fill
  out and the reader's does not, so verification refuses good files; without
  verification a checksum chunk is read through a NULL pointer
  (`sparse_read.c:263`). A `max_len` below the fixed overhead wraps and is no
  limit; one that holds less than a block beside it is never done. After the
  counting output failed, pieces of `tmp` go behind the head of the list,
  unsorted. Files may be empty.

Read off the code and outside the models: `backed_block_split` copies the
filename pointer of a piece and both halves free it; a file piece of length 0
cannot be mapped; a fill shorter than a block is not padded in a plain file;
`write_ext4_image` drops the result of the write; `advance_list_ptr` does not
store its position, in code nothing calls.

## 7. Not modelled

* The bytes of structures: superblock fields no decision reads, checksums,
  hashes, attribute entries. The models keep what decisions depend on. With one
  attribute per inode there is no order or packing of attributes to get wrong.
* Reading the source directory beyond names that cannot be read (modes, owners,
  times, mount points), option parsing, `wipe`, `uuid` and the hashes.
* `inode_allocate_indirect` and the region cursor it moves (`advance_list_ptr`,
  `get_ext_block`): no function calls them. The block list for `-B`
  (`save_allocation`, `print_blocks`) repeats the allocation's regions.
* Memory that is too small for what is put there: the buffers of 4096 bytes on the
  stack of ext4fixup, which larger blocks overrun; a bitmap of one block with `-g`
  above eight times the block size. Products of 32 bits of sizes and counts
  (`extent.c:71`) are taken not to overflow.
* In ext4fixup, the extents of a directory are reduced to a number of blocks; a
  write is atomic, as one `write()` of a block or less is taken to be.
* In libsparse: gzip and callback output (the same calls in the same order),
  `sparse_file_foreach_chunk` (the same pieces), sparse files other programs
  wrote. A chunk whose write fails is left out whole; no property reads a broken
  file's contents. The heap: that memory is freed twice cannot be seen.
* `canned_fs_config.c`: sorting and searching are the C library's; what is left
  is splitting a line.

## 8. Plan

Done, in this order because everything rests on the allocator: BestFit,
BlockAllocator with its proofs, Fixup, InodeAllocator and Mkfs, BackedBlocks and
SparseFile; then Layout, Resparse, Directory; then the proofs of the scan, of
Fixup, of Layout, of the list, of SparseFile and of Mkfs; last those of
Directory and Resparse.

What would be worth adding:

1. What holds of a build with `-f` and fewer than ten inodes in a group
   (`Unreserved`): which inodes get two owners, and that blocks still have one.
2. A heap for libsparse, so that the filename both halves of a split piece free
   is a property and not a remark.
3. `inode_allocate_indirect` and the region cursor, should a caller appear.
4. The two hazards of ext4fixup no property covers: a deleted first entry of a
   block ends the walk over a directory, and the sanity pass gets `no_write`.

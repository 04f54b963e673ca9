------------------------------- MODULE Layout -------------------------------
(***************************************************************************)
(* Where everything goes: from the options to the geometry (compute_* and  *)
(* ext4_init_fs_aux_info), the headers of the groups (init_bg), the        *)
(* descriptors and backups (ext4_fill_in_sb), the resize inode and the     *)
(* superblock, and what a reader works out from it (ext4_parse_sb_info).   *)
(* Error handling is that of a run without -f.                             *)
(***************************************************************************)
EXTENDS Integers, FiniteSets

\* The options; 0 for one that is not given.  len counts the whole blocks of
\* the length, and part says whether there are bytes behind them: rounding the
\* length down clears bits, which leaves whole blocks only of a power of two.
CONSTANT Options
ASSUME OptionsAssumption ==
  Options \subseteq [len : Nat, part : BOOLEAN, block_size : Nat, blocks_per_group : Nat,
                     inodes : Nat, inode_size : Nat]

VARIABLES
  stage,    \* how far the program is, or how it stopped
  info,     \* struct fs_info
  aux,      \* struct fs_aux_info
  bgs,      \* the block groups init_bg has set up
  bg_desc,  \* the block numbers in the descriptors
  pieces,   \* what was queued with sparse_file_add_data
  resize,   \* double indirect block of the resize inode, and the blocks below
  reader    \* the aux_info of a program that reads the superblock
layoutVars == <<stage, info, aux, bgs, bg_desc, pieces, resize, reader>>

CeilDiv(x, y) == (x + y - 1) \div y
Smaller(x, y) == IF x < y THEN x ELSE y

DESC_SIZE == 32         \* sizeof(struct ext2_group_desc)
DescBlocks(groups, block_size) == CeilDiv(groups * DESC_SIZE, block_size)

\* is_power_of
IsPowerOf(a, b) ==
  LET power[n \in 0 .. a] == n = b \/ (n > b /\ n % b = 0 /\ power[n \div b])
  IN  a > 0 /\ power[a]

\* ext4_bg_has_super_block: make_ext4fs always sets SPARSE_SUPER.
HasSuper(bg) == bg \in {0, 1} \/ \E b \in {3, 5, 7} : IsPowerOf(bg, b)

None == [first_data_block |-> 0, len_blocks |-> 0, inode_table_blocks |-> 0,
         groups |-> 0, bg_desc_blocks |-> 0]

LayoutInit ==
  /\ stage = "options"
  /\ \E o \in Options :
       info = [o EXCEPT !.block_size = IF @ = 0 THEN 4096 ELSE @]
  /\ aux = None /\ reader = None
  /\ bgs = [g \in {} |-> 0] /\ bg_desc = bgs
  /\ pieces = {}
  /\ resize = [dind |-> bgs, ind |-> bgs]

-----------------------------------------------------------------------------
(* make_ext4fs_internal, up to ext4_init_fs_aux_info.                      *)

\* A length of no block, or an inode larger than a block, divides by zero.
ComputeParameters ==
  /\ stage = "options"
  /\ LET bs == info.block_size
         bpg == IF info.blocks_per_group = 0 THEN bs * 8 ELSE info.blocks_per_group
         blocks == info.len + IF info.part THEN 1 ELSE 0
         inodes == IF info.inodes = 0 THEN blocks \div 4 ELSE info.inodes
         size == IF info.inode_size = 0 THEN 256 ELSE info.inode_size
         groups == CeilDiv(blocks, bpg)
         align == bs \div size
         ipg == align * CeilDiv(CeilDiv(inodes, groups), align)
         reserve == CeilDiv(groups * 1024 * DESC_SIZE, bs) - DescBlocks(groups, bs)
     IN  IF groups = 0 \/ align = 0
         THEN stage' = "crashed" /\ UNCHANGED info
         ELSE /\ stage' = "parameters"
              /\ info' = [len |-> info.len, block_size |-> bs, blocks_per_group |-> bpg,
                          inodes |-> ipg * groups, inode_size |-> size, inodes_per_group |-> ipg,
                          bg_desc_reserve_blocks |-> Smaller(reserve, bs \div 4)]
  /\ UNCHANGED <<aux, bgs, bg_desc, pieces, resize, reader>>

\* Blocks in front of the data of a group: bitmaps and inode table, and with
\* a superblock that, the descriptors and the blocks reserved for more.
HeaderSize(f, a, super) ==
  2 + a.inode_table_blocks
    + IF super THEN 1 + a.bg_desc_blocks + f.bg_desc_reserve_blocks ELSE 0

\* Mutant: a last group one block too small is kept.
DropsShort(last, header) == last > 0 /\ last < header - 1
\* A last group that cannot hold its header is dropped.
Drops(last, header) == last > 0 /\ last < header

\* Mutant: one block of a dropped group is still counted.
RemainingOneMore(len, last) == len - last + 1
Remaining(len, last) == len - last

\* ext4_init_fs_aux_info.  bg_desc_blocks is not computed again when the last
\* group is dropped.
AuxOf(f) ==
  LET first == IF f.block_size > 1024 THEN 0 ELSE 1
      groups == CeilDiv(f.len - first, f.blocks_per_group)
      all == [first_data_block |-> first, len_blocks |-> f.len, groups |-> groups,
              inode_table_blocks |-> CeilDiv(f.inodes_per_group * f.inode_size, f.block_size),
              bg_desc_blocks |-> DescBlocks(groups, f.block_size)]
      last == f.len % f.blocks_per_group
  IN  IF Drops(last, HeaderSize(f, all, HasSuper(groups - 1)))
      THEN [all EXCEPT !.groups = @ - 1, !.len_blocks = Remaining(@, last)]
      ELSE all

\* The superblock gets the memory of a block, which must hold 1024 bytes.  An
\* image of no group would have 2^32 - 1 after one was dropped, for which there
\* is no memory.
InitAux ==
  /\ stage = "parameters"
  /\ aux' = AuxOf(info)
  /\ stage' = IF aux'.groups < 0 THEN "failed"
              ELSE IF info.block_size < 1024 THEN "crashed" ELSE "groups"
  /\ UNCHANGED <<info, bgs, bg_desc, pieces, resize, reader>>

-----------------------------------------------------------------------------
(* The groups.                                                             *)

FirstBlock(g) == aux.first_data_block + g * info.blocks_per_group
SuperSize == 1 + aux.bg_desc_blocks + info.bg_desc_reserve_blocks
Piece(what, g, start, len) == [what |-> what, group |-> g, start |-> start, len |-> len]

\* The end of the blocks a group has: reserve_blocks refuses, and init_bg
\* does not look, when the overrun does not fit behind the header.
LimitOf(header, overrun) ==
  IF overrun \in 1 .. info.blocks_per_group - header
  THEN info.blocks_per_group - overrun ELSE info.blocks_per_group

\* Where init_bg queues the two bitmaps.
BitmapsAt(g) == FirstBlock(g) + IF HasSuper(g) THEN SuperSize ELSE 0

InitBg ==
  /\ stage = "groups"
  /\ \E g \in 0 .. aux.groups - 1 :
       /\ g = Cardinality(DOMAIN bgs)
       /\ LET header == HeaderSize(info, aux, HasSuper(g))
              overrun == FirstBlock(g) + info.blocks_per_group - aux.len_blocks
              bg == [first_block |-> FirstBlock(g), header |-> header,
                     limit |-> LimitOf(header, overrun)]
          IN  IF header > info.blocks_per_group
              THEN stage' = "failed" /\ UNCHANGED <<bgs, pieces>>
              ELSE /\ bgs' = [h \in DOMAIN bgs \cup {g} |-> IF h = g THEN bg ELSE bgs[h]]
                   /\ pieces' = pieces \cup {Piece("bitmaps", g, BitmapsAt(g), 2)}
                   /\ UNCHANGED stage
  /\ UNCHANGED <<info, aux, bg_desc, resize, reader>>

\* Mutant: the descriptors of a backup start in the superblock's block.
BackupsOverlap(g) ==
  {Piece("backup", g, FirstBlock(g), 1) : h \in {g} \ {0}}
    \cup {Piece("descriptors", g, FirstBlock(g), aux.bg_desc_blocks)}
\* ext4_fill_in_sb, for one group with a superblock.
Backups(g) ==
  {Piece("backup", g, FirstBlock(g), 1) : h \in {g} \ {0}}
    \cup {Piece("descriptors", g, FirstBlock(g) + 1, aux.bg_desc_blocks)}

\* ext4_fill_in_sb, then reserve_inodes, which reads group 0.
FillInSb ==
  /\ stage = "groups" /\ Cardinality(DOMAIN bgs) = aux.groups
  /\ stage' = IF aux.groups = 0 THEN "crashed" ELSE "resize"
  /\ pieces' = pieces \cup UNION {Backups(g) : g \in {g \in DOMAIN bgs : HasSuper(g)}}
  /\ bg_desc' = [g \in DOMAIN bgs |->
       LET start == FirstBlock(g) + IF HasSuper(g) THEN SuperSize ELSE 0
       IN  [bg_block_bitmap |-> start, bg_inode_bitmap |-> start + 1, bg_inode_table |-> start + 2]]
  /\ UNCHANGED <<info, aux, bgs, resize, reader>>

\* allocate_bg_inode_table, when the first inode of a group is used.
TablePiece(g) ==
  Piece("inode_table", g, FirstBlock(g) + 2 + (IF HasSuper(g) THEN SuperSize ELSE 0),
        aux.inode_table_blocks)

-----------------------------------------------------------------------------
(* The resize inode.                                                       *)

SuperGroups == {g \in 0 .. aux.groups - 1 : HasSuper(g)}
NthSuper(n) == CHOOSE g \in SuperGroups : Cardinality({h \in SuperGroups : h < g}) = n

\* The reserved blocks, as regions of one allocation, and its n-th block.
ReservedAt(g) == FirstBlock(g) + 1 + aux.bg_desc_blocks
GetBlock(n) ==
  LET reserve == info.bg_desc_reserve_blocks
  IN  ReservedAt(NthSuper(n \div reserve)) + (n % reserve)

\* 2^32 % n, without a number of more than 31 bits.
Mod2To32(n) == ((65536 % n) * (65536 % n)) % n

\* Mutant: the offset of the descriptors is added.
SlotBlockAhead(i) == (i + aux.bg_desc_blocks) % info.bg_desc_reserve_blocks
\* The reserved block in slot i.  The difference is unsigned: below zero it
\* wraps before the remainder is taken, and the test for r < 0 is never true.
SlotBlock(i) ==
  LET reserve == info.bg_desc_reserve_blocks
  IN  IF i >= aux.bg_desc_blocks THEN (i - aux.bg_desc_blocks) % reserve
      ELSE (Mod2To32(reserve) + i - aux.bg_desc_blocks) % reserve

\* inode_attach_resize: slot i of the double indirect block, and for each of
\* the blocks it lists the same block of every other superblock's group.
\* With nothing reserved it divides by zero.
CreateResize ==
  /\ stage = "resize"
  /\ LET reserve == info.bg_desc_reserve_blocks
         slots == 0 .. reserve - 1
         filled == {SlotBlock(i) : i \in slots}
     IN  IF reserve = 0 THEN stage' = "crashed" /\ UNCHANGED <<resize, pieces>>
         ELSE /\ stage' = "queue"
              /\ resize' = [dind |-> [i \in slots |-> GetBlock(SlotBlock(i))],
                            ind |-> [r \in slots |->
                              IF r \in filled
                              THEN [j \in 1 .. Cardinality(SuperGroups) - 1 |-> GetBlock(j * reserve + r)]
                              ELSE <<>>]]
              /\ pieces' = pieces \cup {Piece("reserved", 0, GetBlock(0), reserve)}
  /\ UNCHANGED <<info, aux, bgs, bg_desc, reader>>

-----------------------------------------------------------------------------
(* The superblock, written and read.                                       *)

QueueSb ==
  /\ stage = "queue" /\ stage' = "written"
  /\ pieces' = pieces \cup {Piece("superblock", 0, IF info.block_size > 1024 THEN 0 ELSE 1, 1)}
  /\ UNCHANGED <<info, aux, bgs, bg_desc, resize, reader>>

\* 1 << k, and log_2 of a number above 0: what it can be shifted right by.
Shifted(k) == LET shl[n \in 0 .. k] == IF n = 0 THEN 1 ELSE 2 * shl[n - 1] IN shl[k]
Log2(j) == CHOOSE k \in 0 .. j : Shifted(k) <= j /\ j < 2 * Shifted(k)
\* What is left of a block size whose logarithm is stored, and of 16 bits.
ReadBack(block_size) == 1024 * Shifted(Log2(block_size \div 1024))
U16(n) == n % 65536

\* ext4_parse_sb: what ext4_fill_in_sb stored, which is of the block size its
\* logarithm, of the inode size and the reserved blocks 16 bits, and of the
\* length the number of blocks.
ParsedInfo ==
  [info EXCEPT !.len = aux.len_blocks, !.inodes = info.inodes_per_group * aux.groups,
               !.block_size = ReadBack(@), !.inode_size = U16(@),
               !.bg_desc_reserve_blocks = U16(@)]

\* "first data block does not match" is all the reader looks for.
ParseSb ==
  /\ stage = "written"
  /\ reader' = AuxOf(ParsedInfo)
  /\ stage' = IF reader'.first_data_block = aux.first_data_block THEN "done" ELSE "refused"
  /\ UNCHANGED <<info, aux, bgs, bg_desc, pieces, resize>>

LayoutEnded == stage \in {"done", "refused", "failed", "crashed"}
LayoutNext ==
  \/ ComputeParameters \/ InitAux \/ InitBg \/ FillInSb
  \/ CreateResize \/ QueueSb \/ ParseSb
  \/ LayoutEnded /\ UNCHANGED layoutVars
LayoutSpec == LayoutInit /\ [][LayoutNext]_layoutVars

-----------------------------------------------------------------------------
(* Properties.                                                             *)

\* With 1 KiB blocks the first group starts at block 1, and the remainder
\* ext4_init_fs_aux_info looks at is one more than what the last group holds:
\* a remainder of 1 drops a full group, one of exactly the header keeps a
\* group that is a block short of it, and so is a group that is all header
\* when the remainder is 0 or a group behind it was dropped.
LastHeader ==
  HeaderSize(info, aux, HasSuper(CeilDiv(info.len - aux.first_data_block, info.blocks_per_group) - 1))
DropsFullGroup == aux.first_data_block = 1 /\ info.len % info.blocks_per_group = 1
OffByOne ==
  \/ DropsFullGroup
  \/ /\ aux.first_data_block = 1
     /\ \/ info.len % info.blocks_per_group = LastHeader
        \/ bgs[aux.groups - 1].header = info.blocks_per_group

GroupsReady == stage \in {"resize", "queue", "written", "done", "refused"}

\* What block_allocator_init takes for granted of ext4_init_fs_aux_info: every
\* group has room for its header, the blocks it offers behind it are blocks of
\* the image, and the groups reach the end of the image.
GroupsFitImage ==
  GroupsReady /\ ~OffByOne =>
    /\ \A g \in DOMAIN bgs :
         /\ bgs[g].header <= bgs[g].limit
         /\ bgs[g].first_block + bgs[g].limit <= aux.len_blocks
    /\ FirstBlock(aux.groups) >= aux.len_blocks

\* Four functions work out where the parts of a header are.  What they queue
\* never overlaps and stays inside the header of its group, and the descriptors
\* name the blocks the bitmaps and tables are at.
HeadersApart ==
  GroupsReady =>
    LET all == pieces \cup {TablePiece(g) : g \in DOMAIN bgs}
    IN  /\ \A p, q \in all : p = q \/ p.start + p.len <= q.start \/ q.start + q.len <= p.start
        /\ \A p \in all : p.what # "superblock" =>
             /\ bgs[p.group].first_block <= p.start
             /\ p.start + p.len <= bgs[p.group].first_block + bgs[p.group].header
        /\ \A g \in DOMAIN bgs :
             /\ Piece("bitmaps", g, bg_desc[g].bg_block_bitmap, 2) \in pieces
             /\ bg_desc[g].bg_inode_bitmap = bg_desc[g].bg_block_bitmap + 1
             /\ bg_desc[g].bg_inode_table = TablePiece(g).start

\* Options the fields of the superblock can hold: a block size of 1024 shifted
\* left, and 16 bits for the inode size and the reserved blocks.
Storable ==
  /\ \E k \in 0 .. Log2(info.block_size \div 1024) : info.block_size = 1024 * Shifted(k)
  /\ info.inode_size < 65536 /\ info.bg_desc_reserve_blocks < 65536

\* A program that reads the superblock (ext4_parse_sb_info) takes it and arrives
\* at the geometry the image was made with, unless the options are not Storable,
\* a full group was dropped, or dropping the last group took a block of
\* descriptors with it, which the image still has.
ReaderAgrees ==
  LET described == aux.bg_desc_blocks = DescBlocks(aux.groups, info.block_size)
  IN  stage \in {"done", "refused"} /\ Storable /\ ~DropsFullGroup /\ described
        => stage = "done" /\ reader = aux

\* The resize inode lists every reserved block of group 0 once, slot i the
\* block i behind the superblock where it does not wrap, and below each the
\* same block of every other superblock's group: when the number of reserved
\* blocks divides 2^32.  Any other number makes the unsigned remainder repeat
\* a block and leave one out.
ResizeListsReserved ==
  stage \in {"queue", "written", "done", "refused"} =>
    LET reserve == info.bg_desc_reserve_blocks
        slots == 0 .. reserve - 1
    IN  /\ \A i \in slots : i >= aux.bg_desc_blocks => resize.dind[i] = FirstBlock(0) + 1 + i
        /\ Mod2To32(reserve) = 0 =>
             /\ {resize.dind[i] : i \in slots} = ReservedAt(0) .. ReservedAt(0) + reserve - 1
             /\ \A r \in slots : \A g \in SuperGroups \ {0} :
                  ReservedAt(g) + r \in {resize.ind[r][j] : j \in DOMAIN resize.ind[r]}
=============================================================================

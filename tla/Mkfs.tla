-------------------------------- MODULE Mkfs --------------------------------
(***************************************************************************)
(* make_ext4fs_internal from block_allocator_init to ext4_update_free: the *)
(* reserved inodes, the journal, the resize inode and a walk over a source *)
(* tree that makes an inode for every entry, all on the block allocator of *)
(* BlockAllocator and the inode allocator of InodeAllocator.               *)
(***************************************************************************)
EXTENDS BlockAllocator, InodeAllocator, FiniteSets

CONSTANTS
  Trees,          \* the source trees
  JournalBlocks,  \* what info->journal_blocks may be, 0 without a journal
  ReservedGdt,    \* bg_desc_reserve_blocks of all groups with a superblock
  BlockSize,      \* info->block_size
  InlineXattr     \* inode_size leaves room for a capability in the inode

\* A tree gives each directory the number of blocks dentry_size computes and
\* its entries in the order of scandir.  An entry has the directory it is (if
\* it is one), the blocks of its data, and whether fs_config has capabilities
\* for it.
RootDir == "root"
LostFound == "lost+found"
ASSUME MkfsAssumption ==
  /\ JournalBlocks \subseteq Nat /\ ReservedGdt \in Nat /\ BlockSize \in Nat /\ InlineXattr \in BOOLEAN
  /\ \A t \in Trees :
       /\ {RootDir, LostFound} \subseteq DOMAIN t
       /\ \A d \in DOMAIN t : t[d].entries \in Seq(
            [type : {"dir", "file", "link", "special"}, dir : DOMAIN t \cup {""},
             blocks : Nat, caps : BOOLEAN])
       /\ \A d \in DOMAIN t : \A k \in DOMAIN t[d].entries :
            t[d].entries[k].type = "dir" => t[d].entries[k].dir \in DOMAIN t

\* Requests covers what the trees and the journal need.
ASSUME DemandAssumption ==
  /\ 1 \in Requests /\ JournalBlocks \ {0} \subseteq Requests
  /\ \A t \in Trees : \A d \in DOMAIN t :
       /\ t[d].blocks \in Requests
       /\ \A k \in DOMAIN t[d].entries : t[d].entries[k].blocks \in Requests \cup {0}

ASSUME LeafAssumption == NumGroups < BlockSize

\* Fields of 16 bits, and what they are wide enough for: the lengths of extents
\* and the counters of the descriptors.
U16(n) == n % 65536
ASSUME WidthAssumption == BlocksPerGroup < 65536 /\ InodesPerGroup < 65536

VARIABLES
  tree,      \* the source tree
  inodes,    \* inode number |-> inode, for every inode that was ever filled in
  pc,        \* the call in progress
  stack,     \* activations of build_directory_structure, the running one first
  current,   \* the inode being made, the directory it is, the blocks of its data
  sb         \* counts ext4_update_free puts in the superblock and descriptors

mkfsOnly == <<tree, inodes, pc, stack, current, sb>>
mkfsVars == <<allocVars, inodeVars, mkfsOnly>>

ROOT_INO == 2
RESIZE_INO == 7
JOURNAL_INO == 8
RESERVED_INODES == 10

\* EXT4_ALLOCATE_FAILED where a block number should be.
NoSuchBlock == <<-1, -1>>

\* Block pointers are sets: empty for 0.  i_size is counted in blocks, and kept
\* for inodes with extents.
Blank == [type |-> "none", links |-> 0, size |-> 0, blocks |-> 0, eh_entries |-> 0,
          extents |-> <<>>, leaf |-> {}, map |-> {}, acl |-> {}, parent |-> 0, dents |-> <<>>]
Making(inum, d, blocks) == [inum |-> inum, dir |-> d, blocks |-> blocks]

MkfsInit ==
  /\ AllocatorInit /\ InodesInit
  /\ tree \in Trees
  /\ inodes = [n \in {} |-> Blank]
  /\ pc = "reserve" /\ stack = <<>> /\ current = Making(0, "", 0)
  /\ sb = [free_blocks |-> 0, free_inodes |-> 0, bg |-> <<>>]

\* build_directory_structure adds lost+found to a root that has none.
EntriesOf(d) ==
  LET given == tree[d].entries
  IN  IF d = RootDir /\ \A k \in DOMAIN given : given[k].dir # LostFound
      THEN <<[type |-> "dir", dir |-> LostFound, blocks |-> 0, caps |-> FALSE]>> \o given
      ELSE given

Entry == EntriesOf(Head(stack).dir)[Head(stack).pos]
Walking == pc = "tree" /\ Head(stack).pos <= Len(EntriesOf(Head(stack).dir))

-----------------------------------------------------------------------------
(* Making an inode: allocate_inode, get_inode, and the request for blocks. *)

SetInode(inum, node) ==
  inodes' = [n \in DOMAIN inodes \cup {inum} |-> IF n = inum THEN node ELSE inodes[n]]

\* allocate_inode succeeds with inum.
AllocateInode(inum) ==
  \E g \in Groups : InodeGroup(g) /\ inum = NextInode(g) /\ ReserveInodes(g, 1)

\* "failed to allocate inode": with -f the caller goes on with an inode
\* number of 0xffffffff and reads past the array of groups.
OutOfInodes ==
  /\ Walking /\ alloc_pc = "idle" /\ NoFreeInode
  /\ pc' = IF force THEN "crashed" ELSE "failed"
  /\ UNCHANGED <<allocVars, inodeVars, tree, inodes, stack, current, sb>>

\* Mutant: the request is for the blocks of the data alone.
RequestExtentsExact(blocks) == AllocateBlocks(blocks, "extents")
\* inode_allocate_extents and the others ask for one block more, for a leaf.
RequestExtents(blocks) == AllocateBlocks(blocks + 1, "extents")

ReserveFirstInodes ==
  /\ pc = "reserve"
  /\ IF free_inodes[0] >= RESERVED_INODES
     THEN ReserveInodes(0, RESERVED_INODES) /\ pc' = "journal"
     ELSE /\ UNCHANGED <<inode_bitmap, free_inodes, first_free_inode>>
          /\ pc' = IF force THEN "journal" ELSE "failed"
  /\ UNCHANGED <<allocVars, used_dirs, uninit, tree, inodes, stack, current, sb>>

CreateJournal ==
  /\ pc = "journal" /\ pc' = "journal_data"
  /\ GetInode(JOURNAL_INO) /\ SetInode(JOURNAL_INO, Blank)
  /\ \E n \in JournalBlocks \ {0} :
       RequestExtents(n) /\ current' = Making(JOURNAL_INO, "", n)
  /\ UNCHANGED <<inode_bitmap, free_inodes, first_free_inode, used_dirs, tree, stack, sb>>

NoJournal ==
  /\ pc = "journal" /\ 0 \in JournalBlocks
  /\ pc' = "resize"
  /\ UNCHANGED <<allocVars, inodeVars, tree, inodes, stack, current, sb>>

CreateResize ==
  /\ pc = "resize"
  /\ pc' = "resize_data"
  /\ GetInode(RESIZE_INO) /\ SetInode(RESIZE_INO, Blank)
  /\ current' = Making(RESIZE_INO, "", 0)
  /\ AllocateBlocks(1, "whole")
  /\ UNCHANGED <<inode_bitmap, free_inodes, first_free_inode, used_dirs, tree, stack, sb>>

\* make_directory, up to its data blocks; the root has a reserved inode.
BeginDirectory(d, inum) ==
  /\ pc' = "dir_data"
  /\ GetInode(inum) /\ SetInode(inum, Blank) /\ AddDirectory(inum)
  /\ current' = Making(inum, d, tree[d].blocks)
  /\ RequestExtents(tree[d].blocks)
  /\ UNCHANGED <<tree, stack, sb>>

MakeRoot ==
  /\ pc = "root"
  /\ BeginDirectory(RootDir, ROOT_INO)
  /\ UNCHANGED <<inode_bitmap, free_inodes, first_free_inode>>

MakeDirectory ==
  /\ Walking /\ Entry.type = "dir"
  /\ \E inum \in 1 .. NumGroups * InodesPerGroup :
       AllocateInode(inum) /\ BeginDirectory(Entry.dir, inum)

\* make_file, make_link and make_special.
MakeLeaf ==
  /\ Walking /\ Entry.type # "dir"
  /\ \E inum \in 1 .. NumGroups * InodesPerGroup :
       /\ AllocateInode(inum) /\ GetInode(inum)
       /\ current' = Making(inum, "", Entry.blocks)
       /\ SetInode(inum, [Blank EXCEPT !.type = Entry.type, !.links = 1])
  /\ \/ Entry.blocks = 0 /\ pc' = "finish" /\ UNCHANGED allocVars
     \/ Entry.blocks > 0 /\ Entry.type = "link" /\ pc' = "link_data" /\ AllocateBlocks(1, "whole")
     \/ Entry.blocks > 0 /\ Entry.type = "file" /\ pc' = "file_data" /\ RequestExtents(Entry.blocks)
  /\ UNCHANGED <<used_dirs, tree, stack, sb>>

-----------------------------------------------------------------------------
(* The blocks arrive.                                                      *)

\* Number of blocks in the first k regions of l.
LenOf(l, k) == LET to[i \in 0 .. Len(l)] == IF i = 0 THEN 0 ELSE to[i - 1] + l[i].len
               IN  to[k]

Extents(l) == [k \in DOMAIN l |->
                 [ee_block |-> LenOf(l, k - 1), ee_len |-> U16(l[k].len), region |-> l[k]]]

\* Mutant: the block of the leaf is not counted in i_blocks.
WithExtentsLeafUncounted(node, l, leaf) ==
  [node EXCEPT !.eh_entries = Len(list), !.extents = Extents(l), !.leaf = leaf,
               !.size = current.blocks, !.blocks = current.blocks]
\* The end of do_inode_allocate_extents: allocation_len was counted before the
\* spare block went, i_size and i_blocks come from what was asked for, whatever
\* the regions hold.
WithExtents(node, l, leaf) ==
  [node EXCEPT !.eh_entries = Len(list), !.extents = Extents(l), !.leaf = leaf,
               !.size = current.blocks,
               !.blocks = IF leaf = {} THEN current.blocks ELSE current.blocks + 1]

\* ".." of the new directory: the root is its own parent.
ParentInode == IF stack = <<>> THEN ROOT_INO ELSE Head(stack).inum

\* Mutant: lost+found is not counted as a subdirectory.
SubdirsNamed(d) == Cardinality({k \in DOMAIN EntriesOf(d) :
                                  EntriesOf(d)[k].type = "dir" /\ EntriesOf(d)[k].dir # LostFound})
Subdirs(d) == Cardinality({k \in DOMAIN EntriesOf(d) : EntriesOf(d)[k].type = "dir"})

\* The rest of make_directory: an entry for every name, still without inode.
AsDirectory(node, d) ==
  [node EXCEPT !.type = "dir", !.links = Subdirs(d) + 2, !.parent = ParentInode,
               !.dents = [k \in DOMAIN EntriesOf(d) |-> 0]]

\* The caller of do_inode_allocate_extents goes on with node.
ExtentsDone(node) ==
  \/ /\ pc = "journal_data" /\ pc' = "resize"
     /\ SetInode(current.inum, [node EXCEPT !.type = "file", !.links = 1])
     /\ UNCHANGED <<stack, current>>
  \/ /\ pc = "file_data" /\ pc' = "finish"
     /\ SetInode(current.inum, node)
     /\ UNCHANGED <<stack, current>>
  \/ /\ pc = "dir_data" /\ pc' = "tree"
     /\ SetInode(current.inum, AsDirectory(node, current.dir))
     /\ stack' = <<[dir |-> current.dir, inum |-> current.inum, pos |-> 1]>> \o stack
     /\ UNCHANGED current

\* A crash in the allocation is seen in alloc_pc.
Attach(node) ==
  IF alloc_pc' = "idle" THEN ExtentsDone(node) ELSE UNCHANGED <<inodes, pc, stack, current>>

\* The region list as reserve_oob_blocks leaves it, less the leaf block.
AttachInInode ==
  /\ KeepInInode
  /\ Attach(WithExtents(inodes[current.inum], Reduced(list), {}))
  /\ UNCHANGED <<inodeVars, tree, sb>>

\* The test before the leaf is filled refuses block_size or more regions; an
\* allocation has at most one per group (LeafAssumption).
AttachWithLeaf ==
  /\ KeepWithLeaf
  /\ Attach(WithExtents(inodes[current.inum], ReservedOob(list).list,
                        Held(ReservedOob(list).oob)))
  /\ UNCHANGED <<inodeVars, tree, sb>>

\* inode_attach_resize, and do_inode_attach_indirect for a slow symlink.
AttachWhole ==
  /\ KeepWhole
  /\ SetInode(current.inum,
       IF pc = "resize_data"
       THEN [Blank EXCEPT !.type = "file", !.links = 1, !.map = Held(list), !.blocks = ReservedGdt + 1]
       ELSE [inodes[current.inum] EXCEPT !.map = Held(list), !.blocks = 1])
  /\ pc' = IF pc = "resize_data" THEN "root" ELSE "finish"
  /\ UNCHANGED <<inodeVars, tree, stack, current, sb>>

\* The callers of allocate_blocks when it has no more blocks.  With -f a
\* journal or a file is left without data, inode_attach_resize stores the
\* failed block number, and the rest use a NULL pointer.
WithoutBlocks ==
  /\ OutOfSpace
  /\ IF ~force THEN UNCHANGED <<inodes, pc>>
     ELSE \/ pc = "journal_data" /\ pc' = "resize" /\ UNCHANGED inodes
          \/ pc = "file_data" /\ pc' = "finish" /\ UNCHANGED inodes
          \/ pc \in {"dir_data", "link_data"} /\ pc' = "crashed" /\ UNCHANGED inodes
          \/ /\ pc = "resize_data" /\ pc' = "root"
             /\ SetInode(RESIZE_INO, [Blank EXCEPT !.type = "file", !.links = 1,
                           !.map = {NoSuchBlock}, !.blocks = ReservedGdt + 1])
  /\ UNCHANGED <<inodeVars, tree, stack, current, sb>>

GatherRegion == AllocatePartial /\ UNCHANGED <<inodeVars, mkfsOnly>>

-----------------------------------------------------------------------------
(* The end of an entry, of a directory, and of the tree.                   *)

\* *dentries[i].inode = entry_inode
Patch(dents, pos, inum) == [dents EXCEPT ![pos] = inum]

Patched ==
  LET f == Head(stack) IN [inodes EXCEPT ![f.inum].dents = Patch(@, f.pos, current.inum)]
NextEntry == stack' = <<[Head(stack) EXCEPT !.pos = @ + 1]>> \o Tail(stack)

\* Mutant: the block of the capability is not counted in i_blocks.
WithAclUncounted(table, block) == [table EXCEPT ![current.inum].acl = {block}]
\* get_xattr_block_for_inode.
WithAcl(table, block) ==
  [table EXCEPT ![current.inum].acl = {block}, ![current.inum].blocks = @ + 1]

FinishPlain ==
  /\ pc = "finish" /\ (~Entry.caps \/ InlineXattr)
  /\ inodes' = Patched /\ NextEntry /\ pc' = "tree"
  /\ UNCHANGED <<allocVars, inodeVars, tree, current, sb>>

\* With 128 byte inodes xattr_free_space starts past the end of the inode:
\* an error, and with -f no room, which leads to a block for the attribute.
FinishXattrTooBig ==
  /\ pc = "finish" /\ Entry.caps /\ ~InlineXattr /\ ~force
  /\ pc' = "failed"
  /\ inodes' = Patched
  /\ UNCHANGED <<allocVars, inodeVars, tree, stack, current, sb>>

FinishXattrBlock ==
  /\ pc = "finish" /\ Entry.caps /\ ~InlineXattr /\ force
  /\ NextEntry /\ pc' = "tree"
  /\ \/ /\ AllocateBlock
        /\ \E b \in kept' \ kept : inodes' = WithAcl(Patched, b)
     \/ /\ \A g \in Groups : free_blocks[g] = 0
        /\ inodes' = WithAcl(Patched, NoSuchBlock)
        /\ UNCHANGED allocVars
  /\ UNCHANGED <<inodeVars, tree, current, sb>>

\* build_directory_structure returns the inode of the directory it made.
LeaveDirectory ==
  /\ pc = "tree" /\ Head(stack).pos > Len(EntriesOf(Head(stack).dir))
  /\ stack' = Tail(stack)
  /\ current' = Making(Head(stack).inum, Head(stack).dir, 0)
  /\ pc' = IF Len(stack) = 1 THEN "update" ELSE "finish"
  /\ UNCHANGED <<allocVars, inodeVars, tree, inodes, sb>>

\* Mutant: the total leaves the first group out.
TotalButFirst(f) ==
  LET upTo[g \in 0 .. NumGroups] == IF g <= 1 THEN 0 ELSE upTo[g - 1] + f[g - 1]
  IN  upTo[NumGroups]
Total(f) ==
  LET upTo[g \in 0 .. NumGroups] == IF g = 0 THEN 0 ELSE upTo[g - 1] + f[g - 1]
  IN  upTo[NumGroups]

UpdateFree ==
  /\ pc = "update"
  /\ pc' = "done"
  /\ sb' = [free_blocks |-> Total(free_blocks), free_inodes |-> Total(free_inodes),
            bg |-> [g \in Groups |->
                     [free_blocks |-> U16(free_blocks[g]), free_inodes |-> U16(free_inodes[g]),
                      used_dirs |-> U16(used_dirs[g]), uninit |-> g \in uninit]]]
  /\ UNCHANGED <<allocVars, inodeVars, tree, inodes, stack, current>>

-----------------------------------------------------------------------------
MkfsEnded == pc \in {"done", "failed", "crashed"} \/ Stopped

MkfsStep ==
  \/ ReserveFirstInodes \/ CreateJournal \/ NoJournal \/ CreateResize
  \/ MakeRoot \/ MakeDirectory \/ MakeLeaf \/ OutOfInodes
  \/ GatherRegion \/ AttachInInode \/ AttachWithLeaf \/ AttachWhole \/ WithoutBlocks
  \/ FinishPlain \/ FinishXattrTooBig \/ FinishXattrBlock \/ LeaveDirectory \/ UpdateFree

MkfsNext == MkfsStep \/ (MkfsEnded /\ UNCHANGED mkfsVars)

\* One thread: a step that can be taken is taken.
MkfsSpec == MkfsInit /\ [][MkfsNext]_mkfsVars
FairMkfsSpec == MkfsSpec /\ WF_mkfsVars(MkfsStep)

-----------------------------------------------------------------------------
(* Properties.                                                             *)

Regions(node) == {node.extents[k].region : k \in DOMAIN node.extents}
DataBlocks(node) == UNION {Blocks(r) : r \in Regions(node)}
BlocksOf(node) == DataBlocks(node) \cup node.leaf \cup node.map \cup node.acl
Numbers == DOMAIN inodes
\* With -f the build goes on although group 0 has no room for the reserved
\* inodes: they are not marked, and entries are given their numbers.
Unreserved == force /\ InodesPerGroup < RESERVED_INODES
DirInodes == {n \in Numbers : inodes[n].type = "dir"}

\* Between two allocations every allocated block belongs to exactly one
\* inode, as data, leaf, map or attribute block, and to nothing twice.
EveryBlockHasOneInode ==
  alloc_pc = "idle" /\ ~Unreserved =>
    /\ (UNION {BlocksOf(inodes[n]) : n \in Numbers}) \ {NoSuchBlock} = kept
    /\ \A n, m \in Numbers : n # m =>
         BlocksOf(inodes[n]) \cap BlocksOf(inodes[m]) \subseteq {NoSuchBlock}

\* The regions an allocation returned, less its spare block, are the file that
\* was asked for: the extents cover it from block 0 to the end i_size gives,
\* without a gap and without a shared block, eh_entries counts them, and
\* i_blocks the blocks the inode owns.
ExtentsSound ==
  \A n \in Numbers :
    LET node == inodes[n]
        x == node.extents
        end(k) == x[k].ee_block + x[k].ee_len
    IN  /\ node.eh_entries = Len(x)
        /\ \A k \in DOMAIN x : x[k].ee_block = IF k = 1 THEN 0 ELSE end(k - 1)
        /\ \A k, j \in DOMAIN x : k # j => Blocks(x[k].region) \cap Blocks(x[j].region) = {}
        /\ x # <<>> =>
             /\ end(Len(x)) = node.size
             /\ node.blocks = Cardinality(DataBlocks(node) \cup node.leaf \cup node.acl)

\* Every inode in use past the reserved ones is named by exactly one entry of
\* one directory, no entry is left without inode once the tree is done, and
\* directories agree with what lies below them: a link for every subdirectory
\* and two of their own, and a parent that names them.
TreeMatchesInodes ==
  pc = "update" /\ ~Unreserved =>
    LET named == UNION {{d} \X (DOMAIN inodes[d].dents) : d \in DirInodes}
        to(p) == inodes[p[1]].dents[p[2]]
    IN  /\ \A p, q \in named : to(p) = to(q) => p = q
        /\ {to(p) : p \in named} = InUseInodes \ 1 .. RESERVED_INODES
        /\ \A n \in DirInodes :
             /\ inodes[n].links = 2 + Cardinality({p \in named : p[1] = n /\ to(p) \in DirInodes})
             /\ n # ROOT_INO => \E p \in named : p[1] = inodes[n].parent /\ to(p) = n

\* What ext4_update_free writes is what the bitmaps and the inodes say.
CountsMatchImage ==
  pc = "done" /\ ~Unreserved =>
    /\ sb.free_blocks = Cardinality(Block \ InUse)
    /\ sb.free_inodes = Cardinality((1 .. NumGroups * InodesPerGroup) \ InUseInodes)
    /\ \A g \in Groups :
         LET below == {n \in 1 .. NumGroups * InodesPerGroup : GroupOfInode(n) = g}
         IN  /\ sb.bg[g].free_blocks = Cardinality({b \in Block \ InUse : b[1] = g})
             /\ sb.bg[g].free_inodes = Cardinality(below \ InUseInodes)
             /\ sb.bg[g].used_dirs = Cardinality(DirInodes \cap below)

\* A group whose inode table the kernel may skip has no inode in use.
UninitGroupsAreEmpty ==
  pc = "done" /\ ~Unreserved => \A n \in InUseInodes \cup Numbers : ~sb.bg[GroupOfInode(n)].uninit

\* The builder ends on every source tree: done, or stopped for want of room.
MkfsEnds == <>MkfsEnded

\* Building an image is a sequence of allocator operations: whatever holds of
\* the allocator alone holds here.
UsesAllocator == AllocatorSpec

-----------------------------------------------------------------------------
(* What a message says and the code does not do.                           *)

\* "File size is too big to fit in a single extent block" (extent.c) guards
\* the leaf: its extents fit in the block behind the header.
LeafFits ==
  \A n \in Numbers : inodes[n].leaf # {} => Len(inodes[n].extents) <= (BlockSize - 12) \div 12
=============================================================================

--------------------------- MODULE InodeAllocator ---------------------------
(***************************************************************************)
(* The inode half of allocate.c: one bitmap, count and next free inode per *)
(* group, the number of directories, and the flag that says the inode      *)
(* table of the group was never touched.  The operators are conjuncts for  *)
(* the actions of Mkfs.                                                    *)
(***************************************************************************)
EXTENDS BestFit

CONSTANT InodesPerGroup      \* info->inodes_per_group
ASSUME InodesAssumption == InodesPerGroup \in Nat \ {0}

VARIABLES
  inode_bitmap,      \* per group: the set of bits that are set
  free_inodes,       \* per group
  first_free_inode,  \* per group: counts from 1
  used_dirs,         \* per group
  uninit             \* groups with EXT4_BG_INODE_UNINIT

inodeVars == <<inode_bitmap, free_inodes, first_free_inode, used_dirs, uninit>>

InodesInit ==
  /\ inode_bitmap = [g \in Groups |-> {}]
  /\ free_inodes = [g \in Groups |-> InodesPerGroup]
  /\ first_free_inode = [g \in Groups |-> 1]
  /\ used_dirs = [g \in Groups |-> 0]
  /\ uninit = Groups

GroupOfInode(inum) == (inum - 1) \div InodesPerGroup

\* Mutant: the bits are not shifted by the one inode numbers start at.
ReserveInodesShifted(g, n) ==
  /\ inode_bitmap' = [inode_bitmap EXCEPT
       ![g] = @ \cup (first_free_inode[g] .. first_free_inode[g] + n - 1)]
  /\ first_free_inode' = [first_free_inode EXCEPT ![g] = @ + n]
  /\ free_inodes' = [free_inodes EXCEPT ![g] = @ - n]

\* reserve_inodes, when the group has n inodes left.
ReserveInodes(g, n) ==
  /\ inode_bitmap' = [inode_bitmap EXCEPT
       ![g] = @ \cup (first_free_inode[g] - 1 .. first_free_inode[g] + n - 2)]
  /\ first_free_inode' = [first_free_inode EXCEPT ![g] = @ + n]
  /\ free_inodes' = [free_inodes EXCEPT ![g] = @ - n]

NoFreeInode == \A g \in Groups : free_inodes[g] = 0

\* The first group with a free inode, and what allocate_inode returns from it.
InodeGroup(g) == free_inodes[g] > 0 /\ \A h \in Groups : free_inodes[h] > 0 => g <= h
NextInode(g) == g * InodesPerGroup + first_free_inode[g]

\* Mutant: the flag of the group is left.
GetInodeFlagLeft(inum) == uninit' = uninit
\* get_inode allocates the inode table of the group when it is first needed.
GetInode(inum) == uninit' = uninit \ {GroupOfInode(inum)}

AddDirectory(inum) == used_dirs' = [used_dirs EXCEPT ![GroupOfInode(inum)] = @ + 1]

-----------------------------------------------------------------------------
InUseInodes ==
  {inum \in 1 .. NumGroups * InodesPerGroup :
     (inum - 1) % InodesPerGroup \in inode_bitmap[GroupOfInode(inum)]}

\* The bitmap, the count and first_free_inode of every group agree: the free
\* inodes are the ones from first_free_inode on.
InodesConsistent ==
  \A g \in Groups :
    /\ inode_bitmap[g] = 0 .. first_free_inode[g] - 2
    /\ first_free_inode[g] + free_inodes[g] = InodesPerGroup + 1
=============================================================================

--------------------------- MODULE BlockAllocator ---------------------------
(***************************************************************************)
(* The block allocator of allocate.c, together with the two ways extent.c  *)
(* and indirect.c consume an allocation.  A block is a pair <<g, off>>:    *)
(* bit off of the block bitmap of group g.  A request takes one step per   *)
(* iteration of the loop in ext4_allocate_best_fit, so the states between  *)
(* two regions of one request are states of the model.                     *)
(***************************************************************************)
EXTENDS BestFit, Sequences

CONSTANTS
  BlocksPerGroup,  \* info->blocks_per_group
  Header,          \* per group: header_blocks computed by init_bg
  Limit,           \* per group: number of bits that are blocks of the image
  ForceFlags,      \* what the -f option may be: with it error() only reports
  Requests         \* lengths the environment asks allocate_blocks for

\* ext4_init_fs_aux_info drops a last group that cannot hold its header.
ASSUME GeometryAssumption ==
  /\ BlocksPerGroup \in Nat \ {0}
  /\ Header \in [Groups -> Nat]
  /\ Limit \in [Groups -> Nat]
  /\ \A g \in Groups : Header[g] <= Limit[g] /\ Limit[g] <= BlocksPerGroup

ASSUME RequestAssumption == Requests \subseteq Nat \ {0} /\ ForceFlags \subseteq BOOLEAN

VARIABLES
  force,             \* the -f option
  block_bitmap,      \* per group: the set of bits that are set
  free_blocks,       \* per group: free_blocks of its block_group_info
  first_free_block,  \* per group: first_free_block of its block_group_info
  alloc_pc,          \* what the allocation in progress is for, or why we stopped
  need,              \* blocks ext4_allocate_best_fit has still to find
  list,              \* regions found so far, in the order of alloc->list
  kept,              \* history: blocks finished allocations hold
  lost               \* history: blocks taken by a request that then failed

bitmapVars == <<block_bitmap, free_blocks, first_free_block>>
allocVars == <<force, block_bitmap, free_blocks, first_free_block, alloc_pc, need, list, kept, lost>>

Region == [bg : Groups, start : Nat, len : Nat \ {0}]
Block == Groups \X (0 .. BlocksPerGroup - 1)

Blocks(r) == {r.bg} \X (r.start .. r.start + r.len - 1)
Held(l) == UNION {Blocks(l[k]) : k \in DOMAIN l}

-----------------------------------------------------------------------------
(* init_bg: the header is reserved first, then the overrun of a group that *)
(* reaches past the end of the image.  first_free_block moves only when a  *)
(* reservation starts at it, so a group with nothing but a header and an   *)
(* overrun ends with first_free_block past the overrun.                    *)

AllocatorInit ==
  /\ force \in ForceFlags
  /\ block_bitmap = [g \in Groups |->
       (0 .. Header[g] - 1) \cup (Limit[g] .. BlocksPerGroup - 1)]
  /\ free_blocks = [g \in Groups |-> Limit[g] - Header[g]]
  /\ first_free_block = [g \in Groups |->
       IF Header[g] = Limit[g] THEN BlocksPerGroup ELSE Header[g]]
  /\ alloc_pc = "idle"
  /\ need = 0
  /\ list = <<>>
  /\ kept = {}
  /\ lost = {}

-----------------------------------------------------------------------------
(* Operations on one block group.                                          *)

\* The blocks reserve_blocks marks when it starts at first_free_block.
Run(g, n) == first_free_block[g] .. first_free_block[g] + n - 1

\* reserve_blocks finds a bit of the run already set.
Clash(g, n) == Run(g, n) \cap block_bitmap[g] # {}

\* Mutant: first_free_block stops one short of the run.
ReserveBlocksShort(g, n) ==
  /\ block_bitmap' = [block_bitmap EXCEPT ![g] = @ \cup Run(g, n)]
  /\ free_blocks' = [free_blocks EXCEPT ![g] = @ - n]
  /\ first_free_block' = [first_free_block EXCEPT ![g] = @ + n - 1]

ReserveBlocks(g, n) ==
  /\ block_bitmap' = [block_bitmap EXCEPT ![g] = @ \cup Run(g, n)]
  /\ free_blocks' = [free_blocks EXCEPT ![g] = @ - n]
  /\ first_free_block' = [first_free_block EXCEPT ![g] = @ + n]

\* Mutants: the count is not given back; the bits are left set.
FreeBlocksUncounted(g, n) ==
  /\ block_bitmap' = [block_bitmap EXCEPT
       ![g] = @ \ (first_free_block[g] - n .. first_free_block[g] - 1)]
  /\ first_free_block' = [first_free_block EXCEPT ![g] = @ - n]
  /\ UNCHANGED free_blocks
FreeBlocksBitsLeft(g, n) ==
  /\ free_blocks' = [free_blocks EXCEPT ![g] = @ + n]
  /\ first_free_block' = [first_free_block EXCEPT ![g] = @ - n]
  /\ UNCHANGED block_bitmap

FreeBlocks(g, n) ==
  /\ block_bitmap' = [block_bitmap EXCEPT
       ![g] = @ \ (first_free_block[g] - n .. first_free_block[g] - 1)]
  /\ free_blocks' = [free_blocks EXCEPT ![g] = @ + n]
  /\ first_free_block' = [first_free_block EXCEPT ![g] = @ - n]

-----------------------------------------------------------------------------
(* allocate_blocks.                                                        *)

AllocateBlocks(n, use) ==
  /\ alloc_pc = "idle"
  /\ alloc_pc' = use
  /\ need' = n
  /\ list' = <<>>
  /\ UNCHANGED <<force, bitmapVars, kept, lost>>

InProgress == alloc_pc \in {"extents", "whole"}

\* Mutant: the group is asked for all of it even when it holds less.
AllocateLenUnbounded(g) == need

\* allocate_len: the rest of the request, or all the group has.
AllocateLen(g) == IF need < free_blocks[g] THEN need ELSE free_blocks[g]

\* One region: ext4_allocate_best_fit_partial succeeds.
AllocatePartial ==
  /\ InProgress /\ need > 0
  /\ \E g \in Groups :
       LET n == AllocateLen(g)
       IN  /\ IsBestFit(free_blocks, need, g)
           /\ ReserveBlocks(g, n)
           /\ list' = Append(list, [bg |-> g, start |-> first_free_block[g], len |-> n])
           /\ need' = need - n
           /\ alloc_pc' = IF Clash(g, n) THEN "clash" ELSE alloc_pc
  /\ UNCHANGED <<force, kept, lost>>

\* Mutant: the loop tries again.
OutOfSpaceRetried ==
  /\ InProgress /\ need > 0
  /\ \A g \in Groups : free_blocks[g] = 0
  /\ UNCHANGED allocVars

\* "failed to allocate %u blocks, out of space?": without -f the program
\* longjmps out; with it allocate_blocks returns NULL and the regions the
\* loop had found stay marked, with nothing pointing at them.
OutOfSpace ==
  /\ InProgress /\ need > 0
  /\ \A g \in Groups : free_blocks[g] = 0
  /\ alloc_pc' = IF force THEN "idle" ELSE "failed"
  /\ need' = 0
  /\ list' = <<>>
  /\ lost' = lost \cup Held(list)
  /\ UNCHANGED <<force, bitmapVars, kept>>

\* allocate_block: one block from the first group that has any.
AllocateBlock ==
  /\ alloc_pc = "idle"
  /\ \E g \in Groups :
       /\ free_blocks[g] > 0
       /\ \A h \in Groups : free_blocks[h] > 0 => g <= h
       /\ ReserveBlocks(g, 1)
       /\ kept' = kept \cup {<<g, first_free_block[g]>>}
       /\ alloc_pc' = IF Clash(g, 1) THEN "clash" ELSE "idle"
  /\ UNCHANGED <<force, need, list, lost>>

-----------------------------------------------------------------------------
(* What do_inode_allocate_extents does with the block_len + 1 blocks it    *)
(* asked for.  allocate_blocks leaves alloc->list.last on the FIRST region *)
(* however many it found, and that is the one both paths start from.       *)

LastOf(l) == 1

\* Mutant: the region keeps the block that went back to the group.
ReducedNot(l) == l

\* reduce_allocation(alloc, 1): the list afterwards.
Reduced(l) ==
  LET k == LastOf(l)
  IN  IF l[k].len > 1 THEN [l EXCEPT ![k].len = @ - 1] ELSE SubSeq(l, 1, k - 1)

\* reserve_oob_blocks(alloc, 1): split_allocation cuts the first block off
\* only inside a region.  When the first region is one block long the cut
\* falls between regions and everything up to the iterator, that is every
\* region but the first, moves to oob_list.
ReservedOob(l) ==
  IF l[1].len > 1
  THEN [list |-> [l EXCEPT ![1].start = @ + 1, ![1].len = @ - 1],
        oob  |-> <<[l[1] EXCEPT !.len = 1]>>]
  ELSE [list |-> <<l[1]>>, oob |-> Tail(l)]

Found == need = 0 /\ list # <<>>

\* Up to three regions fit in the inode and the spare block goes back.  If
\* that empties the list, extent_create_backing dereferences a NULL iterator.
KeepInInode ==
  /\ alloc_pc = "extents" /\ Found
  /\ Len(list) <= 3
  /\ FreeBlocks(list[LastOf(list)].bg, 1)
  /\ IF Reduced(list) # <<>>
     THEN alloc_pc' = "idle" /\ kept' = kept \cup Held(Reduced(list)) /\ lost' = lost
     ELSE alloc_pc' = "crashed" /\ kept' = kept /\ lost' = lost \cup Held(Tail(list))
  /\ list' = <<>>
  /\ UNCHANGED <<force, need>>

\* More regions need a leaf block: the spare block becomes it.  If more than
\* one region went to oob_list the backing runs off the end of the list.
KeepWithLeaf ==
  /\ alloc_pc = "extents" /\ Found
  /\ Len(list) > 3
  /\ kept' = kept \cup Held(list)
  /\ alloc_pc' = IF Len(ReservedOob(list).oob) = 1 THEN "idle" ELSE "crashed"
  /\ list' = <<>>
  /\ UNCHANGED <<force, bitmapVars, need, lost>>

\* append_oob_allocation and do_inode_allocate_indirect keep all they got.
KeepWhole ==
  /\ alloc_pc = "whole" /\ Found
  /\ kept' = kept \cup Held(list)
  /\ alloc_pc' = "idle"
  /\ list' = <<>>
  /\ UNCHANGED <<force, bitmapVars, need, lost>>

Stopped == alloc_pc \in {"failed", "crashed", "clash"}
Terminated == Stopped /\ UNCHANGED allocVars

AllocatorStep ==
  \/ AllocatePartial
  \/ OutOfSpace
  \/ KeepInInode
  \/ KeepWithLeaf
  \/ KeepWhole

AllocatorNext ==
  \/ \E n \in Requests : AllocateBlocks(n + 1, "extents") \/ AllocateBlocks(n, "whole")
  \/ AllocateBlock
  \/ AllocatorStep
  \/ Terminated

\* The program is sequential: once allocate_blocks is called nothing else
\* runs until it returns, so its steps are weakly fair.
AllocatorSpec == AllocatorInit /\ [][AllocatorNext]_allocVars
FairAllocatorSpec == AllocatorSpec /\ WF_allocVars(AllocatorStep)

-----------------------------------------------------------------------------
(* Properties.                                                             *)

InUse == {b \in Block : b[2] \in block_bitmap[b[1]]}
Metadata == {b \in Block : b[2] < Header[b[1]] \/ b[2] >= Limit[b[1]]}

\* Every variable has the type its C declaration and the loops give it.
AllocatorTypeOK ==
  /\ block_bitmap \in [Groups -> SUBSET (0 .. BlocksPerGroup - 1)]
  /\ free_blocks \in [Groups -> 0 .. BlocksPerGroup]
  /\ first_free_block \in [Groups -> 0 .. BlocksPerGroup]
  /\ alloc_pc \in {"idle", "extents", "whole", "failed", "crashed", "clash"}
  /\ need \in Nat
  /\ list \in Seq(Region)
  /\ kept \subseteq Block
  /\ lost \subseteq Block

\* free_blocks, first_free_block and the bitmap of a group are three views of
\* one thing: reserve_blocks, free_blocks and init_bg keep them in step.
GroupConsistent(g) ==
  /\ Header[g] <= first_free_block[g]
  /\ block_bitmap[g] = (0 .. first_free_block[g] - 1) \cup (Limit[g] .. BlocksPerGroup - 1)
  /\ \/ /\ first_free_block[g] <= Limit[g]
        /\ free_blocks[g] = Limit[g] - first_free_block[g]
     \/ /\ Header[g] = Limit[g]
        /\ first_free_block[g] = BlocksPerGroup
        /\ free_blocks[g] = 0
GroupsConsistent == \A g \in Groups : GroupConsistent(g)

\* Every bit set in a bitmap is metadata or belongs to exactly one of: an
\* owner, the request in progress, a request that failed.  No allocation
\* overlaps another, the header or the end of the image, and nothing leaks.
BlocksAccountedFor ==
  /\ InUse = Metadata \cup kept \cup Held(list) \cup lost
  /\ Metadata \cap (kept \cup Held(list) \cup lost) = {}
  /\ kept \cap (Held(list) \cup lost) = {}
  /\ Held(list) \cap lost = {}

\* "attempted to reserve already reserved block" (reserve_blocks) is never
\* printed: the run at first_free_block is free whenever free_blocks says so.
NeverReservedTwice == alloc_pc # "clash"

\* Without -f a request that takes blocks and gives them to nobody ends the
\* program: nothing is written with blocks marked that no inode reaches.
LostOnlyWhenStopping == lost # {} => force \/ Stopped

\* reduce_allocation "assumes that the blocks being returned were the last
\* ones allocated out of the block group": true of the region it starts from
\* although later regions of the same request were allocated after it.
ReturnedBlocksAreLast ==
  InProgress => \A k \in DOMAIN list :
    list[k].start + list[k].len = first_free_block[list[k].bg]

\* Only a nearly full image gives a request several regions of which the
\* first is a single block, the shape on which both users of list.last fail.
ShortFirstRegionMeansFull ==
  InProgress /\ Len(list) > 1 /\ list[1].len = 1 =>
    \A g \in Groups : free_blocks[g] <= 1

\* A step clears bits only of blocks the request in progress was given:
\* free_blocks of allocate.c never takes a block away from an owner.
OnlyRequestGivesBack ==
  [][\A b \in InUse : b \notin InUse' => b \in Held(list)]_allocVars

\* The allocator is a pool in which each block has one place at a time.
Pool == INSTANCE BlockPool WITH
  Pool <- Block \ Metadata, available <- Block \ InUse,
  gathered <- Held(list), owned <- kept, stranded <- lost
ImplementsPool == Pool!PoolSpec
=============================================================================

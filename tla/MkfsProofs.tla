----------------------------- MODULE MkfsProofs -----------------------------
(***************************************************************************)
(* The scan for the best group; the safety of the block allocator, for     *)
(* every number and size of groups; and that the builder uses it as its    *)
(* specification allows, so that this holds while an image is built, the   *)
(* inode bitmaps, counts and next free inodes agree, blocks, extents and   *)
(* entries belong to the inodes that should have them, and what is written *)
(* at the end counts what there is.                                        *)
(***************************************************************************)
EXTENDS Mkfs, ScanBestFit, Arithmetic

-----------------------------------------------------------------------------
(* The scan for every number of groups and whatever they hold.             *)

\* After some groups, found_bg is the best of them.
ScanInv ==
  /\ bg_free \in [Groups -> Nat] /\ len \in Nat \ {0}
  /\ scanned \in 0 .. NumGroups /\ found_bg_len \in Nat
  /\ IF found_bg_len = 0
     THEN \A g \in 0 .. scanned - 1 : bg_free[g] = 0
     ELSE /\ found_bg \in 0 .. scanned - 1 /\ found_bg_len = bg_free[found_bg]
          /\ \A h \in 0 .. scanned - 1 : ~Better(bg_free, len, h, found_bg)

\* The loop of ext4_allocate_best_fit_partial finds the best fit, for every
\* number of groups, length and content of the groups.
THEOREM ScanIsBestFit == ScanSpec => []ScanFindsBestFit
<1> USE NumGroupsAssumption DEF Groups
<1>1. ScanInit => ScanInv
  BY DEF ScanInit, ScanInv
<1>2. ScanInv /\ [ScanNext]_scanVars => ScanInv'
  <2> SUFFICES ASSUME ScanInv, [ScanNext]_scanVars PROVE ScanInv'
    OBVIOUS
  <2>1. CASE UNCHANGED scanVars
    BY <2>1 DEF ScanInv, scanVars, Better
  <2>2. CASE ScanGroup
    <3>1. /\ scanned \in Groups /\ scanned' = scanned + 1 /\ bg_free' = bg_free /\ len' = len
          /\ 0 .. scanned' - 1 = (0 .. scanned - 1) \cup {scanned} /\ bg_free[scanned] \in Nat
      BY <2>2 DEF ScanGroup, ScanInv
    <3>2. CASE Takes(bg_free[scanned])
      <4>1. found_bg' = scanned /\ found_bg_len' = bg_free[scanned]
        BY <2>2, <3>2 DEF ScanGroup
      <4>2. found_bg_len' > 0
        BY <3>1, <3>2, <4>1 DEF Takes, ScanInv
      <4>3. ASSUME NEW h \in 0 .. scanned - 1
            PROVE  ~Better(bg_free, len, h, scanned)
        BY <3>1, <3>2 DEF Takes, Better, ScanInv
      <4>4. ~Better(bg_free, len, scanned, scanned)
        BY <3>1 DEF Better, ScanInv
      <4> QED BY <3>1, <4>1, <4>2, <4>3, <4>4 DEF ScanInv
    <3>3. CASE ~Takes(bg_free[scanned])
      <4>1. found_bg' = found_bg /\ found_bg_len' = found_bg_len
        BY <2>2, <3>3 DEF ScanGroup
      <4>2. CASE found_bg_len = 0
        BY <3>1, <3>3, <4>1, <4>2 DEF Takes, ScanInv
      <4>3. CASE found_bg_len # 0
        <5>1. ~Better(bg_free, len, scanned, found_bg)
          BY <3>1, <3>3, <4>3 DEF Takes, Better, ScanInv
        <5> QED BY <3>1, <4>1, <4>3, <5>1 DEF ScanInv
      <4> QED BY <4>2, <4>3
    <3> QED BY <3>2, <3>3
  <2> QED BY <2>1, <2>2 DEF ScanNext, ScanDone
<1>3. ScanInv => ScanFindsBestFit
  BY DEF ScanInv, ScanFindsBestFit, IsBestFit, Better
<1> QED BY <1>1, <1>2, <1>3, PTL DEF ScanSpec

-----------------------------------------------------------------------------
(* The allocator.                                                          *)

\* What holds of the regions of the request in progress: they lie between
\* header and limit, each ends at its group's first_free_block, no two share
\* a group, and while blocks are still needed their groups are exhausted.
RegionInside(r) == Header[r.bg] <= r.start /\ r.start + r.len <= Limit[r.bg]
ListInv ==
  /\ InProgress \/ list = <<>>
  /\ \A k \in DOMAIN list : RegionInside(list[k])
  /\ \A k \in DOMAIN list : list[k].start + list[k].len = first_free_block[list[k].bg]
  /\ \A j, k \in DOMAIN list : j # k => list[j].bg # list[k].bg
  /\ need > 0 => \A k \in DOMAIN list : free_blocks[list[k].bg] = 0

AllocatorInv ==
  /\ AllocatorTypeOK
  /\ GroupsConsistent
  /\ BlocksAccountedFor
  /\ NeverReservedTwice
  /\ LostOnlyWhenStopping
  /\ ListInv

-----------------------------------------------------------------------------
(* Sets of blocks.                                                         *)

\* Membership in the blocks of a list, without UNION.
LEMMA HeldMember ==
  ASSUME NEW l, NEW b
  PROVE  b \in Held(l) <=> \E k \in DOMAIN l : b \in Blocks(l[k])
BY DEF Held

\* A new region adds its blocks and no others.
LEMMA HeldAppend ==
  ASSUME NEW l \in Seq(Region), NEW r \in Region
  PROVE  Held(Append(l, r)) = Held(l) \cup Blocks(r)
<1> DEFINE m == Append(l, r)
<1>1. /\ DOMAIN m = 1 .. Len(l) + 1
      /\ DOMAIN l = 1 .. Len(l)
      /\ m[Len(l) + 1] = r
      /\ \A k \in DOMAIN l : m[k] = l[k]
      /\ Len(l) \in Nat
  OBVIOUS
<1>2. ASSUME NEW b
      PROVE  b \in Held(m) <=> b \in Held(l) \cup Blocks(r)
  <2>1. b \in Held(m) <=> \E k \in DOMAIN m : b \in Blocks(m[k])
    BY HeldMember
  <2>2. b \in Held(l) <=> \E k \in DOMAIN l : b \in Blocks(l[k])
    BY HeldMember
  <2> QED BY <1>1, <2>1, <2>2
<1> QED BY <1>2

\* The first region and the others.
LEMMA HeldTail ==
  ASSUME NEW l \in Seq(Region), l # <<>>
  PROVE  Held(l) = Blocks(l[1]) \cup Held(Tail(l))
<1> DEFINE m == Tail(l)
<1>1. /\ Len(l) \in Nat /\ Len(l) >= 1
      /\ DOMAIN m = 1 .. Len(l) - 1
      /\ DOMAIN l = 1 .. Len(l)
      /\ \A k \in DOMAIN m : m[k] = l[k + 1]
  OBVIOUS
<1>2. ASSUME NEW b
      PROVE  b \in Held(l) <=> b \in Blocks(l[1]) \cup Held(m)
  <2>1. b \in Held(l) <=> \E k \in DOMAIN l : b \in Blocks(l[k])
    BY HeldMember
  <2>2. b \in Held(m) <=> \E k \in DOMAIN m : b \in Blocks(m[k])
    BY HeldMember
  <2>3. ASSUME NEW k \in DOMAIN l, k # 1
        PROVE  k - 1 \in DOMAIN m /\ m[k - 1] = l[k]
    BY <1>1, <2>3
  <2>4. ASSUME NEW k \in DOMAIN m
        PROVE  k + 1 \in DOMAIN l /\ l[k + 1] = m[k]
    BY <1>1, <2>4
  <2>5. 1 \in DOMAIN l
    BY <1>1
  <2> HIDE DEF m
  <2> QED BY <2>1, <2>2, <2>3, <2>4, <2>5
<1> QED BY <1>2

\* No block is held by the empty list.
LEMMA HeldEmpty == Held(<<>>) = {}
BY DEF Held

-----------------------------------------------------------------------------
\* The initial state satisfies the invariant.
LEMMA InitInv == AllocatorInit => AllocatorInv
<1> SUFFICES ASSUME AllocatorInit PROVE AllocatorInv
  OBVIOUS
<1> USE GeometryAssumption DEF AllocatorInit
<1>1. AllocatorTypeOK
  BY DEF AllocatorTypeOK
<1>2. GroupsConsistent
  BY DEF GroupsConsistent, GroupConsistent
<1>3. BlocksAccountedFor
  BY HeldEmpty DEF BlocksAccountedFor, InUse, Metadata, Block
<1>4. ListInv
  BY DEF ListInv
<1> QED BY <1>1, <1>2, <1>3, <1>4 DEF AllocatorInv, NeverReservedTwice, LostOnlyWhenStopping

-----------------------------------------------------------------------------
(* The two operations on a block group.                                    *)

\* Reserving at first_free_block, as many blocks as free_blocks allows, marks
\* exactly that run, every block of which was free.
LEMMA ReserveRun ==
  ASSUME AllocatorInv, NEW g \in Groups, NEW n \in Nat \ {0},
         n <= free_blocks[g], ReserveBlocks(g, n)
  PROVE  /\ ~Clash(g, n)
         /\ Header[g] <= first_free_block[g] /\ first_free_block[g] + n <= Limit[g]
         /\ block_bitmap' \in [Groups -> SUBSET (0 .. BlocksPerGroup - 1)]
         /\ free_blocks' \in [Groups -> 0 .. BlocksPerGroup]
         /\ first_free_block' \in [Groups -> 0 .. BlocksPerGroup]
         /\ GroupsConsistent'
         /\ InUse' = InUse \cup ({g} \X Run(g, n))
         /\ ({g} \X Run(g, n)) \cap InUse = {}
         /\ {g} \X Run(g, n) \subseteq Block \ Metadata
<1> USE GeometryAssumption
<1>1. /\ block_bitmap \in [Groups -> SUBSET (0 .. BlocksPerGroup - 1)]
      /\ free_blocks \in [Groups -> 0 .. BlocksPerGroup]
      /\ first_free_block \in [Groups -> 0 .. BlocksPerGroup]
  BY DEF AllocatorInv, AllocatorTypeOK
<1>2. /\ Header[g] <= first_free_block[g]
      /\ block_bitmap[g] = (0 .. first_free_block[g] - 1) \cup (Limit[g] .. BlocksPerGroup - 1)
      /\ first_free_block[g] <= Limit[g]
      /\ free_blocks[g] = Limit[g] - first_free_block[g]
  BY <1>1 DEF AllocatorInv, GroupsConsistent, GroupConsistent
<1>3. /\ Header[g] \in Nat /\ Limit[g] \in Nat /\ first_free_block[g] \in Nat
      /\ BlocksPerGroup \in Nat /\ Limit[g] <= BlocksPerGroup
  BY <1>1
<1>4. first_free_block[g] + n <= Limit[g]
  BY <1>2, <1>3
<1>5. ~Clash(g, n)
  BY <1>2, <1>3, <1>4 DEF Clash, Run
<1>6. Run(g, n) \subseteq 0 .. BlocksPerGroup - 1
  BY <1>3, <1>4 DEF Run
<1>7. block_bitmap' \in [Groups -> SUBSET (0 .. BlocksPerGroup - 1)]
  BY <1>1, <1>6 DEF ReserveBlocks
<1>8. /\ free_blocks' \in [Groups -> 0 .. BlocksPerGroup]
      /\ first_free_block' \in [Groups -> 0 .. BlocksPerGroup]
  BY <1>1, <1>2, <1>3, <1>4 DEF ReserveBlocks
<1>9. GroupsConsistent'
  <2> SUFFICES ASSUME NEW h \in Groups PROVE GroupConsistent(h)'
    BY DEF GroupsConsistent
  <2>1. CASE h = g
    <3>1. /\ block_bitmap'[g] = block_bitmap[g] \cup Run(g, n)
          /\ free_blocks'[g] = free_blocks[g] - n
          /\ first_free_block'[g] = first_free_block[g] + n
      BY <1>1 DEF ReserveBlocks
    <3>2. block_bitmap'[g] = (0 .. first_free_block'[g] - 1) \cup (Limit[g] .. BlocksPerGroup - 1)
      BY <1>2, <1>3, <3>1 DEF Run
    <3> QED BY <2>1, <1>2, <1>3, <1>4, <3>1, <3>2 DEF GroupConsistent
  <2>2. CASE h # g
    BY <2>2, <1>1 DEF ReserveBlocks, AllocatorInv, GroupsConsistent, GroupConsistent
  <2> QED BY <2>1, <2>2
<1>10. InUse' = InUse \cup ({g} \X Run(g, n))
  BY <1>1, <1>6 DEF InUse, Block, ReserveBlocks
<1>11. ({g} \X Run(g, n)) \cap InUse = {}
  BY <1>5 DEF Clash, InUse
<1>12. {g} \X Run(g, n) \subseteq Block \ Metadata
  BY <1>2, <1>3, <1>4 DEF Block, Metadata, Run
<1> QED BY <1>2, <1>4, <1>5, <1>7, <1>8, <1>9, <1>10, <1>11, <1>12

\* Freeing the block below first_free_block clears that block's bit alone.
LEMMA FreeOne ==
  ASSUME AllocatorInv, NEW g \in Groups, Header[g] < first_free_block[g],
         first_free_block[g] <= Limit[g], FreeBlocks(g, 1)
  PROVE  /\ block_bitmap' \in [Groups -> SUBSET (0 .. BlocksPerGroup - 1)]
         /\ free_blocks' \in [Groups -> 0 .. BlocksPerGroup]
         /\ first_free_block' \in [Groups -> 0 .. BlocksPerGroup]
         /\ GroupsConsistent'
         /\ InUse' = InUse \ {<<g, first_free_block[g] - 1>>}
<1> USE GeometryAssumption
<1>1. /\ block_bitmap \in [Groups -> SUBSET (0 .. BlocksPerGroup - 1)]
      /\ free_blocks \in [Groups -> 0 .. BlocksPerGroup]
      /\ first_free_block \in [Groups -> 0 .. BlocksPerGroup]
  BY DEF AllocatorInv, AllocatorTypeOK
<1>2. /\ Header[g] \in Nat /\ Limit[g] \in Nat /\ first_free_block[g] \in Nat
      /\ BlocksPerGroup \in Nat /\ Limit[g] <= BlocksPerGroup
  BY <1>1
<1>3. /\ block_bitmap[g] = (0 .. first_free_block[g] - 1) \cup (Limit[g] .. BlocksPerGroup - 1)
      /\ free_blocks[g] = Limit[g] - first_free_block[g]
  BY <1>1, <1>2 DEF AllocatorInv, GroupsConsistent, GroupConsistent
<1>4. /\ block_bitmap' = [block_bitmap EXCEPT ![g] = @ \ {first_free_block[g] - 1}]
      /\ free_blocks' = [free_blocks EXCEPT ![g] = @ + 1]
      /\ first_free_block' = [first_free_block EXCEPT ![g] = @ - 1]
  <2>1. first_free_block[g] - 1 .. first_free_block[g] - 1 = {first_free_block[g] - 1}
    BY <1>2
  <2> QED BY <2>1 DEF FreeBlocks
<1>5. block_bitmap' \in [Groups -> SUBSET (0 .. BlocksPerGroup - 1)]
  BY <1>1, <1>4
<1>6. /\ free_blocks' \in [Groups -> 0 .. BlocksPerGroup]
      /\ first_free_block' \in [Groups -> 0 .. BlocksPerGroup]
  BY <1>1, <1>2, <1>3, <1>4
<1>7. GroupsConsistent'
  <2> SUFFICES ASSUME NEW h \in Groups PROVE GroupConsistent(h)'
    BY DEF GroupsConsistent
  <2>1. CASE h = g
    <3>1. /\ block_bitmap'[g] = block_bitmap[g] \ {first_free_block[g] - 1}
          /\ free_blocks'[g] = free_blocks[g] + 1
          /\ first_free_block'[g] = first_free_block[g] - 1
      BY <1>1, <1>4
    <3>2. block_bitmap'[g] = (0 .. first_free_block'[g] - 1) \cup (Limit[g] .. BlocksPerGroup - 1)
      BY <1>2, <1>3, <3>1
    <3> QED BY <2>1, <1>2, <1>3, <3>1, <3>2 DEF GroupConsistent
  <2>2. CASE h # g
    BY <2>2, <1>1, <1>4 DEF AllocatorInv, GroupsConsistent, GroupConsistent
  <2> QED BY <2>1, <2>2
<1>8. InUse' = InUse \ {<<g, first_free_block[g] - 1>>}
  BY <1>1, <1>4 DEF InUse, Block
<1> QED BY <1>5, <1>6, <1>7, <1>8

-----------------------------------------------------------------------------
(* One lemma per action.                                                   *)

\* The regions of the request in progress are blocks of the image.
LEMMA HeldIsData ==
  ASSUME AllocatorInv PROVE Held(list) \subseteq Block \ Metadata
<1> SUFFICES ASSUME NEW b \in Held(list) PROVE b \in Block \ Metadata
  OBVIOUS
<1>1. PICK k \in DOMAIN list : b \in Blocks(list[k])
  BY HeldMember
<1>2. list[k] \in Region /\ RegionInside(list[k])
  BY <1>1 DEF AllocatorInv, AllocatorTypeOK, ListInv
<1> QED BY <1>1, <1>2, GeometryAssumption
        DEF Blocks, Region, RegionInside, Block, Metadata

LEMMA AllocateBlocksInv ==
  ASSUME AllocatorInv, NEW n \in Nat, NEW use \in {"extents", "whole"}, AllocateBlocks(n, use)
  PROVE  AllocatorInv'
<1> USE DEF AllocatorInv, AllocateBlocks, bitmapVars
<1>1. list = <<>> /\ Held(list) = Held(list')
  BY DEF ListInv, InProgress
<1>2. AllocatorTypeOK'
  BY DEF AllocatorTypeOK
<1>3. GroupsConsistent'
  BY DEF GroupsConsistent, GroupConsistent
<1>4. BlocksAccountedFor'
  BY <1>1 DEF BlocksAccountedFor, InUse
<1>5. ListInv'
  BY DEF ListInv, InProgress
<1> QED BY <1>2, <1>3, <1>4, <1>5 DEF NeverReservedTwice, LostOnlyWhenStopping, Stopped

LEMMA AllocatePartialInv ==
  ASSUME AllocatorInv, AllocatePartial
  PROVE  AllocatorInv'
<1>1. PICK g \in Groups :
        LET n == AllocateLen(g)
        IN  /\ IsBestFit(free_blocks, need, g)
            /\ ReserveBlocks(g, n)
            /\ list' = Append(list, [bg |-> g, start |-> first_free_block[g], len |-> n])
            /\ need' = need - n
            /\ alloc_pc' = IF Clash(g, n) THEN "clash" ELSE alloc_pc
  BY DEF AllocatePartial
<1> DEFINE n == AllocateLen(g)
           r == [bg |-> g, start |-> first_free_block[g], len |-> n]
<1>2. /\ free_blocks \in [Groups -> 0 .. BlocksPerGroup]
      /\ first_free_block \in [Groups -> 0 .. BlocksPerGroup]
      /\ need \in Nat /\ list \in Seq(Region) /\ BlocksPerGroup \in Nat
      /\ kept \subseteq Block /\ lost \subseteq Block
  BY GeometryAssumption DEF AllocatorInv, AllocatorTypeOK
<1>3. n \in Nat \ {0} /\ n <= free_blocks[g] /\ n <= need /\ free_blocks[g] > 0 /\ need > 0
  BY <1>1, <1>2 DEF IsBestFit, AllocatePartial, AllocateLen
<1>4. /\ list' = Append(list, r) /\ need' = need - n /\ ReserveBlocks(g, n)
      /\ InProgress
      /\ alloc_pc' = IF Clash(g, n) THEN "clash" ELSE alloc_pc
      /\ kept' = kept /\ lost' = lost
  BY <1>1 DEF AllocatePartial
<1>5. need' > 0 => n = free_blocks[g]
  BY <1>2, <1>3, <1>4 DEF AllocateLen
<1> HIDE DEF n
<1>6. /\ ~Clash(g, n)
      /\ Header[g] <= first_free_block[g] /\ first_free_block[g] + n <= Limit[g]
      /\ block_bitmap' \in [Groups -> SUBSET (0 .. BlocksPerGroup - 1)]
      /\ free_blocks' \in [Groups -> 0 .. BlocksPerGroup]
      /\ first_free_block' \in [Groups -> 0 .. BlocksPerGroup]
      /\ GroupsConsistent'
      /\ InUse' = InUse \cup ({g} \X Run(g, n))
      /\ ({g} \X Run(g, n)) \cap InUse = {}
      /\ {g} \X Run(g, n) \subseteq Block \ Metadata
  BY ReserveRun, <1>3, <1>4
<1>7. r \in Region /\ Blocks(r) = {g} \X Run(g, n)
  BY <1>2, <1>3 DEF Region, Blocks, Run
<1>8. Held(list') = Held(list) \cup ({g} \X Run(g, n))
  BY HeldAppend, <1>2, <1>4, <1>7
<1>9. AllocatorTypeOK'
  <2>1. list' \in Seq(Region) /\ need' \in Nat
    BY <1>2, <1>3, <1>4, <1>7
  <2>2. alloc_pc' \in {"extents", "whole"}
    BY <1>4, <1>6 DEF InProgress
  <2> QED BY <2>1, <2>2, <1>2, <1>4, <1>6 DEF AllocatorTypeOK
<1>10. BlocksAccountedFor'
  BY <1>4, <1>6, <1>8 DEF AllocatorInv, BlocksAccountedFor, Metadata, Block
<1>11. ListInv'
  <2>1. /\ DOMAIN list' = DOMAIN list \cup {Len(list) + 1}
        /\ list'[Len(list) + 1] = r
        /\ \A k \in DOMAIN list : list'[k] = list[k] /\ list[k] \in Region /\ k # Len(list) + 1
    BY <1>2, <1>4, <1>7
  <2>2. \A k \in DOMAIN list : free_blocks[list[k].bg] = 0 /\ list[k].bg # g
    BY <1>3 DEF AllocatorInv, ListInv
  <2>3. /\ first_free_block'[g] = first_free_block[g] + n
        /\ free_blocks'[g] = free_blocks[g] - n
        /\ \A h \in Groups : h # g => /\ first_free_block'[h] = first_free_block[h]
                                      /\ free_blocks'[h] = free_blocks[h]
    BY <1>2, <1>4 DEF ReserveBlocks
  <2>4. \A k \in DOMAIN list' : RegionInside(list'[k])
    BY <2>1, <1>6 DEF AllocatorInv, ListInv, RegionInside
  <2>5. \A k \in DOMAIN list' : list'[k].start + list'[k].len = first_free_block'[list'[k].bg]
    BY <2>1, <2>2, <2>3 DEF AllocatorInv, ListInv, Region
  <2>6. \A j, k \in DOMAIN list' : j # k => list'[j].bg # list'[k].bg
    BY <2>1, <2>2 DEF AllocatorInv, ListInv
  <2>7. need' > 0 => \A k \in DOMAIN list' : free_blocks'[list'[k].bg] = 0
    <3> SUFFICES ASSUME need' > 0, NEW k \in DOMAIN list' PROVE free_blocks'[list'[k].bg] = 0
      OBVIOUS
    <3>1. free_blocks'[g] = 0
      BY <1>2, <1>5, <2>3
    <3>2. CASE k \in DOMAIN list
      <4>1. list[k].bg \in Groups /\ list[k].bg # g /\ list'[k] = list[k]
        BY <3>2, <2>1, <2>2 DEF Region
      <4> QED BY <3>2, <4>1, <2>2, <2>3
    <3>3. CASE k = Len(list) + 1
      BY <3>1, <3>3, <2>1
    <3> QED BY <3>2, <3>3, <2>1
  <2>8. InProgress'
    BY <1>4, <1>6 DEF InProgress
  <2> QED BY <2>4, <2>5, <2>6, <2>7, <2>8 DEF ListInv, RegionInside
<1>12. LostOnlyWhenStopping' /\ NeverReservedTwice'
  BY <1>4, <1>6 DEF AllocatorInv, LostOnlyWhenStopping, NeverReservedTwice, Stopped, InProgress, AllocatePartial
<1> QED BY <1>6, <1>9, <1>10, <1>11, <1>12 DEF AllocatorInv

LEMMA OutOfSpaceInv ==
  ASSUME AllocatorInv, OutOfSpace
  PROVE  AllocatorInv'
<1> USE DEF AllocatorInv, OutOfSpace, bitmapVars
<1>1. Held(list') = {} /\ Held(list) \subseteq Block
  BY HeldEmpty, HeldIsData
<1>2. AllocatorTypeOK'
  BY <1>1 DEF AllocatorTypeOK
<1>3. GroupsConsistent'
  BY DEF GroupsConsistent, GroupConsistent
<1>4. BlocksAccountedFor'
  BY <1>1 DEF BlocksAccountedFor, InUse
<1>5. ListInv'
  BY DEF ListInv
<1>6. LostOnlyWhenStopping' /\ NeverReservedTwice'
  BY DEF LostOnlyWhenStopping, NeverReservedTwice, Stopped
<1> QED BY <1>2, <1>3, <1>4, <1>5, <1>6

LEMMA AllocateBlockInv ==
  ASSUME AllocatorInv, AllocateBlock
  PROVE  AllocatorInv'
<1>1. PICK g \in Groups :
        /\ free_blocks[g] > 0
        /\ ReserveBlocks(g, 1)
        /\ kept' = kept \cup {<<g, first_free_block[g]>>}
        /\ alloc_pc' = IF Clash(g, 1) THEN "clash" ELSE "idle"
  BY DEF AllocateBlock
<1>2. /\ free_blocks \in [Groups -> 0 .. BlocksPerGroup]
      /\ first_free_block \in [Groups -> 0 .. BlocksPerGroup]
      /\ BlocksPerGroup \in Nat
  BY GeometryAssumption DEF AllocatorInv, AllocatorTypeOK
<1>3. /\ alloc_pc = "idle" /\ need' = need /\ list' = list /\ lost' = lost
      /\ list = <<>> /\ Held(list) = {}
  BY HeldEmpty DEF AllocateBlock, AllocatorInv, ListInv, InProgress
<1>4. 1 <= free_blocks[g]
  BY <1>1, <1>2
<1>5. /\ ~Clash(g, 1)
      /\ block_bitmap' \in [Groups -> SUBSET (0 .. BlocksPerGroup - 1)]
      /\ free_blocks' \in [Groups -> 0 .. BlocksPerGroup]
      /\ first_free_block' \in [Groups -> 0 .. BlocksPerGroup]
      /\ GroupsConsistent'
      /\ InUse' = InUse \cup ({g} \X Run(g, 1))
      /\ ({g} \X Run(g, 1)) \cap InUse = {}
      /\ {g} \X Run(g, 1) \subseteq Block \ Metadata
  BY ReserveRun, <1>1, <1>4
<1>6. {g} \X Run(g, 1) = {<<g, first_free_block[g]>>}
  BY <1>2 DEF Run
<1>7. alloc_pc' = "idle"
  BY <1>1, <1>5
<1>8. AllocatorTypeOK'
  BY <1>1, <1>3, <1>5, <1>6, <1>7 DEF AllocatorInv, AllocatorTypeOK
<1>9. BlocksAccountedFor'
  BY <1>1, <1>3, <1>5, <1>6 DEF AllocatorInv, BlocksAccountedFor, Metadata, Block
<1>10. ListInv'
  BY <1>3 DEF ListInv
<1>11. LostOnlyWhenStopping' /\ NeverReservedTwice'
  BY <1>3, <1>7 DEF AllocatorInv, LostOnlyWhenStopping, NeverReservedTwice, Stopped, AllocateBlock
<1> QED BY <1>5, <1>8, <1>9, <1>10, <1>11 DEF AllocatorInv

\* The block do_inode_allocate_extents gives back is the last of its region,
\* and the rest of what the request held goes to the inode or is lost.
LEMMA KeepInInodeMoves ==
  ASSUME AllocatorInv, KeepInInode
  PROVE  /\ block_bitmap' \in [Groups -> SUBSET (0 .. BlocksPerGroup - 1)]
         /\ free_blocks' \in [Groups -> 0 .. BlocksPerGroup]
         /\ first_free_block' \in [Groups -> 0 .. BlocksPerGroup]
         /\ GroupsConsistent'
         /\ \E b \in Held(list) :
              /\ InUse' = InUse \ {b}
              /\ \/ alloc_pc' = "idle" /\ kept' = kept \cup (Held(list) \ {b}) /\ lost' = lost
                 \/ alloc_pc' = "crashed" /\ kept' = kept /\ lost' = lost \cup (Held(list) \ {b})
<1> DEFINE r == list[1]
           b == <<r.bg, first_free_block[r.bg] - 1>>
           rest == Held(Tail(list))
<1>1. /\ list \in Seq(Region) /\ list # <<>>
      /\ 1 \in DOMAIN list /\ r \in Region
      /\ Len(list) \in Nat /\ DOMAIN list = 1 .. Len(list)
      /\ first_free_block \in [Groups -> 0 .. BlocksPerGroup]
  BY DEF AllocatorInv, AllocatorTypeOK, KeepInInode, Found
<1>2. /\ Header[r.bg] <= r.start /\ r.start + r.len = first_free_block[r.bg]
      /\ first_free_block[r.bg] <= Limit[r.bg]
  BY <1>1 DEF AllocatorInv, ListInv, RegionInside
<1>3. /\ r.bg \in Groups /\ r.start \in Nat /\ r.len \in Nat \ {0}
      /\ Header[r.bg] \in Nat /\ Limit[r.bg] \in Nat /\ first_free_block[r.bg] \in Nat
  BY <1>1, GeometryAssumption DEF Region
<1>4. Header[r.bg] < first_free_block[r.bg]
  BY <1>2, <1>3
<1>5. /\ block_bitmap' \in [Groups -> SUBSET (0 .. BlocksPerGroup - 1)]
      /\ free_blocks' \in [Groups -> 0 .. BlocksPerGroup]
      /\ first_free_block' \in [Groups -> 0 .. BlocksPerGroup]
      /\ GroupsConsistent'
      /\ InUse' = InUse \ {b}
  BY FreeOne, <1>2, <1>3, <1>4 DEF KeepInInode, LastOf
<1>6. Held(list) = Blocks(r) \cup rest
  BY HeldTail, <1>1
<1>7. b \in Blocks(r)
  BY <1>2, <1>3 DEF Blocks
<1>8. Blocks(r) \cap rest = {}
  <2> SUFFICES ASSUME NEW c \in Blocks(r), c \in rest PROVE FALSE
    OBVIOUS
  <2>1. PICK k \in DOMAIN Tail(list) : c \in Blocks(Tail(list)[k])
    BY HeldMember
  <2>2. k + 1 \in DOMAIN list /\ k + 1 # 1 /\ Tail(list)[k] = list[k + 1]
    BY <1>1
  <2>3. list[k + 1].bg # r.bg
    BY <1>1, <2>2 DEF AllocatorInv, ListInv
  <2> QED BY <2>1, <2>2, <2>3 DEF Blocks
<1>9. \/ alloc_pc' = "idle" /\ kept' = kept \cup (Held(list) \ {b}) /\ lost' = lost
      \/ alloc_pc' = "crashed" /\ kept' = kept /\ lost' = lost \cup (Held(list) \ {b})
  <2>1. CASE r.len > 1
    <3> DEFINE s == [r EXCEPT !.len = @ - 1]
               l == Reduced(list)
    <3>1. l = [list EXCEPT ![1] = s]
      BY <2>1 DEF Reduced, LastOf
    <3>2. s \in Region /\ s.bg = r.bg /\ s.start = r.start /\ s.len = r.len - 1
      <4>1. s = [bg |-> r.bg, start |-> r.start, len |-> r.len - 1]
        BY <1>1 DEF Region
      <4>2. r.len - 1 \in Nat \ {0}
        BY <1>3, <2>1
      <4> HIDE DEF s
      <4> QED BY <1>3, <4>1, <4>2 DEF Region
    <3>3. l \in Seq(Region) /\ l # <<>> /\ l[1] = s /\ Tail(l) = Tail(list)
      BY <1>1, <3>1, <3>2
    <3>4. Held(l) = Blocks(s) \cup rest
      BY HeldTail, <3>3
    <3>5. Blocks(s) = Blocks(r) \ {b}
      BY <3>2, <1>2, <1>3 DEF Blocks
    <3>6. Held(l) = Held(list) \ {b}
      BY <3>4, <3>5, <1>6, <1>7, <1>8
    <3>7. alloc_pc' = "idle" /\ kept' = kept \cup Held(l) /\ lost' = lost
      BY <3>3 DEF KeepInInode
    <3> QED BY <3>6, <3>7
  <2>2. CASE r.len = 1
    <3>1. Reduced(list) = <<>>
      BY <1>1, <2>2 DEF Reduced, LastOf
    <3>2. alloc_pc' = "crashed" /\ kept' = kept /\ lost' = lost \cup rest
      BY <3>1 DEF KeepInInode
    <3>3. Blocks(r) = {b}
      BY <2>2, <1>2, <1>3 DEF Blocks
    <3>4. rest = Held(list) \ {b}
      BY <3>3, <1>6, <1>8
    <3> QED BY <3>2, <3>4
  <2> QED BY <2>1, <2>2, <1>3
<1>10. b \in Held(list)
  BY <1>6, <1>7
<1> QED BY <1>5, <1>9, <1>10

LEMMA KeepInInodeInv ==
  ASSUME AllocatorInv, KeepInInode
  PROVE  AllocatorInv'
<1>1. PICK b \in Held(list) :
        /\ InUse' = InUse \ {b}
        /\ \/ alloc_pc' = "idle" /\ kept' = kept \cup (Held(list) \ {b}) /\ lost' = lost
           \/ alloc_pc' = "crashed" /\ kept' = kept /\ lost' = lost \cup (Held(list) \ {b})
  BY KeepInInodeMoves
<1>2. /\ list' = <<>> /\ list' \in Seq(Region) /\ Held(list') = {} /\ need' = need
      /\ Metadata' = Metadata
  BY HeldEmpty DEF KeepInInode, Metadata, Block
<1>3. Held(list) \subseteq Block \ Metadata
  BY HeldIsData
<1>4. AllocatorTypeOK'
  <2>1. kept' \subseteq Block /\ lost' \subseteq Block
    BY <1>1, <1>3 DEF AllocatorInv, AllocatorTypeOK
  <2>2. need' \in Nat
    BY <1>2 DEF AllocatorInv, AllocatorTypeOK
  <2> QED BY <2>1, <2>2, <1>1, <1>2, KeepInInodeMoves DEF AllocatorTypeOK
<1>5. BlocksAccountedFor'
  BY <1>1, <1>2, <1>3 DEF AllocatorInv, BlocksAccountedFor
<1>6. ListInv'
  BY <1>2 DEF ListInv
<1>7. LostOnlyWhenStopping' /\ NeverReservedTwice'
  BY <1>1 DEF AllocatorInv, LostOnlyWhenStopping, NeverReservedTwice, Stopped, KeepInInode
<1> QED BY <1>4, <1>5, <1>6, <1>7, KeepInInodeMoves DEF AllocatorInv

\* A request that keeps all it was given moves no bit.
LEMMA KeepAllInv ==
  ASSUME AllocatorInv, KeepWithLeaf \/ KeepWhole
  PROVE  AllocatorInv'
<1> USE DEF AllocatorInv, KeepWithLeaf, KeepWhole, bitmapVars
<1>1. Held(list') = {} /\ Held(list) \subseteq Block
  BY HeldEmpty, HeldIsData
<1>2. AllocatorTypeOK'
  <2>1. kept' \subseteq Block /\ lost' \subseteq Block
    BY <1>1 DEF AllocatorTypeOK
  <2>2. alloc_pc' = "idle" \/ alloc_pc' = "crashed"
    BY Zenon
  <2>3. list' = <<>>
    OBVIOUS
  <2>4. list' \in Seq(Region)
    BY <2>3
  <2> QED BY <2>1, <2>2, <2>4 DEF AllocatorTypeOK
<1>3. GroupsConsistent'
  BY DEF GroupsConsistent, GroupConsistent
<1>4. BlocksAccountedFor'
  BY <1>1 DEF BlocksAccountedFor, InUse
<1>5. ListInv'
  BY DEF ListInv
<1>6. LostOnlyWhenStopping' /\ NeverReservedTwice'
  BY DEF LostOnlyWhenStopping, NeverReservedTwice, Stopped
<1> QED BY <1>2, <1>3, <1>4, <1>5, <1>6

LEMMA StutterInv ==
  ASSUME AllocatorInv, UNCHANGED allocVars
  PROVE  AllocatorInv'
BY DEF AllocatorInv, allocVars, AllocatorTypeOK, GroupsConsistent, GroupConsistent,
       BlocksAccountedFor, InUse, Metadata, Held, ListInv, InProgress, RegionInside,
       NeverReservedTwice, LostOnlyWhenStopping, Stopped

-----------------------------------------------------------------------------
\* Every step of the allocator preserves the invariant.
LEMMA NextInv == AllocatorInv /\ [AllocatorNext]_allocVars => AllocatorInv'
<1> SUFFICES ASSUME AllocatorInv, [AllocatorNext]_allocVars PROVE AllocatorInv'
  OBVIOUS
<1>1. CASE \E n \in Requests : AllocateBlocks(n + 1, "extents") \/ AllocateBlocks(n, "whole")
  BY <1>1, AllocateBlocksInv, RequestAssumption
<1>2. CASE AllocateBlock
  BY <1>2, AllocateBlockInv
<1>3. CASE AllocatePartial
  BY <1>3, AllocatePartialInv
<1>4. CASE OutOfSpace
  BY <1>4, OutOfSpaceInv
<1>5. CASE KeepInInode
  BY <1>5, KeepInInodeInv
<1>6. CASE KeepWithLeaf \/ KeepWhole
  BY <1>6, KeepAllInv
<1>7. CASE Terminated \/ UNCHANGED allocVars
  BY <1>7, StutterInv DEF Terminated
<1> QED BY <1>1, <1>2, <1>3, <1>4, <1>5, <1>6, <1>7 DEF AllocatorNext, AllocatorStep

\* The inductive invariant holds of every behaviour.
THEOREM AllocatorInvariance == AllocatorSpec => []AllocatorInv
BY InitInv, NextInv, PTL DEF AllocatorSpec

\* Every variable keeps the type of its C declaration.
THEOREM TypeCorrect == AllocatorSpec => []AllocatorTypeOK
<1>1. AllocatorInv => AllocatorTypeOK
  BY DEF AllocatorInv
<1> QED BY <1>1, AllocatorInvariance, PTL

\* free_blocks, first_free_block and the bitmap of a group agree.
THEOREM GroupsStayConsistent == AllocatorSpec => []GroupsConsistent
<1>1. AllocatorInv => GroupsConsistent
  BY DEF AllocatorInv
<1> QED BY <1>1, AllocatorInvariance, PTL

\* No block is given to two owners, none is lost to none, and no allocation
\* touches the header of a group or reaches past the end of the image.
THEOREM NoDoubleAllocation == AllocatorSpec => []BlocksAccountedFor
<1>1. AllocatorInv => BlocksAccountedFor
  BY DEF AllocatorInv
<1> QED BY <1>1, AllocatorInvariance, PTL

\* reserve_blocks never meets a bit that is already set.
THEOREM ReservesFreeBlocksOnly == AllocatorSpec => []NeverReservedTwice
<1>1. AllocatorInv => NeverReservedTwice
  BY DEF AllocatorInv
<1> QED BY <1>1, AllocatorInvariance, PTL

\* What reduce_allocation assumes of the region it starts from.
THEOREM ReturnsLastBlocks == AllocatorSpec => []ReturnedBlocksAreLast
<1>1. AllocatorInv => ReturnedBlocksAreLast
  BY DEF AllocatorInv, ListInv, ReturnedBlocksAreLast
<1> QED BY <1>1, AllocatorInvariance, PTL

-----------------------------------------------------------------------------
(* The first region of a request that needs several is as large as any     *)
(* group still is: best fit took the fullest group for it.                 *)

FirstIsLargest ==
  InProgress /\ list # <<>> /\ (need > 0 \/ Len(list) > 1) =>
    \A g \in Groups : free_blocks[g] <= list[1].len

\* The region that is found first is the largest, and the others only take.
LEMMA FirstIsLargestFound ==
  ASSUME AllocatorInv, FirstIsLargest, AllocatePartial
  PROVE  FirstIsLargest'
<1>1. PICK g \in Groups :
        /\ IsBestFit(free_blocks, need, g)
        /\ ReserveBlocks(g, AllocateLen(g))
        /\ list' = Append(list, [bg |-> g, start |-> first_free_block[g], len |-> AllocateLen(g)])
        /\ need' = need - AllocateLen(g)
  BY DEF AllocatePartial
<1> DEFINE n == AllocateLen(g)
<1>2. /\ free_blocks \in [Groups -> 0 .. BlocksPerGroup]
      /\ need \in Nat /\ list \in Seq(Region) /\ BlocksPerGroup \in Nat
      /\ need > 0 /\ InProgress
  BY GeometryAssumption DEF AllocatorInv, AllocatorTypeOK, AllocatePartial
<1>3. n \in Nat /\ free_blocks' = [free_blocks EXCEPT ![g] = @ - n]
  BY <1>1, <1>2 DEF AllocateLen, ReserveBlocks
<1>4. \A h \in Groups : free_blocks'[h] <= free_blocks[h]
  BY <1>2, <1>3
<1>5. CASE list = <<>>
  <2>1. list'[1].len = n /\ Len(list') = 1
    BY <1>1, <1>5
  <2>2. SUFFICES ASSUME need' > 0 PROVE \A h \in Groups : free_blocks'[h] <= n
    BY <2>1 DEF FirstIsLargest
  <2>3. n = free_blocks[g] /\ free_blocks[g] < need
    BY <1>1, <1>2, <2>2 DEF AllocateLen
  <2>4. \A h \in Groups : free_blocks[h] <= free_blocks[g]
    BY <1>1, <1>2, <2>3 DEF IsBestFit, Better
  <2> QED BY <1>2, <1>3, <1>4, <2>3, <2>4
<1>6. CASE list # <<>>
  <2>1. list'[1] = list[1] /\ list[1] \in Region
    BY <1>1, <1>2, <1>6
  <2>2. \A h \in Groups : free_blocks[h] <= list[1].len
    BY <1>2, <1>6 DEF FirstIsLargest
  <2>3. \A h \in Groups : free_blocks[h] \in Int /\ free_blocks'[h] \in Int /\ list[1].len \in Int
    BY <1>2, <1>3, <2>1 DEF Region
  <2> QED BY <1>4, <2>1, <2>2, <2>3 DEF FirstIsLargest
<1> QED BY <1>5, <1>6

\* Every other step ends the request, starts one, or changes nothing of it.
LEMMA FirstIsLargestStep ==
  ASSUME AllocatorInv, FirstIsLargest, [AllocatorNext]_allocVars
  PROVE  FirstIsLargest'
<1>1. CASE AllocatePartial
  BY <1>1, FirstIsLargestFound
<1>2. CASE \E n \in Requests : AllocateBlocks(n + 1, "extents") \/ AllocateBlocks(n, "whole")
  BY <1>2 DEF AllocateBlocks, FirstIsLargest
<1>3. CASE AllocateBlock
  BY <1>3 DEF AllocateBlock, FirstIsLargest, InProgress
<1>4. CASE OutOfSpace \/ KeepInInode \/ KeepWithLeaf \/ KeepWhole
  BY <1>4 DEF OutOfSpace, KeepInInode, KeepWithLeaf, KeepWhole, FirstIsLargest
<1>5. CASE Terminated \/ UNCHANGED allocVars
  BY <1>5 DEF Terminated, allocVars, bitmapVars, FirstIsLargest, InProgress
<1> QED BY <1>1, <1>2, <1>3, <1>4, <1>5 DEF AllocatorNext, AllocatorStep

\* A single block in front of other regions means that no group had more: the
\* shape both users of list.last get wrong needs a nearly full image.
THEOREM ShortFirstRegionNeedsFullImage == AllocatorSpec => []ShortFirstRegionMeansFull
<1>1. AllocatorInit => FirstIsLargest
  BY DEF AllocatorInit, FirstIsLargest
<1>2. AllocatorInv /\ FirstIsLargest /\ [AllocatorNext]_allocVars => FirstIsLargest'
  BY FirstIsLargestStep
<1>3. FirstIsLargest => ShortFirstRegionMeansFull
  <2> SUFFICES ASSUME FirstIsLargest, InProgress, Len(list) > 1, list[1].len = 1
               PROVE  \A g \in Groups : free_blocks[g] <= 1
    BY DEF ShortFirstRegionMeansFull
  <2>1. list # <<>>
    OBVIOUS
  <2> QED BY <2>1 DEF FirstIsLargest
<1> QED BY <1>1, <1>2, <1>3, AllocatorInvariance, PTL DEF AllocatorSpec

-----------------------------------------------------------------------------
(* The allocator implements the pool.                                      *)

LEMMA InitRefines == AllocatorInit => Pool!PoolInit
<1> SUFFICES ASSUME AllocatorInit PROVE Pool!PoolInit
  OBVIOUS
<1>1. Held(list) = {} /\ kept = {} /\ lost = {}
  BY HeldEmpty DEF AllocatorInit
<1>2. InUse = Metadata
  BY GeometryAssumption DEF AllocatorInit, InUse, Metadata, Block
<1> QED BY <1>1, <1>2 DEF Pool!PoolInit

\* The two states of a step, seen as sets: everything a refinement step needs.
LEMMA StepRefines ==
  ASSUME AllocatorInv, AllocatorInv', [AllocatorNext]_allocVars
  PROVE  [Pool!PoolNext]_(Pool!poolVars)
<1> DEFINE H == Held(list)
           A == Block \ InUse
<1>1. /\ InUse = Metadata \cup kept \cup H \cup lost
      /\ InUse' = Metadata \cup kept' \cup H' \cup lost'
      /\ Metadata \cap (kept \cup H \cup lost) = {} /\ Metadata \cap (kept' \cup H' \cup lost') = {}
      /\ kept \cap (H \cup lost) = {} /\ kept' \cap (H' \cup lost') = {}
      /\ H \cap lost = {} /\ H' \cap lost' = {}
      /\ InUse \subseteq Block /\ InUse' \subseteq Block /\ A' = Block \ InUse'
  BY DEF AllocatorInv, BlocksAccountedFor, Metadata, Block, InUse
<1> HIDE DEF H, A
<1>2. CASE UNCHANGED <<H, kept, lost>>
  <2>1. A' = A
    BY <1>1, <1>2 DEF A
  <2> QED BY <2>1, <1>2 DEF Pool!poolVars, H, A
<1>3. CASE H \subseteq H' /\ UNCHANGED <<kept, lost>>
  <2> DEFINE S == H' \ H
  <2>1. S \subseteq A /\ A' = A \ S /\ H' = H \cup S
    BY <1>1, <1>3 DEF A
  <2>2. Pool!Gather(S)
    BY <2>1, <1>3 DEF Pool!Gather, H, A
  <2> QED BY <2>1, <2>2 DEF Pool!PoolNext, A
<1>4. CASE \E b \in Block \ InUse : kept' = kept \cup {b} /\ UNCHANGED <<H, lost>>
  <2>1. PICK b \in A : kept' = kept \cup {b} /\ UNCHANGED <<H, lost>>
    BY <1>4 DEF A
  <2>2. A' = A \ {b}
    BY <1>1, <2>1 DEF A
  <2>3. Pool!Take(b)
    BY <2>1, <2>2 DEF Pool!Take, H, A
  <2> QED BY <2>1, <2>3 DEF Pool!PoolNext, A
<1>5. CASE H' = {} /\ kept \subseteq kept' /\ kept' \subseteq kept \cup H /\ lost' = lost
  <2> DEFINE S == H \ kept'
  <2>1. S \subseteq H /\ A' = A \cup S /\ kept' = kept \cup (H \ S)
    BY <1>1, <1>5 DEF A
  <2>2. Pool!Keep(S)
    BY <2>1, <1>5 DEF Pool!Keep, H, A
  <2> QED BY <2>1, <2>2 DEF Pool!PoolNext, H
<1>6. CASE H' = {} /\ lost \subseteq lost' /\ lost' \subseteq lost \cup H /\ kept' = kept
  <2> DEFINE S == H \ lost'
  <2>1. S \subseteq H /\ A' = A \cup S /\ lost' = lost \cup (H \ S)
    BY <1>1, <1>6 DEF A
  <2>2. Pool!Strand(S)
    BY <2>1, <1>6 DEF Pool!Strand, H, A
  <2> QED BY <2>1, <2>2 DEF Pool!PoolNext, H
<1>7. ASSUME \E n \in Requests : AllocateBlocks(n + 1, "extents") \/ AllocateBlocks(n, "whole")
      PROVE  UNCHANGED <<H, kept, lost>>
  BY <1>7 DEF AllocateBlocks, AllocatorInv, ListInv, InProgress, H
<1>8. ASSUME AllocateBlock
      PROVE  \E b \in Block \ InUse : kept' = kept \cup {b} /\ UNCHANGED <<H, lost>>
  <2>1. PICK g \in Groups :
          /\ kept' = kept \cup {<<g, first_free_block[g]>>}
          /\ free_blocks[g] > 0 /\ ReserveBlocks(g, 1)
    BY <1>8 DEF AllocateBlock
  <2>2. /\ free_blocks[g] \in Nat /\ 1 <= free_blocks[g]
        /\ first_free_block[g] \in Nat
    BY <2>1, GeometryAssumption DEF AllocatorInv, AllocatorTypeOK
  <2>3. <<g, first_free_block[g]>> \in {g} \X Run(g, 1)
    BY <2>2 DEF Run
  <2>4. <<g, first_free_block[g]>> \in Block \ InUse
    BY <2>1, <2>2, <2>3, ReserveRun
  <2> QED BY <2>1, <2>4, <1>8 DEF AllocateBlock, H
<1>9. ASSUME AllocatePartial
      PROVE  H \subseteq H' /\ UNCHANGED <<kept, lost>>
  <2>1. \E r : list' = Append(list, r)
    BY <1>9 DEF AllocatePartial
  <2>2. PICK r : list' = Append(list, r)
    BY <2>1
  <2>3. /\ list \in Seq(Region) /\ list' \in Seq(Region)
        /\ DOMAIN list \subseteq DOMAIN list' /\ \A k \in DOMAIN list : list'[k] = list[k]
    BY <2>2 DEF AllocatorInv, AllocatorTypeOK
  <2>4. ASSUME NEW b \in H PROVE b \in H'
    <3>1. PICK k \in DOMAIN list : b \in Blocks(list[k])
      BY HeldMember DEF H
    <3>2. b \in Blocks(list'[k]) /\ k \in DOMAIN list'
      BY <3>1, <2>3
    <3>3. b \in Held(list')
      BY <3>2, HeldMember
    <3> QED BY <3>3 DEF H, Held, Blocks
  <2> QED BY <2>4, <1>9 DEF AllocatePartial
<1>10. ASSUME OutOfSpace
       PROVE  H' = {} /\ lost \subseteq lost' /\ lost' \subseteq lost \cup H /\ kept' = kept
  BY <1>10, HeldEmpty DEF OutOfSpace, H, Held, Blocks
<1>11. ASSUME KeepInInode
       PROVE  \/ H' = {} /\ kept \subseteq kept' /\ kept' \subseteq kept \cup H /\ lost' = lost
              \/ H' = {} /\ lost \subseteq lost' /\ lost' \subseteq lost \cup H /\ kept' = kept
  BY <1>11, HeldEmpty, KeepInInodeMoves DEF KeepInInode, H, Held, Blocks
<1>12. ASSUME KeepWithLeaf \/ KeepWhole
       PROVE  H' = {} /\ kept \subseteq kept' /\ kept' \subseteq kept \cup H /\ lost' = lost
  BY <1>12, HeldEmpty DEF KeepWithLeaf, KeepWhole, H, Held, Blocks
<1>13. ASSUME Terminated \/ UNCHANGED allocVars
       PROVE  UNCHANGED <<H, kept, lost>>
  BY <1>13 DEF Terminated, allocVars, H, Held, Blocks
<1> QED
  BY <1>2, <1>3, <1>4, <1>5, <1>6, <1>7, <1>8, <1>9, <1>10, <1>11, <1>12, <1>13
  DEF AllocatorNext, AllocatorStep

\* A step clears no bit but of a block the request in progress holds.
LEMMA GivesBackStep ==
  ASSUME AllocatorInv, AllocatorInv', [AllocatorNext]_allocVars
  PROVE  \A b \in InUse : b \notin InUse' => b \in Held(list)
<1>1. /\ InUse = Metadata \cup kept \cup Held(list) \cup lost
      /\ Metadata \cup kept' \cup lost' \subseteq InUse'
  BY DEF AllocatorInv, BlocksAccountedFor, Metadata, Block
<1>2. kept \subseteq kept' /\ lost \subseteq lost'
  BY KeepInInodeMoves
  DEF AllocatorNext, AllocatorStep, AllocateBlocks, AllocatePartial, OutOfSpace, AllocateBlock,
      KeepInInode, KeepWithLeaf, KeepWhole, Terminated, allocVars
<1> QED BY <1>1, <1>2

THEOREM GivesBackOwnOnly == AllocatorSpec => OnlyRequestGivesBack
<1>1. AllocatorInv /\ AllocatorInv' /\ [AllocatorNext]_allocVars =>
        [\A b \in InUse : b \notin InUse' => b \in Held(list)]_allocVars
  BY GivesBackStep
<1> QED BY <1>1, AllocatorInvariance, PTL DEF AllocatorSpec, OnlyRequestGivesBack

\* The allocator, bitmaps and best fit included, only ever does to a block
\* what the pool allows: give it away once, take it back from the request it
\* was given to, or strand it when that request fails.
THEOREM RefinesPool == AllocatorSpec => ImplementsPool
<1>1. AllocatorInv /\ AllocatorInv' /\ [AllocatorNext]_allocVars => [Pool!PoolNext]_(Pool!poolVars)
  BY StepRefines
<1> QED BY <1>1, InitRefines, AllocatorInvariance, PTL
        DEF AllocatorSpec, ImplementsPool, Pool!PoolSpec

-----------------------------------------------------------------------------
(* The builder.                                                            *)

\* What build_directory_structure relies on: its activations walk directories
\* of the source tree, and a request is made for the call in progress.
Activation == [dir : DOMAIN tree, inum : Nat, pos : Nat \ {0}]
WalkInv ==
  /\ tree \in Trees
  /\ stack \in Seq(Activation)
  /\ current.inum \in Nat
  /\ pc = "dir_data" => current.dir \in DOMAIN tree
  /\ pc \in {"tree", "finish", "file_data", "link_data"} => stack # <<>>
  /\ alloc_pc = "whole" => pc \in {"resize_data", "link_data"}

\* The inode half of a group, typed.
InodesInv ==
  /\ inode_bitmap \in [Groups -> SUBSET Nat]
  /\ free_inodes \in [Groups -> 0 .. InodesPerGroup]
  /\ first_free_inode \in [Groups -> 1 .. InodesPerGroup + 1]
  /\ InodesConsistent

-----------------------------------------------------------------------------
(* Entries of the source tree.                                             *)

\* Every entry, lost+found included, is a directory of the tree or a leaf,
\* and needs a length of Requests.
LEMMA EntryIsKnown ==
  ASSUME WalkInv, Walking
  PROVE  /\ Head(stack).dir \in DOMAIN tree /\ Head(stack).pos \in Nat \ {0} /\ stack # <<>>
         /\ Entry.type = "dir" => Entry.dir \in DOMAIN tree
         /\ Entry.blocks \in Requests \cup {0}
<1> DEFINE d == Head(stack).dir
           k == Head(stack).pos
           given == tree[d].entries
           found == [type |-> "dir", dir |-> LostFound, blocks |-> 0, caps |-> FALSE]
           Rec == [type : {"dir", "file", "link", "special"}, dir : DOMAIN tree \cup {""},
                   blocks : Nat, caps : BOOLEAN]
           Known(e) == (e.type = "dir" => e.dir \in DOMAIN tree) /\ e.blocks \in Requests \cup {0}
<1>1. stack # <<>> /\ stack \in Seq(Activation)
  BY DEF WalkInv, Walking
<1>2. Head(stack) \in Activation
  BY <1>1
<1>3. d \in DOMAIN tree /\ k \in Nat \ {0}
  BY <1>2 DEF Activation
<1>4. /\ given \in Seq(Rec)
      /\ \A j \in DOMAIN given : Known(given[j])
      /\ LostFound \in DOMAIN tree
  <2>1. tree \in Trees
    BY DEF WalkInv
  <2> QED BY <1>3, <2>1, MkfsAssumption, DemandAssumption
<1>5. Known(found) /\ found \in Rec
  BY <1>4
<1> HIDE DEF d, k, given, found, Rec, Known
<1>6. k <= Len(EntriesOf(d)) /\ Entry = EntriesOf(d)[k]
  BY DEF Walking, Entry, d, k
<1>7. EntriesOf(d) = given \/ EntriesOf(d) = <<found>> \o given
  BY DEF EntriesOf, found, given
<1>8. Known(Entry)
  <2>1. CASE EntriesOf(d) = given
    <3>1. k \in DOMAIN given
      BY <1>3, <1>4, <1>6, <2>1
    <3> QED BY <1>4, <1>6, <2>1, <3>1
  <2>2. CASE EntriesOf(d) = <<found>> \o given
    <3>1. k \in 1 .. Len(given) + 1
      BY <1>3, <1>4, <1>5, <1>6, <2>2
    <3>2. CASE k = 1
      BY <1>4, <1>5, <1>6, <2>2, <3>2
    <3>3. CASE k # 1
      <4>1. k - 1 \in DOMAIN given
        BY <1>4, <3>1, <3>3
      <4>2. Entry = given[k - 1]
        BY <1>4, <1>5, <1>6, <2>2, <3>1, <3>3
      <4> QED BY <1>4, <4>1, <4>2
    <3> QED BY <3>2, <3>3
  <2> QED BY <1>7, <2>1, <2>2
<1> QED BY <1>1, <1>3, <1>8 DEF d, k, Known

-----------------------------------------------------------------------------
(* The walk.                                                               *)

\* The walk starts with an empty stack.
LEMMA WalkInit == MkfsInit => WalkInv
<1> SUFFICES ASSUME MkfsInit PROVE WalkInv
  OBVIOUS
<1>1. tree \in Trees /\ stack = <<>> /\ pc = "reserve" /\ alloc_pc = "idle"
  BY DEF MkfsInit, AllocatorInit
<1>2. current.inum = 0
  BY DEF MkfsInit, Making
<1> HIDE DEF Activation
<1>3. stack \in Seq(Activation)
  BY <1>1
<1> QED BY <1>1, <1>2, <1>3 DEF WalkInv

\* Up to the root directory there is no walk.
LEMMA WalkBegins ==
  ASSUME WalkInv,
         ReserveFirstInodes \/ CreateJournal \/ NoJournal \/ CreateResize \/ MakeRoot
  PROVE  WalkInv'
<1> USE DEF WalkInv, Activation
<1>1. CASE ReserveFirstInodes
  BY <1>1 DEF ReserveFirstInodes, allocVars
<1>2. CASE CreateJournal
  <2>1. PICK n : RequestExtents(n) /\ current' = Making(JOURNAL_INO, "", n)
    BY <1>2 DEF CreateJournal
  <2>2. current'.inum \in Nat /\ alloc_pc' = "extents"
    BY <2>1 DEF RequestExtents, AllocateBlocks, JOURNAL_INO, Making
  <2> QED BY <1>2, <2>2 DEF CreateJournal
<1>3. CASE NoJournal
  BY <1>3 DEF NoJournal, allocVars
<1>4. CASE CreateResize
  BY <1>4 DEF CreateResize, AllocateBlocks, RESIZE_INO, Making
<1>5. CASE MakeRoot
  <2>1. RootDir \in DOMAIN tree
    BY MkfsAssumption
  <2> QED BY <1>5, <2>1 DEF MakeRoot, BeginDirectory, RequestExtents, AllocateBlocks, ROOT_INO, Making
<1> QED BY <1>1, <1>2, <1>3, <1>4, <1>5

\* An inode for an entry.
LEMMA WalkMakes ==
  ASSUME WalkInv, MakeDirectory \/ MakeLeaf \/ OutOfInodes
  PROVE  WalkInv'
<1>1. CASE MakeDirectory
  <2>1. PICK inum \in 1 .. NumGroups * InodesPerGroup : BeginDirectory(Entry.dir, inum)
    BY <1>1 DEF MakeDirectory
  <2>2. Entry.dir \in DOMAIN tree /\ inum \in Nat
    BY <1>1, EntryIsKnown, NumGroupsAssumption, InodesAssumption DEF MakeDirectory
  <2> QED BY <2>1, <2>2 DEF BeginDirectory, RequestExtents, AllocateBlocks, Making, WalkInv, Activation
<1>2. CASE MakeLeaf
  <2>1. PICK inum \in 1 .. NumGroups * InodesPerGroup : current' = Making(inum, "", Entry.blocks)
    BY <1>2 DEF MakeLeaf
  <2>2. current'.inum \in Nat
    <3>1. inum \in Nat
      BY NumGroupsAssumption, InodesAssumption
    <3>2. current'.inum = inum
      BY <2>1 DEF Making
    <3> QED BY <3>1, <3>2
  <2>3. /\ tree' = tree /\ stack' = stack /\ stack # <<>>
        /\ \/ pc' = "finish" /\ alloc_pc' = alloc_pc
           \/ pc' = "link_data"
           \/ pc' = "file_data" /\ alloc_pc' = "extents"
    BY <1>2 DEF MakeLeaf, Walking, WalkInv, allocVars, RequestExtents, AllocateBlocks
  <2>4. pc = "tree"
    BY <1>2 DEF MakeLeaf, Walking
  <2> QED BY <2>2, <2>3, <2>4 DEF WalkInv, Activation
<1>3. CASE OutOfInodes
  BY <1>3 DEF OutOfInodes, WalkInv, Activation, allocVars
<1> QED BY <1>1, <1>2, <1>3

\* Blocks arrive; a directory that has its blocks is walked.
LEMMA WalkAttaches ==
  ASSUME WalkInv,
         GatherRegion \/ AttachInInode \/ AttachWithLeaf \/ AttachWhole \/ WithoutBlocks
  PROVE  WalkInv'
<1>1. CASE GatherRegion
  BY <1>1 DEF GatherRegion, AllocatePartial, InProgress, mkfsOnly, WalkInv, Activation
<1>2. CASE AttachInInode \/ AttachWithLeaf
  <2>1. alloc_pc' # "whole" /\ tree' = tree
    BY <1>2 DEF AttachInInode, AttachWithLeaf, KeepInInode, KeepWithLeaf
  <2>2. PICK node : Attach(node)
    BY <1>2 DEF AttachInInode, AttachWithLeaf
  <2>3. CASE ExtentsDone(node)
    <3> DEFINE new == [dir |-> current.dir, inum |-> current.inum, pos |-> 1]
    <3>1. CASE pc = "dir_data"
      <4>1. new \in Activation
        <5>1. current.dir \in DOMAIN tree /\ current.inum \in Nat
          BY <3>1 DEF WalkInv
        <5> QED BY <5>1 DEF Activation
      <4>2. stack' = <<new>> \o stack /\ pc' = "tree" /\ current' = current
        BY <2>3, <3>1 DEF ExtentsDone
      <4> HIDE DEF new
      <4>3. stack' \in Seq(Activation) /\ stack' # <<>>
        <5>1. stack \in Seq(Activation)
          BY DEF WalkInv
        <5> QED BY <4>1, <4>2, <5>1
      <4> QED BY <2>1, <4>2, <4>3 DEF WalkInv, Activation
    <3>2. CASE pc # "dir_data"
      BY <2>1, <2>3, <3>2 DEF ExtentsDone, WalkInv, Activation
    <3> QED BY <3>1, <3>2
  <2>4. CASE UNCHANGED <<inodes, pc, stack, current>>
    BY <2>1, <2>4 DEF WalkInv, Activation
  <2> QED BY <2>2, <2>3, <2>4 DEF Attach
<1>3. CASE AttachWhole
  BY <1>3 DEF AttachWhole, KeepWhole, WalkInv, Activation
<1>4. CASE WithoutBlocks
  BY <1>4 DEF WithoutBlocks, OutOfSpace, WalkInv, Activation
<1> QED BY <1>1, <1>2, <1>3, <1>4

\* An entry is done, or a directory.
LEMMA WalkFinishes ==
  ASSUME WalkInv,
         FinishPlain \/ FinishXattrTooBig \/ FinishXattrBlock \/ LeaveDirectory \/ UpdateFree
  PROVE  WalkInv'
<1>1. CASE NextEntry /\ pc = "finish" /\ pc' = "tree" /\ UNCHANGED <<tree, current>> /\ alloc_pc' # "whole"
  <2> DEFINE top == [Head(stack) EXCEPT !.pos = @ + 1]
  <2>1. Head(stack) \in Activation /\ stack \in Seq(Activation) /\ stack # <<>>
    BY <1>1 DEF WalkInv
  <2>2. top \in Activation
    BY <2>1 DEF Activation
  <2>3. Tail(stack) \in Seq(Activation) /\ stack' = <<top>> \o Tail(stack)
    BY <1>1, <2>1 DEF NextEntry
  <2> HIDE DEF top
  <2>4. stack' \in Seq(Activation) /\ stack' # <<>>
    BY <2>2, <2>3
  <2> QED BY <1>1, <2>4 DEF WalkInv, Activation
<1>2. CASE FinishPlain
  <2>1. alloc_pc' # "whole"
    BY <1>2 DEF FinishPlain, allocVars, WalkInv
  <2> QED BY <1>1, <1>2, <2>1 DEF FinishPlain
<1>3. CASE FinishXattrBlock
  <2>1. alloc_pc' # "whole"
    BY <1>3 DEF FinishXattrBlock, AllocateBlock, allocVars, WalkInv
  <2> QED BY <1>1, <1>3, <2>1 DEF FinishXattrBlock
<1>4. CASE FinishXattrTooBig
  BY <1>4 DEF FinishXattrTooBig, WalkInv, Activation, allocVars
<1>5. CASE LeaveDirectory
  <2>1. stack \in Seq(Activation) /\ stack # <<>> /\ pc = "tree"
    BY <1>5 DEF LeaveDirectory, WalkInv
  <2>2. Head(stack) \in Activation /\ Tail(stack) \in Seq(Activation)
    BY <2>1
  <2> HIDE DEF Activation
  <2>5. Len(Tail(stack)) = Len(stack) - 1
    BY <2>1
  <2>6. Len(stack) # 1 => Tail(stack) # <<>>
    <3> SUFFICES ASSUME Tail(stack) = <<>> PROVE Len(stack) = 1
      OBVIOUS
    <3>1. Len(<<>>) = 0
      OBVIOUS
    <3>2. Len(Tail(stack)) = 0
      BY <3>1, Zenon
    <3>3. Len(stack) \in Nat
      BY <2>1
    <3> QED BY <2>5, <3>2, <3>3
  <2>3. current'.inum \in Nat
    BY <1>5, <2>2 DEF LeaveDirectory, Making, Activation
  <2>4. /\ stack' = Tail(stack) /\ tree' = tree /\ alloc_pc' = alloc_pc
        /\ pc' = IF Len(stack) = 1 THEN "update" ELSE "finish"
    BY <1>5 DEF LeaveDirectory, allocVars
  <2> QED BY <2>1, <2>2, <2>3, <2>4, <2>6 DEF WalkInv, Activation
<1>6. CASE UpdateFree
  BY <1>6 DEF UpdateFree, WalkInv, Activation, allocVars
<1> QED BY <1>2, <1>3, <1>4, <1>5, <1>6

\* No step of the builder breaks the walk.
LEMMA WalkStep == WalkInv /\ [MkfsNext]_mkfsVars => WalkInv'
<1> SUFFICES ASSUME WalkInv, [MkfsNext]_mkfsVars PROVE WalkInv'
  OBVIOUS
<1>1. CASE UNCHANGED mkfsVars
  BY <1>1 DEF mkfsVars, mkfsOnly, allocVars, WalkInv, Activation
<1>2. CASE MkfsStep
  BY <1>2, WalkBegins, WalkMakes, WalkAttaches, WalkFinishes DEF MkfsStep
<1> QED BY <1>1, <1>2 DEF MkfsNext

-----------------------------------------------------------------------------
(* The requests.                                                           *)

\* Every step of the builder is a step of the block allocator or leaves it
\* alone.
LEMMA StepIsAllocatorStep ==
  ASSUME WalkInv, MkfsStep
  PROVE  AllocatorNext \/ UNCHANGED allocVars
<1>1. CASE CreateJournal
  <2>1. PICK n \in JournalBlocks \ {0} : AllocateBlocks(n + 1, "extents")
    BY <1>1 DEF CreateJournal, RequestExtents
  <2>2. n \in Requests
    BY DemandAssumption
  <2> QED BY <2>1, <2>2 DEF AllocatorNext
<1>2. CASE CreateResize
  <2>1. AllocateBlocks(1, "whole")
    BY <1>2 DEF CreateResize
  <2> QED BY <2>1, DemandAssumption DEF AllocatorNext
<1>3. CASE MakeRoot \/ MakeDirectory
  <2>1. PICK d \in DOMAIN tree : AllocateBlocks(tree[d].blocks + 1, "extents")
    <3>1. CASE MakeRoot
      <4>1. RootDir \in DOMAIN tree
        BY MkfsAssumption DEF WalkInv
      <4> QED BY <3>1, <4>1 DEF MakeRoot, BeginDirectory, RequestExtents
    <3>2. CASE MakeDirectory
      <4>1. Entry.dir \in DOMAIN tree
        BY <3>2, EntryIsKnown DEF MakeDirectory
      <4> QED BY <3>2, <4>1 DEF MakeDirectory, BeginDirectory, RequestExtents
    <3> QED BY <1>3, <3>1, <3>2
  <2>2. tree[d].blocks \in Requests
    BY DemandAssumption DEF WalkInv
  <2> QED BY <2>1, <2>2 DEF AllocatorNext
<1>4. CASE MakeLeaf
  <2>1. Entry.blocks \in Requests \cup {0}
    BY <1>4, EntryIsKnown DEF MakeLeaf
  <2>2. \/ UNCHANGED allocVars
        \/ AllocateBlocks(1, "whole")
        \/ Entry.blocks > 0 /\ AllocateBlocks(Entry.blocks + 1, "extents")
    BY <1>4 DEF MakeLeaf, RequestExtents
  <2>3. Entry.blocks > 0 => Entry.blocks \in Requests
    BY <2>1
  <2> QED BY <2>2, <2>3, DemandAssumption DEF AllocatorNext
<1>5. CASE FinishXattrBlock
  BY <1>5 DEF FinishXattrBlock, AllocatorNext
<1>6. CASE GatherRegion \/ AttachInInode \/ AttachWithLeaf \/ AttachWhole \/ WithoutBlocks
  BY <1>6 DEF GatherRegion, AttachInInode, AttachWithLeaf, AttachWhole, WithoutBlocks,
              AllocatorNext, AllocatorStep
<1>7. CASE \/ ReserveFirstInodes \/ NoJournal \/ OutOfInodes
           \/ FinishPlain \/ FinishXattrTooBig \/ LeaveDirectory \/ UpdateFree
  BY <1>7 DEF ReserveFirstInodes, NoJournal, OutOfInodes, FinishPlain, FinishXattrTooBig,
              LeaveDirectory, UpdateFree
<1> QED BY <1>1, <1>2, <1>3, <1>4, <1>5, <1>6, <1>7 DEF MkfsStep

\* make_ext4fs_internal, with every call it makes into allocate.c, extent.c
\* and indirect.c, implements the specification of the block allocator.
THEOREM MkfsUsesAllocator == MkfsSpec => UsesAllocator
<1>1. MkfsInit => AllocatorInit
  BY DEF MkfsInit
<1>2. WalkInv /\ [MkfsNext]_mkfsVars => [AllocatorNext]_allocVars
  BY StepIsAllocatorStep DEF MkfsNext, mkfsVars
<1> QED BY <1>1, <1>2, WalkInit, WalkStep, PTL DEF MkfsSpec, UsesAllocator, AllocatorSpec

\* No block is allocated twice, leaks, or lies in the metadata of a group or
\* past the end of the image while the image is built.
THEOREM MkfsAccountsForBlocks == MkfsSpec => []BlocksAccountedFor
BY MkfsUsesAllocator, NoDoubleAllocation, PTL DEF UsesAllocator

-----------------------------------------------------------------------------
(* The inodes.                                                             *)

\* init_bg leaves every inode of every group free.
LEMMA InodesInitInv == MkfsInit => InodesInv
<1> SUFFICES ASSUME MkfsInit PROVE InodesInv
  OBVIOUS
<1> USE InodesAssumption
<1>1. InodesInit
  BY DEF MkfsInit
<1>2. InodesConsistent
  BY <1>1 DEF InodesInit, InodesConsistent
<1> QED BY <1>1, <1>2 DEF InodesInv, InodesInit

\* reserve_inodes marks the next n inodes of a group that has them.
LEMMA ReserveInodesInv ==
  ASSUME InodesInv, NEW g \in Groups, NEW n \in Nat \ {0}, n <= free_inodes[g], ReserveInodes(g, n)
  PROVE  InodesInv'
<1> DEFINE first == first_free_inode[g]
           free == free_inodes[g]
<1>1. /\ InodesPerGroup \in Nat
      /\ first \in 1 .. InodesPerGroup + 1 /\ free \in 0 .. InodesPerGroup
      /\ first + free = InodesPerGroup + 1
      /\ inode_bitmap[g] = 0 .. first - 2
  BY InodesAssumption DEF InodesInv, InodesConsistent
<1>2. /\ free_inodes' = [free_inodes EXCEPT ![g] = free - n]
      /\ first_free_inode' = [first_free_inode EXCEPT ![g] = first + n]
      /\ inode_bitmap' = [inode_bitmap EXCEPT ![g] = @ \cup (first - 1 .. first + n - 2)]
  BY DEF ReserveInodes
<1>3. free - n \in 0 .. InodesPerGroup /\ first + n \in 1 .. InodesPerGroup + 1
  BY <1>1, SMTT(60)
<1>4. inode_bitmap[g] \cup (first - 1 .. first + n - 2) = 0 .. first + n - 2
  BY <1>1
<1> HIDE DEF first, free
<1>5. 0 .. first + n - 2 \in SUBSET Nat
  BY <1>1
<1>6. /\ free_inodes' \in [Groups -> 0 .. InodesPerGroup]
      /\ first_free_inode' \in [Groups -> 1 .. InodesPerGroup + 1]
      /\ inode_bitmap' \in [Groups -> SUBSET Nat]
  BY <1>2, <1>3, <1>4, <1>5 DEF InodesInv
<1>7. InodesConsistent'
  <2> SUFFICES ASSUME NEW h \in Groups
               PROVE  /\ inode_bitmap'[h] = 0 .. first_free_inode'[h] - 2
                      /\ first_free_inode'[h] + free_inodes'[h] = InodesPerGroup + 1
    BY DEF InodesConsistent
  <2>1. CASE h = g
    <3>1. inode_bitmap'[g] = 0 .. first + n - 2 /\ first_free_inode'[g] = first + n
          /\ free_inodes'[g] = free - n
      BY <1>2, <1>4 DEF InodesInv
    <3> QED BY <1>1, <2>1, <3>1
  <2>2. CASE h # g
    BY <1>2, <2>2 DEF InodesInv, InodesConsistent
  <2> QED BY <2>1, <2>2
<1> QED BY <1>6, <1>7 DEF InodesInv

\* Only reserve_inodes touches the bitmaps and the counts.
LEMMA InodesStep == InodesInv /\ [MkfsNext]_mkfsVars => InodesInv'
<1> SUFFICES ASSUME InodesInv, [MkfsNext]_mkfsVars PROVE InodesInv'
  OBVIOUS
<1>1. CASE ReserveFirstInodes /\ free_inodes[0] >= RESERVED_INODES
  <2>1. ReserveInodes(0, RESERVED_INODES) /\ 0 \in Groups
    BY <1>1, NumGroupsAssumption DEF ReserveFirstInodes, Groups
  <2>2. RESERVED_INODES <= free_inodes[0] /\ RESERVED_INODES \in Nat \ {0}
    BY <1>1, <2>1 DEF RESERVED_INODES, InodesInv
  <2> QED BY <2>1, <2>2, ReserveInodesInv
<1>2. CASE MakeDirectory \/ MakeLeaf
  <2>1. PICK g \in Groups : InodeGroup(g) /\ ReserveInodes(g, 1)
    BY <1>2 DEF MakeDirectory, MakeLeaf, AllocateInode
  <2>2. 1 <= free_inodes[g]
    BY <2>1 DEF InodeGroup, InodesInv
  <2> QED BY <2>1, <2>2, ReserveInodesInv
<1>3. CASE UNCHANGED <<inode_bitmap, free_inodes, first_free_inode>>
  BY <1>3 DEF InodesInv, InodesConsistent
<1>4. CASE MkfsStep /\ ~MakeDirectory /\ ~MakeLeaf /\ ~(ReserveFirstInodes /\ free_inodes[0] >= RESERVED_INODES)
  <2>1. UNCHANGED <<inode_bitmap, free_inodes, first_free_inode>>
    BY <1>4 DEF MkfsStep, ReserveFirstInodes, CreateJournal, NoJournal, CreateResize, MakeRoot,
         OutOfInodes, GatherRegion, AttachInInode, AttachWithLeaf, AttachWhole, WithoutBlocks,
         FinishPlain, FinishXattrTooBig, FinishXattrBlock, LeaveDirectory, UpdateFree, inodeVars
  <2> QED BY <1>3, <2>1
<1>5. CASE UNCHANGED mkfsVars
  BY <1>3, <1>5 DEF mkfsVars, inodeVars
<1> QED BY <1>1, <1>2, <1>4, <1>5 DEF MkfsNext

\* The inode bitmap of a group, its free count and its next free inode never
\* disagree, whatever the number of inodes of a group and whatever is built.
THEOREM InodesStayConsistent == MkfsSpec => []InodesConsistent
<1>1. InodesInv => InodesConsistent
  BY DEF InodesInv
<1> QED BY <1>1, InodesInitInv, InodesStep, PTL DEF MkfsSpec

-----------------------------------------------------------------------------
(* The table of inodes and the stack.                                      *)

\* The calls that wait for blocks.
DataCalls == {"journal_data", "resize_data", "dir_data", "link_data", "file_data"}
\* The calls for one entry of the directory on top of the stack.
EntryCalls == {"dir_data", "link_data", "file_data", "finish"}

\* An inode with the fields of Blank, and one that has no blocks.
Made(node) == DOMAIN node = DOMAIN Blank
NoBlocks(node) ==
  node.eh_entries = 0 /\ node.extents = <<>> /\ node.leaf = {} /\ node.map = {} /\ node.acl = {}

\* Where the build is: the request in progress is for an inode without blocks
\* that is in the table, and before the root only the journal and the resize
\* inode are.
PlaceInv ==
  /\ \A n \in Numbers : Made(inodes[n])
  /\ pc \in DataCalls <=> alloc_pc # "idle"
  /\ pc \in DataCalls => current.inum \in Numbers /\ NoBlocks(inodes[current.inum])
  /\ pc \in {"reserve", "journal"} => Numbers = {} /\ stack = <<>>
  /\ pc \in {"journal_data", "resize"} => Numbers \subseteq {JOURNAL_INO} /\ stack = <<>>
  /\ pc \in {"resize_data", "root"} => Numbers \subseteq {RESIZE_INO, JOURNAL_INO} /\ stack = <<>>
  /\ pc = "resize_data" => current.inum = RESIZE_INO

\* An inode that a call in progress may still give a block for attributes.
Walker(n, use, table) == n \in use /\ n \in DOMAIN table /\ table[n].acl = {}

\* The directories being walked are different inodes, except that without
\* reserved inodes an entry may have the number of the root, which is at the
\* bottom.
Walkers(s, use, table) ==
  /\ \A k \in 1 .. Len(s) - 1 : Walker(s[k].inum, use, table)
  /\ \A j, k \in 1 .. Len(s) - 1 : j # k => s[j].inum # s[k].inum
  /\ s # <<>> => s[Len(s)].inum = ROOT_INO /\ s[Len(s)].dir = RootDir

\* So is the inode of the entry in hand.
InHand(n, s, use, table) == Walker(n, use, table) /\ \A k \in 1 .. Len(s) - 1 : s[k].inum # n

WalkersInv ==
  /\ Walkers(stack, InUseInodes, inodes)
  /\ pc \in EntryCalls /\ stack # <<>> => InHand(current.inum, stack, InUseInodes, inodes)
  /\ pc = "dir_data" /\ stack = <<>> => current.inum = ROOT_INO /\ current.dir = RootDir

\* An inode is put in the table; the others stay.
LEMMA SetInodeIs ==
  ASSUME NEW n, NEW node, SetInode(n, node)
  PROVE  /\ Numbers' = Numbers \cup {n} /\ inodes'[n] = node
         /\ \A m \in Numbers : m # n => inodes'[m] = inodes[m]
BY DEF SetInode, Numbers

\* An inode of the table is replaced by one with the same fields.
LEMMA Replaced ==
  ASSUME \A n \in Numbers : Made(inodes[n]), NEW n \in Numbers, NEW node, Made(node),
         SetInode(n, node)
  PROVE  Numbers' = Numbers /\ \A m \in Numbers' : Made(inodes'[m])
<1>1. Numbers' = Numbers \cup {n} /\ inodes'[n] = node
      /\ \A m \in Numbers : m # n => inodes'[m] = inodes[m]
  BY SetInodeIs
<1>2. Numbers' = Numbers
  BY <1>1
<1>3. ASSUME NEW m \in Numbers' PROVE Made(inodes'[m])
  BY <1>1, <1>2
<1> QED BY <1>2, <1>3

\* A directory is entered, left, or goes on to its next entry.
LEMMA PushIs ==
  ASSUME NEW A, NEW s \in Seq(A), NEW e \in A
  PROVE  /\ Len(<<e>> \o s) = Len(s) + 1 /\ (<<e>> \o s)[1] = e /\ <<e>> \o s # <<>>
         /\ \A k \in 1 .. Len(s) : (<<e>> \o s)[k + 1] = s[k]
         /\ \A k \in 2 .. Len(s) + 1 : (<<e>> \o s)[k] = s[k - 1]
OBVIOUS

\* The stack when a directory is left.
LEMMA PopIs ==
  ASSUME NEW A, NEW s \in Seq(A), s # <<>>
  PROVE  /\ Len(Tail(s)) = Len(s) - 1 /\ Len(s) \in Nat \ {0} /\ Head(s) = s[1]
         /\ \A k \in 1 .. Len(s) - 1 : Tail(s)[k] = s[k + 1]
OBVIOUS

\* The stack when the next entry is taken up.
LEMMA BumpIs ==
  ASSUME NEW A, NEW s \in Seq(A), s # <<>>, NEW e \in A
  PROVE  /\ Len(<<e>> \o Tail(s)) = Len(s) /\ (<<e>> \o Tail(s))[1] = e /\ <<e>> \o Tail(s) # <<>>
         /\ \A k \in 2 .. Len(s) : (<<e>> \o Tail(s))[k] = s[k]
OBVIOUS

\* Nothing is in the table before the first inode is made.
LEMMA PlaceInit == MkfsInit => PlaceInv
<1> SUFFICES ASSUME MkfsInit PROVE PlaceInv
  OBVIOUS
<1>1. Numbers = {} /\ pc = "reserve" /\ stack = <<>> /\ alloc_pc = "idle"
  BY DEF MkfsInit, AllocatorInit, Numbers
<1> QED BY <1>1 DEF PlaceInv, DataCalls

\* The calls before a request for blocks.
LEMMA PlaceBegins ==
  ASSUME PlaceInv, WalkInv,
         ReserveFirstInodes \/ CreateJournal \/ NoJournal \/ CreateResize \/ MakeRoot
           \/ MakeDirectory \/ MakeLeaf \/ OutOfInodes
  PROVE  PlaceInv'
<1>1. CASE ReserveFirstInodes \/ NoJournal \/ OutOfInodes
  <2>1. UNCHANGED <<inodes, stack, alloc_pc, current>> /\ Numbers' = Numbers
    BY <1>1 DEF ReserveFirstInodes, NoJournal, OutOfInodes, allocVars, Numbers
  <2>2. /\ pc \in {"reserve", "journal"} \/ pc = "tree"
        /\ pc' \in {"journal", "failed", "crashed", "resize"}
        /\ pc' = "journal" => pc = "reserve"
        /\ pc' = "resize" => pc = "journal"
    BY <1>1 DEF ReserveFirstInodes, NoJournal, OutOfInodes, Walking
  <2> QED BY <2>1, <2>2 DEF PlaceInv, DataCalls
<1>2. CASE CreateJournal
  <2>1. SetInode(JOURNAL_INO, Blank) /\ pc = "journal" /\ pc' = "journal_data"
        /\ current'.inum = JOURNAL_INO /\ stack' = stack /\ alloc_pc' = "extents"
    <3>1. PICK n : RequestExtents(n) /\ current' = Making(JOURNAL_INO, "", n)
      BY <1>2 DEF CreateJournal
    <3>2. current'.inum = JOURNAL_INO /\ alloc_pc' = "extents"
      BY <3>1 DEF RequestExtents, AllocateBlocks, Making
    <3> QED BY <1>2, <3>2 DEF CreateJournal
  <2>2. Numbers' = {JOURNAL_INO} /\ inodes'[JOURNAL_INO] = Blank
    BY <2>1, SetInodeIs DEF PlaceInv
  <2>3. Made(Blank) /\ NoBlocks(Blank)
    BY DEF Made, NoBlocks, Blank
  <2> QED BY <2>1, <2>2, <2>3 DEF PlaceInv, DataCalls
<1>3. CASE CreateResize
  <2>1. SetInode(RESIZE_INO, Blank) /\ pc = "resize" /\ pc' = "resize_data"
        /\ current'.inum = RESIZE_INO /\ stack' = stack /\ alloc_pc' = "whole"
    BY <1>3 DEF CreateResize, RequestExtents, AllocateBlocks, Making
  <2>2. Numbers' \subseteq {RESIZE_INO, JOURNAL_INO} /\ inodes'[RESIZE_INO] = Blank
        /\ RESIZE_INO \in Numbers' /\ \A n \in Numbers' : n # RESIZE_INO => Made(inodes'[n])
    BY <2>1, SetInodeIs DEF PlaceInv
  <2>3. Made(Blank) /\ NoBlocks(Blank)
    BY DEF Made, NoBlocks, Blank
  <2> QED BY <2>1, <2>2, <2>3 DEF PlaceInv, DataCalls
<1>4. CASE MakeRoot \/ MakeDirectory
  <2>1. PICK n, d : BeginDirectory(d, n)
    BY <1>4 DEF MakeRoot, MakeDirectory
  <2>2. SetInode(n, Blank) /\ pc' = "dir_data" /\ current'.inum = n /\ alloc_pc' = "extents"
    BY <2>1 DEF BeginDirectory, RequestExtents, AllocateBlocks, Making
  <2>3. inodes'[n] = Blank /\ n \in Numbers' /\ \A m \in Numbers' : m # n => Made(inodes'[m])
    BY <2>2, SetInodeIs DEF PlaceInv
  <2>4. Made(Blank) /\ NoBlocks(Blank)
    BY DEF Made, NoBlocks, Blank
  <2> QED BY <2>2, <2>3, <2>4 DEF PlaceInv, DataCalls
<1>5. CASE MakeLeaf
  <2> DEFINE leaf == [Blank EXCEPT !.type = Entry.type, !.links = 1]
  <2>6. PICK n \in 1 .. NumGroups * InodesPerGroup :
             current' = Making(n, "", Entry.blocks) /\ SetInode(n, leaf)
    BY <1>5, Zenon DEF MakeLeaf
  <2>1. current'.inum = n /\ SetInode(n, leaf)
    BY <2>6 DEF Making
  <2>2. Made(leaf) /\ NoBlocks(leaf)
    BY DEF Made, NoBlocks, Blank
  <2>3. \/ pc' = "finish" /\ alloc_pc' = alloc_pc
        \/ pc' \in {"link_data", "file_data"} /\ alloc_pc' \in {"whole", "extents"}
    BY <1>5 DEF MakeLeaf, AllocateBlocks, RequestExtents, allocVars
  <2>4. pc = "tree"
    BY <1>5 DEF MakeLeaf, Walking
  <2> HIDE DEF leaf
  <2>5. inodes'[n] = leaf /\ n \in Numbers' /\ \A m \in Numbers' : m # n => Made(inodes'[m])
    BY <2>1, SetInodeIs DEF PlaceInv
  <2> QED BY <2>1, <2>2, <2>3, <2>4, <2>5 DEF PlaceInv, DataCalls
<1> QED BY <1>1, <1>2, <1>3, <1>4, <1>5

\* The fields an inode has stay the fields it has.
LEMMA WithExtentsIs ==
  ASSUME NEW node, Made(node), NEW l, NEW leaf
  PROVE  /\ Made(WithExtents(node, l, leaf))
         /\ WithExtents(node, l, leaf).eh_entries = Len(list)
         /\ WithExtents(node, l, leaf).extents = Extents(l)
         /\ WithExtents(node, l, leaf).leaf = leaf
         /\ WithExtents(node, l, leaf).map = node.map
         /\ WithExtents(node, l, leaf).acl = node.acl
         /\ WithExtents(node, l, leaf).size = current.blocks
         /\ WithExtents(node, l, leaf).blocks = IF leaf = {} THEN current.blocks ELSE current.blocks + 1
         /\ WithExtents(node, l, leaf).type = node.type
BY DEF WithExtents, Made, Blank

\* What the caller of do_inode_allocate_extents stores keeps the blocks.
SameBlocks(node, old) ==
  /\ node.eh_entries = old.eh_entries /\ node.extents = old.extents /\ node.leaf = old.leaf
  /\ node.map = old.map /\ node.acl = old.acl /\ node.size = old.size /\ node.blocks = old.blocks

\* The caller stores an inode that has the same blocks.
LEMMA DoneIs ==
  ASSUME NEW node, Made(node), ExtentsDone(node)
  PROVE  \E new : Made(new) /\ SameBlocks(new, node) /\ SetInode(current.inum, new)
                  /\ current' = current
<1>1. CASE pc = "journal_data"
  <2>1. PICK new : new = [node EXCEPT !.type = "file", !.links = 1]
    OBVIOUS
  <2>2. Made(new) /\ SameBlocks(new, node)
    BY <2>1 DEF Made, Blank, SameBlocks
  <2>3. SetInode(current.inum, new) /\ current' = current
    BY <1>1, <2>1 DEF ExtentsDone
  <2> QED BY <2>2, <2>3
<1>2. CASE pc = "file_data"
  <2>1. SetInode(current.inum, node) /\ current' = current /\ SameBlocks(node, node)
    BY <1>2 DEF ExtentsDone, SameBlocks
  <2> QED BY <2>1
<1>3. CASE pc = "dir_data"
  <2>1. PICK new : new = AsDirectory(node, current.dir)
    OBVIOUS
  <2>2. Made(new) /\ SameBlocks(new, node)
    BY <2>1 DEF Made, Blank, SameBlocks, AsDirectory
  <2>3. SetInode(current.inum, new) /\ current' = current
    BY <1>3, <2>1 DEF ExtentsDone
  <2> QED BY <2>2, <2>3
<1> QED BY <1>1, <1>2, <1>3 DEF ExtentsDone

\* Blocks arrive.
LEMMA PlaceAttaches ==
  ASSUME PlaceInv, WalkInv, NeverReservedTwice',
         GatherRegion \/ AttachInInode \/ AttachWithLeaf \/ AttachWhole \/ WithoutBlocks
  PROVE  PlaceInv'
<1>1. CASE GatherRegion
  <2>1. UNCHANGED <<inodes, stack, pc, current>> /\ Numbers' = Numbers /\ alloc_pc # "idle"
    BY <1>1 DEF GatherRegion, mkfsOnly, Numbers, AllocatePartial, InProgress
  <2>2. alloc_pc' # "idle"
    BY <1>1 DEF GatherRegion, AllocatePartial, InProgress
  <2> QED BY <2>1, <2>2 DEF PlaceInv
<1>2. CASE AttachInInode \/ AttachWithLeaf
  <2>1. PICK l, leaf : Attach(WithExtents(inodes[current.inum], l, leaf))
    BY <1>2 DEF AttachInInode, AttachWithLeaf
  <2>2. alloc_pc = "extents"
    BY <1>2 DEF AttachInInode, AttachWithLeaf, KeepInInode, KeepWithLeaf
  <2>3. current.inum \in Numbers /\ Made(inodes[current.inum]) /\ pc \in DataCalls
    BY <2>2 DEF PlaceInv
  <2>4. CASE alloc_pc' # "idle"
    <3>1. UNCHANGED <<inodes, stack, pc, current>> /\ Numbers' = Numbers
      BY <2>1, <2>4 DEF Attach, Numbers
    <3> QED BY <2>2, <2>4, <3>1 DEF PlaceInv
  <2>5. CASE alloc_pc' = "idle"
    <3> DEFINE node == WithExtents(inodes[current.inum], l, leaf)
    <3>1. Made(node) /\ ExtentsDone(node)
      BY <2>1, <2>3, <2>5, WithExtentsIs DEF Attach
    <3> HIDE DEF node
    <3>2. PICK new : Made(new) /\ SetInode(current.inum, new)
      BY <3>1, DoneIs
    <3>3. Numbers' = Numbers /\ \A n \in Numbers' : Made(inodes'[n])
      BY <2>3, <3>2, Replaced DEF PlaceInv
    <3>4. \/ pc = "journal_data" /\ pc' = "resize" /\ stack' = stack
          \/ pc = "file_data" /\ pc' = "finish"
          \/ pc = "dir_data" /\ pc' = "tree"
      BY <3>1 DEF ExtentsDone
    <3> QED BY <2>5, <3>3, <3>4 DEF PlaceInv, DataCalls
  <2> QED BY <2>4, <2>5
<1>3. CASE AttachWhole
  <2>1. alloc_pc = "whole" /\ alloc_pc' = "idle"
    BY <1>3 DEF AttachWhole, KeepWhole
  <2>2. current.inum \in Numbers /\ Made(inodes[current.inum]) /\ pc \in {"resize_data", "link_data"}
    BY <2>1 DEF PlaceInv, WalkInv
  <2>3. PICK new : Made(new) /\ SetInode(current.inum, new)
    <3>1. PICK a, b : a = [Blank EXCEPT !.type = "file", !.links = 1, !.map = Held(list), !.blocks = ReservedGdt + 1]
                      /\ b = [inodes[current.inum] EXCEPT !.map = Held(list), !.blocks = 1]
      OBVIOUS
    <3>2. Made(a) /\ Made(b)
      BY <2>2, <3>1 DEF Made, Blank
    <3>3. SetInode(current.inum, a) \/ SetInode(current.inum, b)
      BY <1>3, <3>1 DEF AttachWhole
    <3> QED BY <3>2, <3>3
  <2>4. Numbers' = Numbers /\ \A n \in Numbers' : Made(inodes'[n])
    BY <2>2, <2>3, Replaced DEF PlaceInv
  <2>5. \/ pc = "resize_data" /\ pc' = "root"
        \/ pc' = "finish"
    BY <1>3 DEF AttachWhole
  <2>6. stack' = stack
    BY <1>3 DEF AttachWhole
  <2> QED BY <2>1, <2>4, <2>5, <2>6 DEF PlaceInv, DataCalls
<1>4. CASE WithoutBlocks
  <2>1. alloc_pc # "idle" /\ pc \in DataCalls /\ stack' = stack /\ current' = current
    BY <1>4 DEF WithoutBlocks, OutOfSpace, InProgress, PlaceInv
  <2>2. CASE ~force
    BY <1>4, <2>1, <2>2 DEF WithoutBlocks, OutOfSpace, PlaceInv, DataCalls, Numbers
  <2>3. CASE force /\ pc # "resize_data"
    <3>1. UNCHANGED inodes /\ Numbers' = Numbers /\ alloc_pc' = "idle"
          /\ \/ pc = "journal_data" /\ pc' = "resize"
             \/ pc' \in {"finish", "crashed"}
      BY <1>4, <2>3 DEF WithoutBlocks, OutOfSpace, Numbers
    <3> QED BY <2>1, <3>1 DEF PlaceInv, DataCalls
  <2>4. CASE force /\ pc = "resize_data"
    <3>1. PICK a : a = [Blank EXCEPT !.type = "file", !.links = 1, !.map = {NoSuchBlock}, !.blocks = ReservedGdt + 1]
      OBVIOUS
    <3>2. Made(a)
      BY <3>1 DEF Made, Blank
    <3>3. SetInode(RESIZE_INO, a) /\ pc' = "root" /\ alloc_pc' = "idle"
      BY <1>4, <2>4, <3>1 DEF WithoutBlocks, OutOfSpace
    <3>4. Numbers' = Numbers /\ \A n \in Numbers' : Made(inodes'[n])
      BY <2>1, <2>4, <3>2, <3>3, Replaced DEF PlaceInv
    <3> QED BY <2>1, <2>4, <3>3, <3>4 DEF PlaceInv, DataCalls
  <2> QED BY <2>2, <2>3, <2>4
<1> QED BY <1>1, <1>2, <1>3, <1>4

\* An entry, a directory or the tree is done.
LEMMA PlaceFinishes ==
  ASSUME PlaceInv, NeverReservedTwice',
         FinishPlain \/ FinishXattrTooBig \/ FinishXattrBlock \/ LeaveDirectory \/ UpdateFree
  PROVE  PlaceInv'
<1>1. pc \in {"finish", "tree", "update"} /\ pc' \in {"tree", "failed", "update", "finish", "done"}
  BY DEF FinishPlain, FinishXattrTooBig, FinishXattrBlock, LeaveDirectory, UpdateFree
<1>2. alloc_pc = "idle"
  BY <1>1 DEF PlaceInv, DataCalls
<1>3. alloc_pc' = "idle"
  BY <1>2 DEF FinishPlain, FinishXattrTooBig, FinishXattrBlock, LeaveDirectory, UpdateFree, allocVars,
              AllocateBlock, NeverReservedTwice
<1>4. Numbers' = Numbers /\ \A n \in Numbers' : Made(inodes'[n])
  <2>1. CASE LeaveDirectory \/ UpdateFree
    BY <2>1 DEF LeaveDirectory, UpdateFree, PlaceInv, Numbers
  <2>2. DOMAIN Patched = Numbers /\ \A n \in Numbers : Made(Patched[n])
    BY DEF Patched, PlaceInv, Made, Numbers
  <2>3. CASE FinishPlain \/ FinishXattrTooBig
    BY <2>2, <2>3 DEF FinishPlain, FinishXattrTooBig, Numbers
  <2>4. CASE FinishXattrBlock
    <3>1. PICK b : inodes' = WithAcl(Patched, b)
      BY <2>4 DEF FinishXattrBlock
    <3> QED BY <2>2, <3>1 DEF WithAcl, Made, Numbers
  <2> QED BY <2>1, <2>3, <2>4
<1> QED BY <1>1, <1>3, <1>4 DEF PlaceInv, DataCalls

\* Every step keeps the place.
LEMMA PlaceStep == PlaceInv /\ WalkInv /\ NeverReservedTwice' /\ [MkfsNext]_mkfsVars => PlaceInv'
<1> SUFFICES ASSUME PlaceInv, WalkInv, NeverReservedTwice', [MkfsNext]_mkfsVars PROVE PlaceInv'
  OBVIOUS
<1>1. CASE UNCHANGED mkfsVars
  BY <1>1 DEF mkfsVars, mkfsOnly, allocVars, PlaceInv, Numbers
<1>2. CASE MkfsStep
  BY <1>2, PlaceBegins, PlaceAttaches, PlaceFinishes DEF MkfsStep
<1> QED BY <1>1, <1>2 DEF MkfsNext

-----------------------------------------------------------------------------
(* Inode numbers.                                                          *)

\* A number of the image lies in one of its groups.
LEMMA QuotientBelow ==
  ASSUME NEW q \in Nat, NEW r \in Nat, NEW n \in Nat, NEW b \in Nat \ {0}, q * b + r < n * b
  PROVE  q < n
<1> SUFFICES ASSUME q >= n PROVE FALSE
  OBVIOUS
<1>1. (q - n) * b \in Nat /\ q * b = n * b + (q - n) * b
  OBVIOUS
<1> QED BY <1>1

\* The place of inode n in its group.
IndexOf(n) == ((n - 1) % InodesPerGroup) + 1

\* The group of an inode, and its place there.
LEMMA GroupIs ==
  ASSUME NEW n \in 1 .. NumGroups * InodesPerGroup
  PROVE  /\ GroupOfInode(n) \in Groups /\ IndexOf(n) \in 1 .. InodesPerGroup
         /\ n = GroupOfInode(n) * InodesPerGroup + IndexOf(n)
<1> USE NumGroupsAssumption, InodesAssumption
<1>1. PICK x \in Nat : x = n - 1 /\ x < NumGroups * InodesPerGroup
  OBVIOUS
<1>2. PICK q \in Nat : q = x \div InodesPerGroup
  BY <1>1, DivMod
<1>3. PICK r \in 0 .. InodesPerGroup - 1 : r = x % InodesPerGroup
  BY <1>1, DivMod
<1>4. x = q * InodesPerGroup + r
  BY <1>1, <1>2, <1>3, DivMod
<1>5. q < NumGroups
  BY <1>1, <1>3, <1>4, QuotientBelow
<1>6. GroupOfInode(n) = q /\ IndexOf(n) = r + 1
  BY <1>1, <1>2, <1>3 DEF GroupOfInode, IndexOf
<1> QED BY <1>1, <1>3, <1>4, <1>5, <1>6 DEF Groups

\* The number of inode k of group g, and back.
LEMMA NumberIs ==
  ASSUME NEW g \in Groups, NEW k \in 1 .. InodesPerGroup
  PROVE  /\ g * InodesPerGroup + k \in 1 .. NumGroups * InodesPerGroup
         /\ GroupOfInode(g * InodesPerGroup + k) = g
         /\ IndexOf(g * InodesPerGroup + k) = k
<1> USE NumGroupsAssumption, InodesAssumption
<1>1. PICK r \in 0 .. InodesPerGroup - 1 : r = k - 1
  OBVIOUS
<1>2. g \in Nat /\ g \in Int /\ g + 1 <= NumGroups
  BY DEF Groups
<1>3. PICK x \in Nat : x = g * InodesPerGroup
  BY <1>2
<1>4. (x + r) \div InodesPerGroup = g /\ (x + r) % InodesPerGroup = r
  BY <1>2, <1>3, Division
<1>5. x + InodesPerGroup <= NumGroups * InodesPerGroup
  <2>1. (NumGroups - (g + 1)) * InodesPerGroup \in Nat
    BY <1>2
  <2> QED BY <1>2, <1>3, <2>1
<1>6. PICK n \in Nat : n = g * InodesPerGroup + k /\ n - 1 = x + r
  BY <1>1, <1>3
<1>7. n \in 1 .. NumGroups * InodesPerGroup
  BY <1>1, <1>3, <1>5, <1>6
<1>8. GroupOfInode(n) = g
  BY <1>4, <1>6 DEF GroupOfInode
<1>9. IndexOf(n) = r + 1
  BY <1>4, <1>6 DEF IndexOf
<1>10. IndexOf(n) = k
  BY <1>1, <1>9
<1> QED BY <1>6, <1>7, <1>8, <1>10

\* An inode is in use when its bit is set, in this state or the next.
LEMMA InUseIs ==
  ASSUME NEW n \in 1 .. NumGroups * InodesPerGroup
  PROVE  /\ n \in InUseInodes <=> IndexOf(n) - 1 \in inode_bitmap[GroupOfInode(n)]
         /\ n \in InUseInodes' <=> IndexOf(n) - 1 \in inode_bitmap'[GroupOfInode(n)]
<1> USE NumGroupsAssumption, InodesAssumption
<1>1. IndexOf(n) - 1 = (n - 1) % InodesPerGroup
  <2>1. (n - 1) % InodesPerGroup \in Int
    OBVIOUS
  <2> QED BY <2>1 DEF IndexOf
<1> QED BY <1>1 DEF InUseInodes, GroupOfInode

\* allocate_inode returns a number that was not in use, and that is all that
\* becomes used.
LEMMA FreshInode ==
  ASSUME InodesInv, NEW n, AllocateInode(n)
  PROVE  /\ n \in 1 .. NumGroups * InodesPerGroup /\ n \notin InUseInodes
         /\ InUseInodes' = InUseInodes \cup {n} /\ GroupOfInode(n) \in Groups
<1> USE NumGroupsAssumption, InodesAssumption
<1>1. PICK g \in Groups : InodeGroup(g) /\ n = NextInode(g) /\ ReserveInodes(g, 1)
  BY DEF AllocateInode
<1>2. PICK k \in 1 .. InodesPerGroup : k = first_free_inode[g]
  BY <1>1 DEF InodesInv, InodesConsistent, InodeGroup
<1>3. n = g * InodesPerGroup + k
  BY <1>1, <1>2 DEF NextInode
<1>4. n \in 1 .. NumGroups * InodesPerGroup /\ GroupOfInode(n) = g /\ IndexOf(n) = k
  BY <1>3, NumberIs
<1>5. inode_bitmap[g] = 0 .. k - 2 /\ inode_bitmap' = [inode_bitmap EXCEPT ![g] = @ \cup {k - 1}]
  <2>1. k - 1 .. k + 1 - 2 = {k - 1}
    BY <1>2
  <2> QED BY <1>1, <1>2, <2>1 DEF InodesInv, InodesConsistent, ReserveInodes
<1>6. n \notin InUseInodes
  BY <1>2, <1>4, <1>5, InUseIs
<1>7. ASSUME NEW m \in 1 .. NumGroups * InodesPerGroup
      PROVE  m \in InUseInodes' <=> m \in InUseInodes \cup {n}
  <2>1. PICK q \in Groups : q = GroupOfInode(m)
    BY GroupIs
  <2>2. PICK r \in 1 .. InodesPerGroup : r = IndexOf(m) /\ m = q * InodesPerGroup + r
    BY <2>1, GroupIs
  <2>3. /\ m \in InUseInodes <=> r - 1 \in inode_bitmap[q]
        /\ m \in InUseInodes' <=> r - 1 \in inode_bitmap'[q]
    BY <2>1, <2>2, InUseIs
  <2>4. CASE q # g
    <3>1. m # n
      BY <1>4, <2>1, <2>4
    <3>2. inode_bitmap'[q] = inode_bitmap[q]
      BY <1>5, <2>4 DEF InodesInv
    <3> QED BY <2>3, <3>1, <3>2
  <2>5. CASE q = g
    <3>1. inode_bitmap'[q] = inode_bitmap[q] \cup {k - 1}
      BY <1>5, <2>5 DEF InodesInv
    <3>2. r = k <=> m = n
      BY <1>3, <1>4, <2>2, <2>5
    <3>3. r - 1 = k - 1 <=> r = k
      OBVIOUS
    <3> QED BY <2>3, <3>1, <3>2, <3>3
  <2> QED BY <2>4, <2>5
<1>8. InUseInodes \subseteq 1 .. NumGroups * InodesPerGroup /\ InUseInodes' \subseteq 1 .. NumGroups * InodesPerGroup
  BY DEF InUseInodes
<1> QED BY <1>1, <1>4, <1>6, <1>7, <1>8

\* The calls before the first directory.
Begun == {"reserve", "journal", "journal_data", "resize", "resize_data", "root"}
\* The reserved inodes are marked, as long as the program goes on in order.
Roomy == 1 .. RESERVED_INODES \subseteq InUseInodes /\ InodesPerGroup >= RESERVED_INODES
RoomInv ==
  /\ pc = "reserve" => first_free_inode[0] = 1 /\ InUseInodes = {}
  /\ pc \in Begun => InUseInodes \subseteq 1 .. RESERVED_INODES
  /\ pc \in {"reserve", "failed"} \/ Unreserved \/ Roomy
  /\ Unreserved \/ Numbers \subseteq InUseInodes

\* -f is given once.
LEMMA ForceKept == [MkfsNext]_mkfsVars => (Unreserved' <=> Unreserved)
<1> SUFFICES ASSUME [MkfsNext]_mkfsVars PROVE force' = force
  BY DEF Unreserved
<1> QED BY DEF MkfsNext, MkfsStep, mkfsVars, mkfsOnly, allocVars, ReserveFirstInodes, CreateJournal,
     NoJournal, CreateResize, MakeRoot, MakeDirectory, MakeLeaf, OutOfInodes, GatherRegion,
     AttachInInode, AttachWithLeaf, AttachWhole, WithoutBlocks, FinishPlain, FinishXattrTooBig,
     FinishXattrBlock, LeaveDirectory, UpdateFree, BeginDirectory, RequestExtents, AllocateBlocks,
     AllocatePartial, OutOfSpace, AllocateBlock, KeepInInode, KeepWithLeaf, KeepWhole

\* No inode is in use at first.
LEMMA RoomInit == MkfsInit => RoomInv
<1> SUFFICES ASSUME MkfsInit PROVE RoomInv
  OBVIOUS
<1>1. Numbers = {} /\ pc = "reserve"
  BY DEF MkfsInit, Numbers
<1>2. first_free_inode[0] = 1 /\ inode_bitmap = [g \in Groups |-> {}]
  <2>1. 0 \in Groups
    BY NumGroupsAssumption DEF Groups
  <2>2. InodesInit
    BY DEF MkfsInit
  <2> QED BY <2>1, <2>2 DEF InodesInit
<1>3. InUseInodes = {}
  <2> SUFFICES ASSUME NEW n \in InUseInodes PROVE FALSE
    OBVIOUS
  <2>1. n \in 1 .. NumGroups * InodesPerGroup
    BY DEF InUseInodes
  <2>2. GroupOfInode(n) \in Groups /\ IndexOf(n) - 1 \in inode_bitmap[GroupOfInode(n)]
    BY <2>1, GroupIs, InUseIs
  <2> QED BY <1>2, <2>2
<1> QED BY <1>1, <1>2, <1>3 DEF RoomInv

\* The first ten inodes of the first group are the reserved ones.
LEMMA RoomReserves ==
  ASSUME RoomInv, InodesInv, PlaceInv, ReserveFirstInodes
  PROVE  RoomInv'
<1> USE NumGroupsAssumption, InodesAssumption DEF RESERVED_INODES
<1>1. 0 \in Groups /\ first_free_inode[0] = 1 /\ InUseInodes = {} /\ Numbers' = {}
  BY DEF Groups, RoomInv, ReserveFirstInodes, PlaceInv, Numbers
<1>2. free_inodes[0] = InodesPerGroup /\ inode_bitmap \in [Groups -> SUBSET Nat]
  BY <1>1 DEF InodesInv, InodesConsistent
<1>3. CASE free_inodes[0] >= RESERVED_INODES
  <2>1. inode_bitmap' = [inode_bitmap EXCEPT ![0] = @ \cup 0 .. 9] /\ pc' = "journal"
    BY <1>1, <1>3 DEF ReserveFirstInodes, ReserveInodes
  <2>2. InodesPerGroup >= RESERVED_INODES
    BY <1>2, <1>3
  <2>3. ASSUME NEW n \in 1 .. RESERVED_INODES PROVE n \in InUseInodes'
    <3>1. n \in 1 .. InodesPerGroup
      BY <2>2
    <3>2. PICK z \in Groups : z = 0
      BY <1>1
    <3>3. z * InodesPerGroup + n \in 1 .. NumGroups * InodesPerGroup
          /\ GroupOfInode(z * InodesPerGroup + n) = z /\ IndexOf(z * InodesPerGroup + n) = n
      BY <3>1, NumberIs
    <3>4. z * InodesPerGroup + n = n
      BY <3>2
    <3>5. n - 1 \in inode_bitmap'[0]
      BY <1>1, <1>2, <2>1
    <3> QED BY <3>2, <3>3, <3>4, <3>5, InUseIs
  <2>4. ASSUME NEW n \in InUseInodes' PROVE n \in 1 .. RESERVED_INODES
    <3>1. n \in 1 .. NumGroups * InodesPerGroup
      BY DEF InUseInodes
    <3>2. PICK q \in Groups : q = GroupOfInode(n)
      BY <3>1, GroupIs
    <3>3. PICK r \in 1 .. InodesPerGroup : r = IndexOf(n) /\ n = q * InodesPerGroup + r
      BY <3>1, <3>2, GroupIs
    <3>4. r - 1 \in inode_bitmap'[q] /\ r - 1 \notin inode_bitmap[q]
      BY <1>1, <3>1, <3>2, <3>3, InUseIs
    <3>5. q = 0 /\ r - 1 \in 0 .. 9
      BY <1>1, <1>2, <2>1, <3>4
    <3> QED BY <3>3, <3>5
  <2> QED BY <1>1, <2>1, <2>2, <2>3, <2>4 DEF RoomInv, Roomy, Begun
<1>4. CASE ~(free_inodes[0] >= RESERVED_INODES)
  <2>1. InUseInodes' = {}
    BY <1>1, <1>4 DEF ReserveFirstInodes, InUseInodes
  <2>2. force' = force /\ pc' = IF force THEN "journal" ELSE "failed"
    BY <1>4 DEF ReserveFirstInodes, allocVars
  <2>3. force => Unreserved'
    BY <1>2, <1>4, <2>2 DEF Unreserved
  <2> QED BY <1>1, <2>1, <2>2, <2>3 DEF RoomInv, Begun
<1> QED BY <1>3, <1>4

\* Every step keeps the reserved inodes marked, and inodes in use.
LEMMA RoomStep ==
  ASSUME RoomInv, InodesInv, PlaceInv, WalkInv, [MkfsNext]_mkfsVars
  PROVE  RoomInv'
<1>1. CASE ReserveFirstInodes
  BY <1>1, RoomReserves
<1>2. Unreserved' <=> Unreserved
  BY ForceKept
<1>3. CASE MakeDirectory \/ MakeLeaf
  <2>1. PICK n, node : AllocateInode(n) /\ SetInode(n, node)
    BY <1>3 DEF MakeDirectory, MakeLeaf, BeginDirectory
  <2>2. InUseInodes' = InUseInodes \cup {n}
    BY <2>1, FreshInode
  <2>3. Numbers' = Numbers \cup {n}
    BY <2>1, SetInodeIs
  <2>4. pc = "tree" /\ pc' \in {"dir_data", "finish", "link_data", "file_data"}
    BY <1>3 DEF MakeDirectory, MakeLeaf, BeginDirectory, Walking
  <2> QED BY <1>2, <2>2, <2>3, <2>4 DEF RoomInv, Roomy, Begun
<1>4. CASE CreateJournal \/ CreateResize \/ MakeRoot
  <2>0. PICK n \in {JOURNAL_INO, RESIZE_INO, ROOT_INO} : \E node : SetInode(n, node)
    BY <1>4 DEF CreateJournal, CreateResize, MakeRoot, BeginDirectory
  <2>1. PICK node : SetInode(n, node)
    BY <2>0
  <2>2. inode_bitmap' = inode_bitmap
    BY <1>4 DEF CreateJournal, CreateResize, MakeRoot
  <2>3. InUseInodes' = InUseInodes
    BY <2>2 DEF InUseInodes
  <2>4. Numbers' = Numbers \cup {n} /\ n \in 1 .. RESERVED_INODES
    BY <2>1, SetInodeIs DEF JOURNAL_INO, RESIZE_INO, ROOT_INO, RESERVED_INODES
  <2>5. pc \in Begun \ {"reserve"} /\ pc' \in {"journal_data", "resize_data", "dir_data"}
    BY <1>4 DEF CreateJournal, CreateResize, MakeRoot, BeginDirectory, Begun
  <2> QED BY <1>2, <2>3, <2>4, <2>5 DEF RoomInv, Roomy, Begun
<1>5. CASE /\ inode_bitmap' = inode_bitmap /\ Numbers' = Numbers
           /\ pc' \in Begun => pc \in Begun
           /\ pc = "failed" => pc' = "failed"
           /\ pc = "reserve" => pc' = "reserve" /\ first_free_inode' = first_free_inode
           /\ pc' = "reserve" => pc = "reserve"
  <2>1. InUseInodes' = InUseInodes
    BY <1>5 DEF InUseInodes
  <2> QED BY <1>2, <1>5, <2>1 DEF RoomInv, Roomy
<1>6. CASE \/ NoJournal \/ OutOfInodes \/ GatherRegion \/ LeaveDirectory \/ UpdateFree
           \/ UNCHANGED mkfsVars
  <2>1. /\ UNCHANGED <<inode_bitmap, first_free_inode>> /\ Numbers' = Numbers
        /\ pc' \in Begun => pc \in Begun
        /\ pc = "failed" => pc' = "failed"
        /\ pc = "reserve" => pc' = "reserve"
        /\ pc' = "reserve" => pc = "reserve"
    BY <1>6 DEF NoJournal, OutOfInodes, GatherRegion, LeaveDirectory, UpdateFree, mkfsVars, mkfsOnly,
                inodeVars, Numbers, Begun, Walking
  <2> QED BY <1>5, <2>1
<1>7. CASE FinishPlain \/ FinishXattrTooBig \/ FinishXattrBlock
  <2>1. DOMAIN inodes' = DOMAIN inodes
    <3>1. DOMAIN Patched = DOMAIN inodes
      BY DEF Patched
    <3>2. CASE FinishXattrBlock
      <4>1. PICK b : inodes' = WithAcl(Patched, b)
        BY <3>2 DEF FinishXattrBlock
      <4> QED BY <3>1, <4>1 DEF WithAcl
    <3> QED BY <1>7, <3>1, <3>2 DEF FinishPlain, FinishXattrTooBig
  <2>2. inode_bitmap' = inode_bitmap /\ pc = "finish" /\ pc' \in {"tree", "failed"}
    BY <1>7 DEF FinishPlain, FinishXattrTooBig, FinishXattrBlock, inodeVars
  <2> QED BY <1>5, <2>1, <2>2 DEF Numbers, Begun
<1>8. CASE AttachInInode \/ AttachWithLeaf \/ AttachWhole \/ WithoutBlocks
  <2>1. inode_bitmap' = inode_bitmap /\ pc \in DataCalls /\ current.inum \in Numbers
    BY <1>8 DEF AttachInInode, AttachWithLeaf, AttachWhole, WithoutBlocks, inodeVars, PlaceInv,
                KeepInInode, KeepWithLeaf, KeepWhole, OutOfSpace, InProgress
  <2>2. Numbers' = Numbers
    <3>1. CASE \E node : SetInode(current.inum, node)
      BY <2>1, <3>1, SetInodeIs
    <3>2. CASE inodes' = inodes
      BY <3>2 DEF Numbers
    <3>3. CASE AttachInInode \/ AttachWithLeaf
      BY <3>1, <3>2, <3>3 DEF AttachInInode, AttachWithLeaf, Attach, ExtentsDone
    <3>4. CASE AttachWhole
      BY <3>1, <3>4 DEF AttachWhole
    <3>5. CASE WithoutBlocks
      BY <2>1, <3>1, <3>2, <3>5 DEF WithoutBlocks, PlaceInv
    <3> QED BY <1>8, <3>3, <3>4, <3>5
  <2>3. pc' \in Begun => pc \in Begun
    BY <1>8, <2>1 DEF AttachInInode, AttachWithLeaf, Attach, ExtentsDone, AttachWhole, WithoutBlocks, Begun
  <2>4. pc' # "reserve"
    BY <1>8, <2>1 DEF AttachInInode, AttachWithLeaf, Attach, ExtentsDone, AttachWhole, WithoutBlocks, DataCalls
  <2> QED BY <1>5, <2>1, <2>2, <2>3, <2>4 DEF DataCalls
<1> QED BY <1>1, <1>3, <1>4, <1>6, <1>7, <1>8 DEF MkfsNext, MkfsStep

\* A directory walked stays one while its inode is kept.
LEMMA WalkersStay ==
  ASSUME NEW s, NEW use, NEW table, Walkers(s, use, table), NEW use2, NEW table2, use \subseteq use2,
         DOMAIN table \subseteq DOMAIN table2,
         \A k \in 1 .. Len(s) - 1 : table2[s[k].inum].acl = table[s[k].inum].acl
  PROVE  Walkers(s, use2, table2)
BY DEF Walkers, Walker

\* The entry in hand was a directory and is walked.
LEMMA WalkersPush ==
  ASSUME NEW A, NEW s \in Seq(A), NEW e \in A, NEW use, NEW table, Walkers(s, use, table),
         s # <<>> => InHand(e.inum, s, use, table),
         s = <<>> => e.inum = ROOT_INO /\ e.dir = RootDir
  PROVE  Walkers(<<e>> \o s, use, table)
<1> DEFINE t == <<e>> \o s
<1>1. /\ Len(t) = Len(s) + 1 /\ t[1] = e /\ t # <<>>
      /\ \A k \in 2 .. Len(s) + 1 : t[k] = s[k - 1]
  BY PushIs
<1> HIDE DEF t
<1>2. CASE s = <<>>
  <2>1. Len(t) = 1
    BY <1>1, <1>2
  <2> QED BY <1>1, <1>2, <2>1 DEF Walkers, t
<1>3. CASE s # <<>>
  <2>1. Len(s) \in Nat \ {0}
    BY <1>3, PopIs
  <2>2. InHand(e.inum, s, use, table)
    BY <1>3
  <2>3. \A k \in 1 .. Len(t) - 1 : k # 1 => k - 1 \in 1 .. Len(s) - 1 /\ t[k] = s[k - 1]
    BY <1>1, <2>1
  <2>4. ASSUME NEW k \in 1 .. Len(t) - 1 PROVE Walker(t[k].inum, use, table)
    BY <1>1, <2>2, <2>3 DEF Walkers, InHand
  <2>5. ASSUME NEW j \in 1 .. Len(t) - 1, NEW k \in 1 .. Len(t) - 1, j # k
        PROVE  t[j].inum # t[k].inum
    <3>1. CASE j = 1 \/ k = 1
      BY <1>1, <2>2, <2>3, <2>5, <3>1 DEF InHand
    <3>2. CASE j # 1 /\ k # 1
      <4>1. j - 1 # k - 1
        BY <2>5
      <4> QED BY <2>3, <3>2, <4>1 DEF Walkers
    <3> QED BY <3>1, <3>2
  <2>6. t[Len(t)] = s[Len(s)]
    BY <1>1, <2>1
  <2> QED BY <1>3, <2>4, <2>5, <2>6 DEF Walkers, t
<1> QED BY <1>2, <1>3

\* It goes on to its next entry.
LEMMA WalkersBump ==
  ASSUME NEW A, NEW s \in Seq(A), s # <<>>, NEW e \in A, NEW use, NEW table, Walkers(s, use, table),
         e.inum = Head(s).inum, e.dir = Head(s).dir
  PROVE  Walkers(<<e>> \o Tail(s), use, table)
<1> DEFINE t == <<e>> \o Tail(s)
<1>1. /\ Len(t) = Len(s) /\ t[1] = e /\ t # <<>>
      /\ \A k \in 2 .. Len(s) : t[k] = s[k]
  BY BumpIs
<1>2. Len(s) \in Nat \ {0} /\ Head(s) = s[1]
  BY PopIs
<1> HIDE DEF t
<1>3. \A k \in 1 .. Len(s) : t[k].inum = s[k].inum /\ t[k].dir = s[k].dir
  BY <1>1, <1>2
<1>4. Len(s) \in 1 .. Len(s) /\ \A k \in 1 .. Len(s) - 1 : k \in 1 .. Len(s)
  BY <1>2
<1> QED BY <1>1, <1>3, <1>4, SMTT(60) DEF Walkers, t

\* It is done, and the entry in hand of the one that has it.
LEMMA WalkersPop ==
  ASSUME NEW A, NEW s \in Seq(A), s # <<>>, NEW use, NEW table, Walkers(s, use, table)
  PROVE  /\ Walkers(Tail(s), use, table)
         /\ Len(s) # 1 => Tail(s) # <<>> /\ InHand(Head(s).inum, Tail(s), use, table)
         /\ Len(s) = 1 => Tail(s) = <<>>
<1> DEFINE t == Tail(s)
<1>1. /\ Len(t) = Len(s) - 1 /\ Len(s) \in Nat \ {0} /\ Head(s) = s[1]
      /\ \A k \in 1 .. Len(s) - 1 : t[k] = s[k + 1]
  BY PopIs
<1>9. t \in Seq(A)
  OBVIOUS
<1> HIDE DEF t
<1>2. t = <<>> <=> Len(t) = 0
  <2>1. Len(<<>>) = 0
    OBVIOUS
  <2>2. t # <<>> => Len(t) \in Nat \ {0}
    BY <1>9, PopIs
  <2>3. t = <<>> => Len(t) = Len(<<>>)
    OBVIOUS
  <2> QED BY <2>1, <2>2, <2>3
<1>3. \A k \in 1 .. Len(t) - 1 : k + 1 \in 1 .. Len(s) - 1 /\ t[k] = s[k + 1]
  BY <1>1
<1>4. Len(t) # 0 => t[Len(t)] = s[Len(s)]
  BY <1>1
<1>6. Walkers(t, use, table)
  <2>1. \A k \in 1 .. Len(t) - 1 : Walker(t[k].inum, use, table)
    BY <1>3 DEF Walkers
  <2>2. ASSUME NEW j \in 1 .. Len(t) - 1, NEW k \in 1 .. Len(t) - 1, j # k
        PROVE  t[j].inum # t[k].inum
    <3>1. j + 1 \in 1 .. Len(s) - 1 /\ k + 1 \in 1 .. Len(s) - 1 /\ t[j] = s[j + 1] /\ t[k] = s[k + 1]
      BY <1>3
    <3>2. j + 1 # k + 1
      BY <2>2
    <3> QED BY <3>1, <3>2 DEF Walkers
  <2>3. t # <<>> => t[Len(t)].inum = ROOT_INO /\ t[Len(t)].dir = RootDir
    BY <1>2, <1>4 DEF Walkers
  <2> QED BY <2>1, <2>2, <2>3 DEF Walkers
<1>7. ASSUME Len(s) # 1 PROVE t # <<>> /\ InHand(Head(s).inum, t, use, table)
  <2>1. 1 \in 1 .. Len(s) - 1 /\ \A k \in 1 .. Len(t) - 1 : 1 # k + 1
    BY <1>1, <1>7
  <2>2. Walker(Head(s).inum, use, table)
    BY <1>1, <2>1 DEF Walkers
  <2>3. \A k \in 1 .. Len(t) - 1 : t[k].inum # Head(s).inum
    BY <1>1, <1>3, <2>1 DEF Walkers
  <2> QED BY <1>1, <1>2, <1>7, <2>2, <2>3 DEF InHand
<1>8. Len(s) = 1 => t = <<>>
  BY <1>1, <1>2
<1> QED BY <1>6, <1>7, <1>8 DEF t

\* A new inode is none of those in use.
LEMMA WalkersMake ==
  ASSUME WalkersInv, InodesInv, PlaceInv, WalkInv, MakeRoot \/ MakeDirectory \/ MakeLeaf
  PROVE  WalkersInv'
<1>1. CASE MakeRoot
  <2>1. stack' = <<>> /\ current'.inum = ROOT_INO /\ current'.dir = RootDir /\ pc' = "dir_data"
    BY <1>1 DEF MakeRoot, BeginDirectory, Making, PlaceInv
  <2>2. Walkers(<<>>, InUseInodes', inodes')
    BY DEF Walkers
  <2> QED BY <2>1, <2>2 DEF WalkersInv
<1>2. CASE MakeDirectory \/ MakeLeaf
  <2>1. PICK n, node : AllocateInode(n) /\ SetInode(n, node) /\ current'.inum = n /\ node.acl = {}
    <3>1. CASE MakeDirectory
      <4>1. PICK n : AllocateInode(n) /\ BeginDirectory(Entry.dir, n)
        BY <3>1 DEF MakeDirectory
      <4>2. SetInode(n, Blank) /\ current'.inum = n /\ Blank.acl = {}
        BY <4>1 DEF BeginDirectory, Blank, Making
      <4> QED BY <4>1, <4>2
    <3>2. CASE MakeLeaf
      <4>1. PICK n, node : /\ AllocateInode(n) /\ SetInode(n, node) /\ current' = Making(n, "", Entry.blocks)
                           /\ node = [Blank EXCEPT !.type = Entry.type, !.links = 1]
        BY <3>2 DEF MakeLeaf
      <4>2. node.acl = {} /\ current'.inum = n
        BY <4>1 DEF Blank, Making
      <4> QED BY <4>1, <4>2
    <3> QED BY <1>2, <3>1, <3>2
  <2>2. InUseInodes' = InUseInodes \cup {n} /\ n \notin InUseInodes
    BY <2>1, FreshInode
  <2>3. /\ Numbers' = Numbers \cup {n} /\ inodes'[n].acl = {}
        /\ \A m \in Numbers : m # n => inodes'[m] = inodes[m]
    BY <2>1, SetInodeIs
  <2>4. stack' = stack /\ stack # <<>>
    BY <1>2 DEF MakeDirectory, MakeLeaf, BeginDirectory, Walking, WalkInv
  <2>5. \A k \in 1 .. Len(stack) - 1 : stack[k].inum # n /\ stack[k].inum \in Numbers
    BY <2>2 DEF WalkersInv, Walkers, Walker, Numbers
  <2>6. Walkers(stack, InUseInodes', inodes')
    BY <2>2, <2>3, <2>5, WalkersStay DEF WalkersInv, Numbers
  <2>7. InHand(n, stack, InUseInodes', inodes')
    BY <2>2, <2>3, <2>5 DEF InHand, Walker, Numbers
  <2> QED BY <2>1, <2>4, <2>6, <2>7 DEF WalkersInv
<1> QED BY <1>1, <1>2

\* Blocks are given to the inode in hand; a directory is then walked.
LEMMA WalkersAttach ==
  ASSUME WalkersInv, PlaceInv, WalkInv,
         AttachInInode \/ AttachWithLeaf \/ AttachWhole \/ WithoutBlocks \/ GatherRegion
  PROVE  WalkersInv'
<1>1. /\ current' = current /\ pc \in DataCalls /\ inode_bitmap' = inode_bitmap
      /\ current.inum \in Numbers /\ inodes[current.inum].acl = {} /\ Made(inodes[current.inum])
  BY DEF AttachInInode, AttachWithLeaf, AttachWhole, WithoutBlocks, GatherRegion, inodeVars, PlaceInv,
         KeepInInode, KeepWithLeaf, KeepWhole, OutOfSpace, AllocatePartial, InProgress, Attach,
         ExtentsDone, mkfsOnly, NoBlocks
<1>2. InUseInodes' = InUseInodes
  BY <1>1 DEF InUseInodes
<1>3. \/ inodes' = inodes
      \/ \E node : SetInode(current.inum, node) /\ node.acl = {}
  <2>1. CASE AttachInInode \/ AttachWithLeaf
    <3>1. PICK l, leaf : Attach(WithExtents(inodes[current.inum], l, leaf))
      BY <2>1 DEF AttachInInode, AttachWithLeaf
    <3>2. Made(WithExtents(inodes[current.inum], l, leaf)) /\ WithExtents(inodes[current.inum], l, leaf).acl = {}
      BY <1>1, WithExtentsIs
    <3>3. CASE ExtentsDone(WithExtents(inodes[current.inum], l, leaf))
      BY <3>2, <3>3, DoneIs DEF SameBlocks
    <3> QED BY <3>1, <3>3 DEF Attach
  <2>2. CASE AttachWhole
    <3>1. PICK a, b : a = [Blank EXCEPT !.type = "file", !.links = 1, !.map = Held(list), !.blocks = ReservedGdt + 1]
                      /\ b = [inodes[current.inum] EXCEPT !.map = Held(list), !.blocks = 1]
      OBVIOUS
    <3>2. a.acl = {} /\ b.acl = {}
      BY <1>1, <3>1 DEF Made, Blank
    <3>3. SetInode(current.inum, a) \/ SetInode(current.inum, b)
      BY <2>2, <3>1 DEF AttachWhole
    <3> QED BY <3>2, <3>3
  <2>3. CASE WithoutBlocks
    <3>1. PICK a : a = [Blank EXCEPT !.type = "file", !.links = 1, !.map = {NoSuchBlock}, !.blocks = ReservedGdt + 1]
      OBVIOUS
    <3>2. a.acl = {}
      BY <3>1 DEF Blank
    <3>3. inodes' = inodes \/ (pc = "resize_data" /\ SetInode(RESIZE_INO, a))
      BY <2>3, <3>1 DEF WithoutBlocks
    <3> QED BY <3>2, <3>3 DEF PlaceInv
  <2>4. CASE GatherRegion
    BY <2>4 DEF GatherRegion, mkfsOnly
  <2> QED BY <2>1, <2>2, <2>3, <2>4
<1>4. Numbers' = Numbers /\ \A m \in Numbers : inodes'[m].acl = inodes[m].acl
  <2>1. CASE inodes' = inodes
    BY <2>1 DEF Numbers
  <2>2. ASSUME NEW node, SetInode(current.inum, node), node.acl = {}
        PROVE  Numbers' = Numbers /\ \A m \in Numbers : inodes'[m].acl = inodes[m].acl
    <3>1. /\ Numbers' = Numbers \cup {current.inum} /\ inodes'[current.inum] = node
          /\ \A m \in Numbers : m # current.inum => inodes'[m] = inodes[m]
      BY <2>2, SetInodeIs
    <3> QED BY <1>1, <2>2, <3>1
  <2> QED BY <1>3, <2>1, <2>2
<1>5. Walkers(stack, InUseInodes', inodes')
  <2>1. \A k \in 1 .. Len(stack) - 1 : stack[k].inum \in Numbers
    BY DEF WalkersInv, Walkers, Walker, Numbers
  <2> QED BY <1>2, <1>4, <2>1, WalkersStay DEF WalkersInv, Numbers
<1>6. ASSUME pc \in EntryCalls, stack # <<>> PROVE InHand(current.inum, stack, InUseInodes', inodes')
  BY <1>1, <1>2, <1>4, <1>6 DEF WalkersInv, InHand, Walker, Numbers
<1>7. CASE stack' = stack
  <2>2. pc' \in EntryCalls => pc \in EntryCalls \/ pc = "journal_data" \/ pc = "resize_data"
    BY <1>1 DEF DataCalls, EntryCalls
  <2>3. pc = "journal_data" \/ pc = "resize_data" => stack = <<>>
    BY DEF PlaceInv
  <2>4. pc' = "dir_data" => pc = "dir_data"
    BY DEF AttachInInode, AttachWithLeaf, AttachWhole, WithoutBlocks, GatherRegion, Attach, ExtentsDone, mkfsOnly
  <2> QED BY <1>1, <1>5, <1>6, <1>7, <2>2, <2>3, <2>4 DEF WalkersInv
<1>8. CASE stack' # stack
  <2> DEFINE e == [dir |-> current.dir, inum |-> current.inum, pos |-> 1]
  <2>1. /\ pc = "dir_data" /\ pc' = "tree" /\ stack' = <<e>> \o stack
    BY <1>8 DEF AttachInInode, AttachWithLeaf, AttachWhole, WithoutBlocks, GatherRegion, Attach, ExtentsDone, mkfsOnly
  <2>2. stack \in Seq(Activation) /\ e \in Activation
    BY <2>1 DEF WalkInv, Activation
  <2>3. e.inum = current.inum /\ e.dir = current.dir
    OBVIOUS
  <2> HIDE DEF e
  <2>4. /\ stack # <<>> => InHand(e.inum, stack, InUseInodes', inodes')
        /\ stack = <<>> => e.inum = ROOT_INO /\ e.dir = RootDir
    BY <1>6, <2>1, <2>3 DEF EntryCalls, WalkersInv
  <2>5. Walkers(stack', InUseInodes', inodes')
    BY <1>5, <2>1, <2>2, <2>4, WalkersPush
  <2> QED BY <2>1, <2>5 DEF WalkersInv, EntryCalls
<1> QED BY <1>7, <1>8

\* The entry in hand is done, with or without attributes.
LEMMA PatchedKeeps ==
  ASSUME NEW m \in Numbers, Made(inodes[m])
  PROVE  /\ DOMAIN Patched = Numbers /\ Made(Patched[m]) /\ SameBlocks(Patched[m], inodes[m])
         /\ Patched[m].type = inodes[m].type
BY DEF Patched, Made, Blank, SameBlocks, Numbers

\* An entry or a directory is done: the entries above stay apart.
LEMMA WalkersFinish ==
  ASSUME WalkersInv, PlaceInv, WalkInv,
         FinishPlain \/ FinishXattrTooBig \/ FinishXattrBlock \/ LeaveDirectory
  PROVE  WalkersInv'
<1>1. stack \in Seq(Activation) /\ stack # <<>>
  BY DEF WalkInv, FinishPlain, FinishXattrTooBig, FinishXattrBlock, LeaveDirectory
<1>2. InUseInodes' = InUseInodes
  BY DEF FinishPlain, FinishXattrTooBig, FinishXattrBlock, LeaveDirectory, inodeVars, InUseInodes
<1>3. \A k \in 1 .. Len(stack) - 1 : stack[k].inum \in Numbers
  BY DEF WalkersInv, Walkers, Walker, Numbers
<1>4. CASE LeaveDirectory
  <2>1. /\ inodes' = inodes /\ stack' = Tail(stack) /\ current'.inum = Head(stack).inum
        /\ pc' = IF Len(stack) = 1 THEN "update" ELSE "finish"
    BY <1>4 DEF LeaveDirectory, Making
  <2>2. /\ Walkers(Tail(stack), InUseInodes, inodes)
        /\ Len(stack) # 1 => InHand(Head(stack).inum, Tail(stack), InUseInodes, inodes)
    BY <1>1, WalkersPop DEF WalkersInv
  <2> QED BY <1>2, <2>1, <2>2 DEF WalkersInv, EntryCalls
<1>5. CASE FinishPlain \/ FinishXattrTooBig \/ FinishXattrBlock
  <2>1. pc = "finish" /\ current' = current /\ InHand(current.inum, stack, InUseInodes, inodes)
    BY <1>1, <1>5 DEF FinishPlain, FinishXattrTooBig, FinishXattrBlock, WalkersInv, EntryCalls
  <2>2. current.inum \in Numbers /\ \A k \in 1 .. Len(stack) - 1 : stack[k].inum # current.inum
    BY <2>1 DEF InHand, Walker, Numbers
  <2>3. DOMAIN Patched = Numbers /\ \A m \in Numbers : Made(Patched[m]) /\ Patched[m].acl = inodes[m].acl
    BY <2>2, PatchedKeeps DEF PlaceInv, SameBlocks
  <2>4. /\ DOMAIN inodes' = Numbers
        /\ \A m \in Numbers : m # current.inum => inodes'[m].acl = inodes[m].acl
    <3>1. CASE FinishXattrBlock
      <4>1. PICK b : inodes' = WithAcl(Patched, b)
        BY <3>1 DEF FinishXattrBlock
      <4> QED BY <2>3, <4>1 DEF WithAcl
    <3>2. CASE inodes' = Patched
      BY <2>3, <3>2
    <3> QED BY <1>5, <3>1, <3>2 DEF FinishPlain, FinishXattrTooBig
  <2>5. Walkers(stack, InUseInodes', inodes')
    BY <1>2, <1>3, <2>2, <2>4, WalkersStay DEF WalkersInv, Numbers
  <2>6. CASE NextEntry /\ pc' = "tree"
    <3>1. PICK e : e = [Head(stack) EXCEPT !.pos = @ + 1]
      OBVIOUS
    <3>2. Head(stack) \in Activation
      BY <1>1
    <3>3. e \in Activation /\ e.inum = Head(stack).inum /\ e.dir = Head(stack).dir
      BY <3>1, <3>2 DEF Activation
    <3>4. stack' = <<e>> \o Tail(stack)
      BY <2>6, <3>1 DEF NextEntry
    <3>5. Walkers(stack', InUseInodes', inodes')
      BY <1>1, <2>5, <3>3, <3>4, WalkersBump
    <3> QED BY <2>6, <3>5 DEF WalkersInv, EntryCalls
  <2>7. CASE stack' = stack /\ pc' = "failed"
    BY <2>5, <2>7 DEF WalkersInv, EntryCalls
  <2> QED BY <1>5, <2>6, <2>7 DEF FinishPlain, FinishXattrTooBig, FinishXattrBlock
<1> QED BY <1>4, <1>5

\* No directory is walked at first.
LEMMA WalkersInit == MkfsInit => WalkersInv
<1> SUFFICES ASSUME MkfsInit PROVE WalkersInv
  OBVIOUS
<1>1. stack = <<>> /\ pc = "reserve"
  BY DEF MkfsInit
<1>2. Walkers(<<>>, InUseInodes, inodes)
  BY DEF Walkers
<1> QED BY <1>1, <1>2 DEF WalkersInv, EntryCalls

\* Every step keeps the directories being walked apart.
LEMMA WalkersStep ==
  ASSUME WalkersInv, InodesInv, PlaceInv, PlaceInv', WalkInv, [MkfsNext]_mkfsVars
  PROVE  WalkersInv'
<1>1. CASE MakeRoot \/ MakeDirectory \/ MakeLeaf
  BY <1>1, WalkersMake
<1>2. CASE AttachInInode \/ AttachWithLeaf \/ AttachWhole \/ WithoutBlocks \/ GatherRegion
  BY <1>2, WalkersAttach
<1>3. CASE FinishPlain \/ FinishXattrTooBig \/ FinishXattrBlock \/ LeaveDirectory
  BY <1>3, WalkersFinish
<1>4. CASE ReserveFirstInodes \/ CreateJournal \/ NoJournal \/ CreateResize
  <2>1. stack' = <<>> /\ pc' \notin EntryCalls
    BY <1>4 DEF ReserveFirstInodes, CreateJournal, NoJournal, CreateResize, PlaceInv, EntryCalls
  <2>2. Walkers(<<>>, InUseInodes', inodes')
    BY DEF Walkers
  <2> QED BY <2>1, <2>2 DEF WalkersInv, EntryCalls
<1>5. CASE OutOfInodes \/ UpdateFree \/ UNCHANGED mkfsVars
  <2>1. UNCHANGED <<stack, inodes, current, inode_bitmap>> /\ (pc' = pc \/ pc' \in {"crashed", "failed", "done"})
    BY <1>5 DEF OutOfInodes, UpdateFree, mkfsVars, mkfsOnly, inodeVars
  <2>2. InUseInodes' = InUseInodes
    BY <2>1 DEF InUseInodes
  <2> QED BY <2>1, <2>2 DEF WalkersInv, EntryCalls
<1> QED BY <1>1, <1>2, <1>3, <1>4, <1>5 DEF MkfsNext, MkfsStep

-----------------------------------------------------------------------------
(* Region lists and extents.                                               *)

\* Regions of different groups.
Apart(l) == l \in Seq(Region) /\ \A j, k \in DOMAIN l : j # k => l[j].bg # l[k].bg

\* LenOf adds up the regions.
LEMMA LenOfIs ==
  ASSUME NEW l \in Seq(Region)
  PROVE  Sums(Len(l), [k \in 1 .. Len(l) |-> l[k].len], [k \in 0 .. Len(l) |-> LenOf(l, k)])
<1> DEFINE n == Len(l)
           a == [k \in 1 .. n |-> l[k].len]
<1>1. n \in Nat /\ \A k \in 1 .. n : l[k] \in Region /\ l[k].len \in Nat
  <2>1. n \in Nat /\ \A k \in 1 .. n : l[k] \in Region
    OBVIOUS
  <2>2. \A r \in Region : r.len \in Nat
    BY DEF Region
  <2> QED BY <2>1, <2>2
<1>2. a \in [1 .. n -> Nat] /\ \A k \in 1 .. n : a[k] = l[k].len
  BY <1>1
<1> HIDE DEF a
<1>3. PICK f : Sums(n, a, f)
  <2> HIDE DEF n
  <2> QED BY <1>1, <1>2, SumsExist
<1> DEFINE Eq(u) == u = [i \in 0 .. n |-> IF i = 0 THEN 0 ELSE u[i - 1] + l[i].len]
           to == CHOOSE u : Eq(u)
<1>4. Eq(f)
  <2>1. f \in [0 .. n -> Nat] /\ f[0] = 0 /\ \A k \in 1 .. n : f[k] = f[k - 1] + l[k].len
    BY <1>2, <1>3 DEF Sums
  <2>2. \A k \in 0 .. n : f[k] = IF k = 0 THEN 0 ELSE f[k - 1] + l[k].len
    BY <1>1, <2>1
  <2>3. f = [k \in 0 .. n |-> f[k]]
    BY <2>1
  <2> QED BY <2>2, <2>3
<1>5. Eq(to)
  <2> HIDE DEF Eq
  <2>1. \E u : Eq(u)
    BY <1>4
  <2> QED BY <2>1
<1>6. \A k : LenOf(l, k) = to[k]
  BY DEF LenOf
<1> HIDE DEF to
<1>7. to[0] = 0 /\ \A k \in 1 .. n : to[k] = to[k - 1] + a[k]
  BY <1>1, <1>2, <1>5
<1>8. \A k \in 0 .. n : to[k] = f[k]
  <2> HIDE DEF n, Eq
  <2> QED BY <1>1, <1>3, <1>7, SumsUnique
<1>9. f = [k \in 0 .. n |-> LenOf(l, k)]
  <2>1. f = [k \in 0 .. n |-> f[k]]
    BY <1>3 DEF Sums
  <2> QED BY <1>6, <1>8, <2>1
<1> QED BY <1>3, <1>9 DEF a

\* The blocks of a region are as many as it is long.
LEMMA BlocksAre ==
  ASSUME NEW r \in Region
  PROVE  IsFiniteSet(Blocks(r)) /\ Cardinality(Blocks(r)) = r.len
<1>1. PICK a \in Nat, b \in Nat \ {0} : a = r.start /\ b = r.len
  BY DEF Region
<1> DEFINE I == a .. a + b - 1
<1>2. IsFiniteSet(I) /\ Cardinality(I) = b
  <2>1. a \in Int /\ a + b - 1 \in Int /\ ~(a > a + b - 1) /\ (a + b - 1) - a + 1 = b
    BY <1>1
  <2>2. PICK c \in Int : c = a + b - 1
    BY <2>1
  <2>3. IsFiniteSet(a .. c) /\ Cardinality(a .. c) = IF a > c THEN 0 ELSE c - a + 1
    BY <2>1, FS_Interval
  <2> QED BY <2>1, <2>2, <2>3
<1>3. IsFiniteSet({r.bg}) /\ Cardinality({r.bg}) = 1
  BY FS_Singleton
<1>4. IsFiniteSet({r.bg} \X I) /\ Cardinality({r.bg} \X I) = 1 * b
  <2> HIDE DEF I
  <2> QED BY <1>2, <1>3, FS_Product
<1> QED BY <1>1, <1>4 DEF Blocks

\* Blocks of regions of different groups are different.
LEMMA OtherGroup ==
  ASSUME NEW r, NEW s, r.bg # s.bg
  PROVE  Blocks(r) \cap Blocks(s) = {}
BY DEF Blocks

\* So a list holds as many blocks as its regions are long together.
LEMMA HeldCount ==
  ASSUME NEW l, Apart(l)
  PROVE  IsFiniteSet(Held(l)) /\ Cardinality(Held(l)) = LenOf(l, Len(l)) /\ LenOf(l, Len(l)) \in Nat
<1> DEFINE n == Len(l)
           a == [k \in 1 .. n |-> l[k].len]
           f == [k \in 0 .. n |-> LenOf(l, k)]
           S == [k \in 0 .. n |-> UNION {Blocks(l[j]) : j \in 1 .. k}]
           T == [k \in 1 .. n |-> Blocks(l[k])]
<1>1. l \in Seq(Region) /\ n \in Nat /\ DOMAIN l = 1 .. n /\ \A k \in 1 .. n : l[k] \in Region
  BY DEF Apart
<1>2. Sums(n, a, f)
  BY <1>1, LenOfIs
<1>3. Counts(n, a, S, T)
  <2>1. S[0] = {}
    BY <1>1
  <2>2. ASSUME NEW k \in 1 .. n
        PROVE  /\ S[k] = S[k - 1] \cup T[k] /\ S[k - 1] \cap T[k] = {}
               /\ IsFiniteSet(T[k]) /\ Cardinality(T[k]) = a[k]
    <3>1. PICK i \in 0 .. n : i = k - 1
      BY <1>1
    <3>2. S[k] = UNION {Blocks(l[j]) : j \in 1 .. k} /\ S[i] = UNION {Blocks(l[j]) : j \in 1 .. i} /\ T[k] = Blocks(l[k])
      BY <1>1, <3>1
    <3>3. \A j : j \in 1 .. k <=> j \in 1 .. i \/ j = k
      BY <1>1, <3>1
    <3>4. S[k] = S[i] \cup T[k]
      BY <3>2, <3>3
    <3>5. \A j \in 1 .. i : Blocks(l[j]) \cap Blocks(l[k]) = {}
      <4>1. \A j \in 1 .. i : j \in DOMAIN l /\ k \in DOMAIN l /\ j # k
        BY <1>1, <3>1
      <4>2. \A j \in 1 .. i : l[j].bg # l[k].bg
        BY <4>1 DEF Apart
      <4> QED BY <4>2, OtherGroup
    <3>6. S[i] \cap T[k] = {}
      BY <3>2, <3>5
    <3>7. IsFiniteSet(T[k]) /\ Cardinality(T[k]) = a[k]
      BY <1>1, BlocksAre
    <3> HIDE DEF S, T, a
    <3> QED BY <3>1, <3>4, <3>6, <3>7
  <2> QED BY <2>1, <2>2 DEF Counts
<1>4. Held(l) = S[n] /\ f[n] = LenOf(l, n) /\ n \in 0 .. n
  BY <1>1 DEF Held
<1> HIDE DEF S, T, a, f, n
<1>5. IsFiniteSet(S[n]) /\ Cardinality(S[n]) = f[n]
  BY <1>1, <1>2, <1>3, <1>4, SumsCount
<1>6. f[n] \in Nat
  BY <1>2, <1>4 DEF Sums
<1> QED BY <1>4, <1>5, <1>6 DEF n

\* The extents of an inode are as ExtentsSound says.
Sound(node) ==
  /\ node.eh_entries = Len(node.extents)
  /\ \A k \in DOMAIN node.extents :
       node.extents[k].ee_block =
         IF k = 1 THEN 0 ELSE node.extents[k - 1].ee_block + node.extents[k - 1].ee_len
  /\ \A k, j \in DOMAIN node.extents :
       k # j => Blocks(node.extents[k].region) \cap Blocks(node.extents[j].region) = {}
  /\ node.extents # <<>> =>
       /\ node.extents[Len(node.extents)].ee_block + node.extents[Len(node.extents)].ee_len = node.size
       /\ node.blocks = Cardinality(DataBlocks(node) \cup node.leaf \cup node.acl)

\* An inode without blocks is sound.
LEMMA NoBlocksSound == ASSUME NEW node, NoBlocks(node) PROVE Sound(node)
<1>1. node.eh_entries = 0 /\ node.extents = <<>> /\ Len(<<>>) = 0 /\ DOMAIN <<>> = {}
  BY DEF NoBlocks
<1> QED BY <1>1 DEF Sound

\* So is one whose blocks are those of a sound one.
LEMMA SameSound ==
  ASSUME NEW node, NEW old, SameBlocks(node, old), Sound(old)
  PROVE  Sound(node)
<1>1. DataBlocks(node) = DataBlocks(old)
  BY DEF SameBlocks, DataBlocks, Regions
<1> QED BY <1>1 DEF SameBlocks, Sound

\* The extents of a list.
LEMMA ExtentsAre ==
  ASSUME NEW l \in Seq(Region)
  PROVE  /\ Len(Extents(l)) = Len(l) /\ DOMAIN Extents(l) = 1 .. Len(l)
         /\ \A k \in 1 .. Len(l) :
              /\ Extents(l)[k].region = l[k] /\ Extents(l)[k].ee_len = U16(l[k].len)
              /\ Extents(l)[k].ee_block = LenOf(l, k - 1)
<1>1. DOMAIN l = 1 .. Len(l) /\ Len(l) \in Nat
  OBVIOUS
<1>2. PICK n \in Nat : n = Len(l)
  BY <1>1
<1>3. Extents(l) = [k \in 1 .. n |->
                     [ee_block |-> LenOf(l, k - 1), ee_len |-> U16(l[k].len), region |-> l[k]]]
  BY <1>1, <1>2 DEF Extents
<1> QED BY <1>2, <1>3

\* The extents of a list hold the blocks of the list.
LEMMA ExtentsHold ==
  ASSUME NEW node, NEW l \in Seq(Region), node.extents = Extents(l)
  PROVE  DataBlocks(node) = Held(l)
<1>1. DOMAIN node.extents = DOMAIN l /\ \A k \in DOMAIN l : node.extents[k].region = l[k]
  <2>1. DOMAIN l = 1 .. Len(l)
    OBVIOUS
  <2> QED BY <2>1, ExtentsAre
<1> QED BY <1>1 DEF DataBlocks, Regions, Held

\* Regions whose lengths the 16 bits of ee_len hold.
Narrow(l) == \A k \in DOMAIN l : l[k].len < 65536

\* The extents of a list of regions of different groups, with a leaf block
\* elsewhere, are sound for a file as long as the regions together.
LEMMA AttachedSound ==
  ASSUME NEW l, Apart(l), Narrow(l), NEW node, node.extents = Extents(l), node.eh_entries = Len(l),
         IsFiniteSet(node.leaf), node.leaf \cap Held(l) = {}, node.acl = {},
         node.size = LenOf(l, Len(l)), node.blocks = LenOf(l, Len(l)) + Cardinality(node.leaf)
  PROVE  Sound(node)
<1>1. l \in Seq(Region) /\ Len(l) \in Nat /\ DOMAIN l = 1 .. Len(l)
  BY DEF Apart
<1>2. /\ Len(node.extents) = Len(l) /\ DOMAIN node.extents = 1 .. Len(l)
      /\ \A k \in 1 .. Len(l) :
           /\ node.extents[k].region = l[k] /\ node.extents[k].ee_len = l[k].len
           /\ node.extents[k].ee_block = LenOf(l, k - 1)
  <2>1. \A k \in 1 .. Len(l) : U16(l[k].len) = l[k].len
    <3> SUFFICES ASSUME NEW k \in 1 .. Len(l) PROVE U16(l[k].len) = l[k].len
      OBVIOUS
    <3>0. PICK r \in Region : r = l[k]
      BY <1>1
    <3>1. PICK n \in Nat : n = l[k].len
      BY <3>0 DEF Region
    <3>2. n < 65536
      BY <1>1, <3>1 DEF Narrow
    <3> QED BY <3>1, <3>2 DEF U16
  <2> QED BY <1>1, <2>1, ExtentsAre
<1>6. ASSUME NEW j \in 1 .. Len(l) PROVE LenOf(l, j) = LenOf(l, j - 1) + l[j].len
  <2> DEFINE a == [k \in 1 .. Len(l) |-> l[k].len]
             f == [k \in 0 .. Len(l) |-> LenOf(l, k)]
  <2>1. f[0] = 0 /\ \A k \in 1 .. Len(l) : f[k] = f[k - 1] + a[k]
    BY <1>1, LenOfIs DEF Sums
  <2>2. f[j] = f[j - 1] + a[j] /\ f[j] = LenOf(l, j) /\ f[j - 1] = LenOf(l, j - 1) /\ a[j] = l[j].len
    BY <1>1, <2>1, SMTT(60)
  <2> HIDE DEF f, a
  <2> QED BY <2>2
<1>3. ASSUME NEW k \in 1 .. Len(l)
      PROVE  node.extents[k].ee_block =
               IF k = 1 THEN 0 ELSE node.extents[k - 1].ee_block + node.extents[k - 1].ee_len
  <2> DEFINE a == [j \in 1 .. Len(l) |-> l[j].len]
             f == [j \in 0 .. Len(l) |-> LenOf(l, j)]
  <2>1. f[0] = 0 /\ \A j \in 1 .. Len(l) : f[j] = f[j - 1] + a[j]
    BY <1>1, LenOfIs DEF Sums
  <2>2. CASE k = 1
    <3>1. LenOf(l, 0) = 0
      BY <1>1, <2>1
    <3> QED BY <1>2, <2>2, <3>1
  <2>3. CASE k # 1
    <3>1. PICK j \in 1 .. Len(l) : j = k - 1
      BY <1>1, <2>3
    <3> QED BY <1>2, <1>6, <2>3, <3>1
  <2> QED BY <2>2, <2>3
<1>4. ASSUME NEW k \in 1 .. Len(l), NEW j \in 1 .. Len(l), k # j
      PROVE  Blocks(node.extents[k].region) \cap Blocks(node.extents[j].region) = {}
  <2>1. l[k].bg # l[j].bg
    BY <1>1, <1>4 DEF Apart
  <2> QED BY <1>2, <2>1, OtherGroup
<1>5. node.blocks = Cardinality(DataBlocks(node) \cup node.leaf \cup node.acl)
  <2>1. DataBlocks(node) = Held(l)
    BY <1>1, ExtentsHold
  <2>2. IsFiniteSet(Held(l)) /\ Cardinality(Held(l)) = LenOf(l, Len(l)) /\ LenOf(l, Len(l)) \in Nat
    BY HeldCount
  <2>3. Cardinality(Held(l) \cup node.leaf) = Cardinality(Held(l)) + Cardinality(node.leaf) - Cardinality(Held(l) \cap node.leaf)
    BY <2>2, FS_Union
  <2>4. Cardinality(Held(l) \cap node.leaf) = 0
    <3>1. Held(l) \cap node.leaf = {}
      OBVIOUS
    <3> QED BY <3>1, FS_EmptySet
  <2>5. Cardinality(node.leaf) \in Nat
    BY FS_CardinalityType
  <2>6. DataBlocks(node) \cup node.leaf \cup node.acl = Held(l) \cup node.leaf
    BY <2>1
  <2>7. node.blocks = Cardinality(Held(l) \cup node.leaf)
    BY <2>2, <2>3, <2>4, <2>5
  <2> QED BY <2>6, <2>7
<1>7. node.extents # <<>> =>
        node.extents[Len(node.extents)].ee_block + node.extents[Len(node.extents)].ee_len = node.size
  <2> SUFFICES ASSUME node.extents # <<>>
               PROVE  node.extents[Len(l)].ee_block + node.extents[Len(l)].ee_len = node.size
    BY <1>2
  <2>1. Len(l) \in 1 .. Len(l)
    <3>1. l # <<>>
      <4> SUFFICES ASSUME l = <<>> PROVE node.extents = <<>>
        OBVIOUS
      <4> QED BY DEF Extents
    <3> QED BY <1>1, <3>1
  <2> QED BY <1>2, <1>6, <2>1
<1> QED BY <1>2, <1>3, <1>4, <1>5, <1>7 DEF Sound

-----------------------------------------------------------------------------
(* What the inode in hand is given.                                        *)

\* The regions of a request are of different groups, and none is owned yet.
LEMMA ListIs ==
  ASSUME AllocatorInv
  PROVE  /\ Apart(list) /\ Narrow(list) /\ Held(list) \subseteq Block /\ Held(list) \cap kept = {}
         /\ kept \subseteq Block /\ NoSuchBlock \notin Block
<1>1. list \in Seq(Region) /\ \A j, k \in DOMAIN list : j # k => list[j].bg # list[k].bg
  BY DEF AllocatorInv, AllocatorTypeOK, ListInv
<1>2. Held(list) \cap kept = {} /\ kept \subseteq Block
  BY DEF AllocatorInv, BlocksAccountedFor, AllocatorTypeOK
<1>3. NoSuchBlock \notin Block
  BY NumGroupsAssumption DEF NoSuchBlock, Block, Groups
<1>4. Narrow(list)
  <2> SUFFICES ASSUME NEW k \in DOMAIN list PROVE list[k].len < 65536
    BY DEF Narrow
  <2>1. list[k] \in Region /\ RegionInside(list[k])
    BY <1>1 DEF AllocatorInv, ListInv
  <2> QED BY <2>1, GeometryAssumption, WidthAssumption DEF RegionInside, Region
<1> QED BY <1>1, <1>2, <1>3, <1>4, HeldIsData DEF Apart

\* A region shortened by a block, at its end or at its start, leaves the
\* groups of a list as they are.
ShortBy(l, s, m) ==
  /\ s \in Region /\ s.bg = l[1].bg /\ s.len <= l[1].len /\ Blocks(s) \subseteq Blocks(l[1])
  /\ m = [l EXCEPT ![1] = s]

\* What is left of the list: the blocks that went are those of the region.
LEMMA Shortened ==
  ASSUME NEW l, Apart(l), l # <<>>, NEW s, NEW m, ShortBy(l, s, m)
  PROVE  /\ Apart(m) /\ Len(m) = Len(l) /\ Held(m) = Held(l) \ (Blocks(l[1]) \ Blocks(s))
         /\ Narrow(l) => Narrow(m)
<1> DEFINE rest == Held(Tail(l))
<1>1. /\ l \in Seq(Region) /\ DOMAIN l = 1 .. Len(l) /\ Len(l) \in Nat \ {0} /\ 1 \in DOMAIN l
  BY DEF Apart
<1>2. /\ m \in Seq(Region) /\ m # <<>> /\ m[1] = s /\ Tail(m) = Tail(l) /\ Len(m) = Len(l)
      /\ DOMAIN m = DOMAIN l /\ \A k \in DOMAIN l : k # 1 => m[k] = l[k]
  BY <1>1 DEF ShortBy
<1>3. \A k \in DOMAIN l : m[k].bg = l[k].bg
  BY <1>1, <1>2 DEF ShortBy
<1>4. Apart(m)
  BY <1>2, <1>3 DEF Apart
<1>5. Held(l) = Blocks(l[1]) \cup rest /\ Held(m) = Blocks(s) \cup rest
  BY <1>1, <1>2, HeldTail
<1>6. Blocks(l[1]) \cap rest = {}
  <2> SUFFICES ASSUME NEW c \in Blocks(l[1]), c \in rest PROVE FALSE
    OBVIOUS
  <2>1. PICK k \in DOMAIN Tail(l) : c \in Blocks(Tail(l)[k])
    BY HeldMember
  <2>2. k + 1 \in DOMAIN l /\ k + 1 # 1 /\ Tail(l)[k] = l[k + 1]
    BY <1>1
  <2>3. l[k + 1].bg # l[1].bg
    BY <1>1, <2>2 DEF Apart
  <2>4. Blocks(l[k + 1]) \cap Blocks(l[1]) = {}
    BY <2>3, OtherGroup
  <2> QED BY <2>1, <2>2, <2>4
<1>7. Held(m) = Held(l) \ (Blocks(l[1]) \ Blocks(s))
  BY <1>5, <1>6 DEF ShortBy
<1>8. ASSUME Narrow(l) PROVE Narrow(m)
  <2> SUFFICES ASSUME NEW k \in DOMAIN m PROVE m[k].len < 65536
    BY DEF Narrow
  <2>1. CASE k = 1
    <3>0. PICK r \in Region : r = l[1] /\ s \in Region
      BY <1>1 DEF ShortBy
    <3>1. PICK i \in Nat, j \in Nat : i = s.len /\ j = l[1].len
      BY <3>0 DEF Region
    <3>2. j < 65536 /\ i <= j
      BY <1>1, <1>8, <3>1 DEF Narrow, ShortBy
    <3> QED BY <1>2, <2>1, <3>1, <3>2
  <2>2. CASE k # 1
    BY <1>2, <1>8, <2>2 DEF Narrow
  <2> QED BY <2>1, <2>2
<1> QED BY <1>2, <1>4, <1>7, <1>8

\* A list that holds a block less.
LEMMA OneLess ==
  ASSUME NEW l, Apart(l), NEW m, Apart(m), NEW b \in Held(l), Held(m) = Held(l) \ {b}
  PROVE  LenOf(m, Len(m)) = Cardinality(Held(l)) - 1
<1>1. IsFiniteSet(Held(l)) /\ Cardinality(Held(m)) = LenOf(m, Len(m))
  BY HeldCount
<1> QED BY <1>1, FS_RemoveElement

\* An inode with extents whose blocks were not owned before.
Attached(node, old, new) ==
  /\ Sound(node) /\ DataBlocks(node) \cup node.leaf \subseteq new
  /\ BlocksOf(node) \ {NoSuchBlock} = new \ old /\ old \subseteq new

\* In the inode: the last block of the first region goes back.
LEMMA InInodeIs ==
  ASSUME AllocatorInv, KeepInInode, alloc_pc' = "idle"
  PROVE  /\ Apart(Reduced(list)) /\ Narrow(Reduced(list)) /\ Len(Reduced(list)) = Len(list)
         /\ LenOf(Reduced(list), Len(Reduced(list))) = Cardinality(Held(list)) - 1
         /\ kept' = kept \cup Held(Reduced(list)) /\ Held(Reduced(list)) \subseteq Held(list)
<1>1. Apart(list) /\ list # <<>>
  BY ListIs DEF KeepInInode, Found
<1>2. PICK r \in Region : r = list[1]
  BY <1>1 DEF Apart
<1>3. Reduced(list) # <<>> /\ kept' = kept \cup Held(Reduced(list))
  BY DEF KeepInInode
<1>4. r.len > 1
  <2> SUFFICES ASSUME ~(r.len > 1) PROVE FALSE
    OBVIOUS
  <2>1. Reduced(list) = SubSeq(list, 1, 0)
    BY <1>2 DEF Reduced, LastOf
  <2>2. SubSeq(list, 1, 0) = <<>>
    BY <1>1 DEF Apart
  <2> QED BY <1>3, <2>1, <2>2
<1>5. PICK a \in Groups, b \in Nat, c \in Nat \ {0, 1} : r = [bg |-> a, start |-> b, len |-> c]
  BY <1>2, <1>4 DEF Region
<1> DEFINE s == [bg |-> a, start |-> b, len |-> c - 1]
<1>6. s \in Region /\ s.bg = r.bg /\ s = [r EXCEPT !.len = @ - 1]
  BY <1>5 DEF Region
<1>7. /\ Blocks(s) \subseteq Blocks(r) /\ s.len <= r.len
      /\ Blocks(r) \ Blocks(s) = {<<a, b + c - 1>>} /\ <<a, b + c - 1>> \in Blocks(r)
  <2>1. Blocks(r) = {a} \X (b .. b + c - 1) /\ Blocks(s) = {a} \X (b .. b + (c - 1) - 1)
    BY <1>5 DEF Blocks
  <2>2. (b .. b + c - 1) \ (b .. b + (c - 1) - 1) = {b + c - 1}
    OBVIOUS
  <2>3. s.len <= r.len /\ b + c - 1 \in b .. b + c - 1 /\ b .. b + (c - 1) - 1 \subseteq b .. b + c - 1
    BY <1>5
  <2> QED BY <2>1, <2>2, <2>3
<1> HIDE DEF s
<1>8. Reduced(list) = [list EXCEPT ![1] = s]
  BY <1>2, <1>4, <1>6 DEF Reduced, LastOf
<1>9. /\ Apart(Reduced(list)) /\ Len(Reduced(list)) = Len(list) /\ Narrow(Reduced(list))
      /\ Held(Reduced(list)) = Held(list) \ (Blocks(r) \ Blocks(s))
  <2>1. ShortBy(list, s, Reduced(list))
    BY <1>2, <1>6, <1>7, <1>8 DEF ShortBy
  <2> QED BY <1>1, <1>2, <2>1, ListIs, Shortened
<1>10. Blocks(r) \subseteq Held(list)
  BY <1>1, <1>2, HeldTail DEF Apart
<1>11. LenOf(Reduced(list), Len(Reduced(list))) = Cardinality(Held(list)) - 1
  <2>1. PICK m : m = Reduced(list)
    OBVIOUS
  <2>2. PICK e : e = <<a, b + c - 1>>
    OBVIOUS
  <2>3. Apart(m) /\ e \in Held(list) /\ Held(m) = Held(list) \ {e}
    BY <1>7, <1>9, <1>10, <2>1, <2>2
  <2> QED BY <1>1, <2>1, <2>3, OneLess
<1> QED BY <1>3, <1>9, <1>11

\* With a leaf: the first block of the first region becomes the leaf.
LEMMA WithLeafIs ==
  ASSUME AllocatorInv, KeepWithLeaf, alloc_pc' = "idle", NEW l, l = ReservedOob(list).list,
         NEW leaf, leaf = Held(ReservedOob(list).oob)
  PROVE  /\ Apart(l) /\ Narrow(l) /\ Len(l) = Len(list) /\ kept' = kept \cup Held(list)
         /\ LenOf(l, Len(l)) = Cardinality(Held(list)) - 1 /\ Cardinality(leaf) = 1
         /\ IsFiniteSet(leaf) /\ leaf \cap Held(l) = {} /\ Held(l) \cup leaf = Held(list)
<1>1. Apart(list) /\ list # <<>> /\ list \in Seq(Region) /\ Len(list) > 3 /\ Len(list) \in Nat
  BY ListIs DEF KeepWithLeaf, Found, Apart
<1>2. PICK r \in Region : r = list[1]
  BY <1>1
<1>3. Len(ReservedOob(list).oob) = 1 /\ kept' = kept \cup Held(list)
  BY DEF KeepWithLeaf
<1>4. r.len > 1
  <2> SUFFICES ASSUME ~(r.len > 1) PROVE FALSE
    OBVIOUS
  <2>1. ReservedOob(list).oob = Tail(list)
    BY <1>2 DEF ReservedOob
  <2>2. Len(Tail(list)) = Len(list) - 1
    BY <1>1
  <2> QED BY <1>1, <1>3, <2>1, <2>2
<1>5. PICK a \in Groups, b \in Nat, c \in Nat \ {0, 1} : r = [bg |-> a, start |-> b, len |-> c]
  BY <1>2, <1>4 DEF Region
<1> DEFINE s == [bg |-> a, start |-> b + 1, len |-> c - 1]
           t == [bg |-> a, start |-> b, len |-> 1]
<1>6. s \in Region /\ s.bg = r.bg /\ t \in Region /\ t = [r EXCEPT !.len = 1]
  BY <1>5 DEF Region
<1>7. /\ Blocks(s) \subseteq Blocks(r) /\ Blocks(r) \ Blocks(s) = Blocks(t) /\ s.len <= r.len
      /\ t.len = 1 /\ Blocks(t) = {<<a, b>>}
  <2>1. Blocks(r) = {a} \X (b .. b + c - 1) /\ Blocks(t) = {a} \X (b .. b)
        /\ Blocks(s) = {a} \X (b + 1 .. b + c - 1)
    BY <1>5 DEF Blocks
  <2>2. s.len <= r.len /\ b .. b = {b}
    BY <1>5
  <2> QED BY <2>1, <2>2
<1>8. l = [list EXCEPT ![1] = s] /\ ReservedOob(list).oob = <<t>>
  <2>1. ReservedOob(list) = [list |-> [list EXCEPT ![1].start = @ + 1, ![1].len = @ - 1],
                             oob |-> <<[list[1] EXCEPT !.len = 1]>>]
    BY <1>2, <1>4 DEF ReservedOob
  <2>2. l = [list EXCEPT ![1].start = @ + 1, ![1].len = @ - 1] /\ ReservedOob(list).oob = <<[list[1] EXCEPT !.len = 1]>>
    BY <2>1
  <2>3. 1 \in DOMAIN list
    BY <1>1
  <2>4. [list EXCEPT ![1].start = @ + 1, ![1].len = @ - 1] = [list EXCEPT ![1] = s]
    <3>1. PICK x : x = [list EXCEPT ![1].start = @ + 1, ![1].len = @ - 1]
      OBVIOUS
    <3>2. DOMAIN x = DOMAIN list /\ \A k \in DOMAIN list : k # 1 => x[k] = list[k]
      BY <3>1
    <3>3. x[1] = [r EXCEPT !.start = @ + 1, !.len = @ - 1]
      BY <1>2, <2>3, <3>1
    <3>4. x[1] = s
      BY <1>5, <3>3
    <3>5. x = [k \in DOMAIN list |-> x[k]]
      BY <3>1
    <3> HIDE DEF s
    <3> QED BY <3>1, <3>2, <3>4, <3>5
  <2> QED BY <1>2, <1>6, <2>2, <2>4
<1> HIDE DEF s, t
<1>9. Apart(l) /\ Narrow(l) /\ Len(l) = Len(list) /\ Held(l) = Held(list) \ Blocks(t)
  <2>1. ShortBy(list, s, l)
    BY <1>2, <1>6, <1>7, <1>8 DEF ShortBy
  <2>2. Held(l) = Held(list) \ (Blocks(r) \ Blocks(s)) /\ Apart(l) /\ Narrow(l) /\ Len(l) = Len(list)
    BY <1>1, <1>2, <2>1, ListIs, Shortened
  <2> QED BY <1>7, <2>2
<1>10. leaf = Blocks(t)
  <2>1. Held(<<t>>) = Blocks(t) \cup Held(<<>>)
    <3>1. <<t>> \in Seq(Region) /\ <<t>> # <<>> /\ <<t>>[1] = t /\ Tail(<<t>>) = <<>>
      BY <1>6
    <3> QED BY <3>1, HeldTail
  <2> QED BY <1>8, <2>1, HeldEmpty
<1>11. Blocks(t) \subseteq Held(list)
  <2>1. Blocks(r) \subseteq Held(list)
    BY <1>1, <1>2, HeldTail
  <2> QED BY <1>7, <2>1
<1>12. LenOf(l, Len(l)) = Cardinality(Held(list)) - 1
  <2>1. PICK e : e = <<a, b>>
    OBVIOUS
  <2>2. e \in Held(list) /\ Held(l) = Held(list) \ {e}
    BY <1>7, <1>9, <1>11, <2>1
  <2> QED BY <1>1, <1>9, <2>2, OneLess
<1>13. IsFiniteSet(leaf) /\ Cardinality(leaf) = 1
  BY <1>6, <1>7, <1>10, BlocksAre
<1> QED BY <1>3, <1>9, <1>10, <1>11, <1>12, <1>13

-----------------------------------------------------------------------------
(* How much was asked for.                                                 *)

\* A request for the data of an inode is for one block more than the inode is
\* made with, and what was found and what is still needed add up to it.
RequestInv ==
  alloc_pc = "extents" =>
    current.blocks \in Nat /\ need + Cardinality(Held(list)) = current.blocks + 1

LEMMA RequestInit == MkfsInit => RequestInv
BY DEF MkfsInit, AllocatorInit, RequestInv

\* An inode is made, and blocks are asked for.
LEMMA RequestBegins ==
  ASSUME WalkInv, PlaceInv,
         CreateJournal \/ CreateResize \/ MakeRoot \/ MakeDirectory \/ MakeLeaf
  PROVE  RequestInv'
<1>1. ASSUME NEW n \in Nat, NEW inum, NEW d, RequestExtents(n), current' = Making(inum, d, n)
      PROVE  RequestInv'
  <2>1. need' = n + 1 /\ Held(list') = {} /\ current'.blocks = n
    BY <1>1, HeldEmpty DEF RequestExtents, AllocateBlocks, Making
  <2> QED BY <2>1, FS_EmptySet DEF RequestInv
<1>2. ASSUME NEW d \in DOMAIN tree PROVE tree[d].blocks \in Nat
  BY RequestAssumption, DemandAssumption DEF WalkInv
<1>3. CASE CreateJournal
  <2>1. PICK n \in JournalBlocks \ {0} : RequestExtents(n) /\ current' = Making(JOURNAL_INO, "", n)
    BY <1>3 DEF CreateJournal
  <2> QED BY <1>1, <2>1, MkfsAssumption
<1>4. CASE CreateResize
  BY <1>4 DEF CreateResize, AllocateBlocks, RequestInv
<1>5. CASE MakeRoot
  <2>1. RootDir \in DOMAIN tree
    BY MkfsAssumption DEF WalkInv
  <2>2. RequestExtents(tree[RootDir].blocks) /\ current' = Making(ROOT_INO, RootDir, tree[RootDir].blocks)
    BY <1>5 DEF MakeRoot, BeginDirectory
  <2> QED BY <1>1, <1>2, <2>1, <2>2
<1>6. CASE MakeDirectory
  <2>1. PICK inum : BeginDirectory(Entry.dir, inum)
    BY <1>6 DEF MakeDirectory
  <2>2. Entry.dir \in DOMAIN tree
    BY <1>6, EntryIsKnown DEF MakeDirectory
  <2>3. /\ RequestExtents(tree[Entry.dir].blocks)
        /\ current' = Making(inum, Entry.dir, tree[Entry.dir].blocks)
    BY <2>1 DEF BeginDirectory
  <2> QED BY <1>1, <1>2, <2>2, <2>3
<1>7. CASE MakeLeaf
  <2>1. PICK inum : current' = Making(inum, "", Entry.blocks)
    BY <1>7 DEF MakeLeaf
  <2>2. Entry.blocks \in Nat
    <3>1. Walking
      BY <1>7 DEF MakeLeaf
    <3>2. Entry.blocks \in Requests \cup {0}
      BY <3>1, EntryIsKnown
    <3>3. \A n \in Requests \cup {0} : n \in Nat
      BY RequestAssumption
    <3> QED BY <3>2, <3>3, Zenon
  <2>3. alloc_pc = "idle" /\ \/ UNCHANGED allocVars
                             \/ AllocateBlocks(1, "whole")
                             \/ RequestExtents(Entry.blocks)
    BY <1>7 DEF MakeLeaf, Walking, PlaceInv, DataCalls
  <2>4. CASE RequestExtents(Entry.blocks)
    BY <1>1, <2>1, <2>2, <2>4
  <2>5. CASE UNCHANGED allocVars \/ AllocateBlocks(1, "whole")
    BY <2>3, <2>5 DEF allocVars, AllocateBlocks, RequestInv
  <2> QED BY <2>3, <2>4, <2>5
<1> QED BY <1>3, <1>4, <1>5, <1>6, <1>7

\* A region arrives: the blocks it has are no longer needed.
LEMMA RequestGathers ==
  ASSUME RequestInv, AllocatorInv, AllocatorInv', GatherRegion
  PROVE  RequestInv'
<1> SUFFICES ASSUME alloc_pc' = "extents" PROVE RequestInv'
  BY DEF RequestInv
<1>1. PICK g \in Groups :
        /\ IsBestFit(free_blocks, need, g)
        /\ list' = Append(list, [bg |-> g, start |-> first_free_block[g], len |-> AllocateLen(g)])
        /\ need' = need - AllocateLen(g)
        /\ alloc_pc' = IF Clash(g, AllocateLen(g)) THEN "clash" ELSE alloc_pc
  BY DEF GatherRegion, AllocatePartial
<1>2. PICK n, r : n = AllocateLen(g) /\ r = [bg |-> g, start |-> first_free_block[g], len |-> n]
  OBVIOUS
<1>3. /\ list' = Append(list, r) /\ need' = need - n /\ alloc_pc = "extents" /\ current' = current
      /\ r.bg = g /\ r.len = n
  BY <1>1, <1>2 DEF GatherRegion, mkfsOnly
<1>4. need \in Nat /\ list \in Seq(Region) /\ free_blocks \in [Groups -> 0 .. BlocksPerGroup]
      /\ first_free_block \in [Groups -> 0 .. BlocksPerGroup] /\ BlocksPerGroup \in Nat
  BY GeometryAssumption DEF AllocatorInv, AllocatorTypeOK
<1>5. n \in Nat \ {0} /\ r \in Region
  BY <1>1, <1>2, <1>4 DEF GatherRegion, AllocatePartial, IsBestFit, AllocateLen, Region
<1>6. Held(list') = Held(list) \cup Blocks(r)
  BY <1>3, <1>4, <1>5, HeldAppend
<1>7. Held(list) \cap Blocks(r) = {}
  <2>1. /\ DOMAIN list' = DOMAIN list \cup {Len(list) + 1} /\ list'[Len(list) + 1] = r
        /\ \A k \in DOMAIN list : list'[k] = list[k] /\ k # Len(list) + 1
    BY <1>3, <1>4, <1>5
  <2>2. \A k \in DOMAIN list : list[k].bg # r.bg
    BY <2>1 DEF AllocatorInv, ListInv
  <2>3. \A k \in DOMAIN list : Blocks(list[k]) \cap Blocks(r) = {}
    BY <2>2, OtherGroup
  <2> QED BY <2>3, HeldMember
<1>8. PICK h \in Nat : h = Cardinality(Held(list)) /\ IsFiniteSet(Held(list))
  BY ListIs, HeldCount, FS_CardinalityType
<1>9. IsFiniteSet(Blocks(r)) /\ Cardinality(Blocks(r)) = n
  BY <1>3, <1>5, BlocksAre
<1>10. Cardinality(Held(list')) = h + n
  <2>1. Cardinality(Held(list) \cap Blocks(r)) = 0
    BY <1>7, FS_EmptySet
  <2>2. Cardinality(Held(list) \cup Blocks(r)) = h + n - 0
    BY <1>8, <1>9, <2>1, FS_Union
  <2> QED BY <1>5, <1>6, <2>2
<1>11. current.blocks \in Nat /\ need + h = current.blocks + 1
  BY <1>3, <1>8 DEF RequestInv
<1>12. need' + (h + n) = current.blocks + 1
  BY <1>3, <1>4, <1>5, <1>11
<1> QED BY <1>3, <1>10, <1>11, <1>12 DEF RequestInv

\* No step loses count.
LEMMA RequestStep ==
  ASSUME RequestInv, WalkInv, PlaceInv, AllocatorInv, AllocatorInv', [MkfsNext]_mkfsVars
  PROVE  RequestInv'
<1>1. CASE CreateJournal \/ CreateResize \/ MakeRoot \/ MakeDirectory \/ MakeLeaf
  BY <1>1, RequestBegins
<1>2. CASE GatherRegion
  BY <1>2, RequestGathers
<1>3. CASE AttachInInode \/ AttachWithLeaf \/ AttachWhole \/ WithoutBlocks
  <2>1. alloc_pc' # "extents"
    BY <1>3 DEF AttachInInode, AttachWithLeaf, AttachWhole, WithoutBlocks, KeepInInode, KeepWithLeaf,
       KeepWhole, OutOfSpace
  <2> QED BY <2>1 DEF RequestInv
<1>4. CASE \/ ReserveFirstInodes \/ NoJournal \/ OutOfInodes \/ FinishPlain \/ FinishXattrTooBig
           \/ FinishXattrBlock \/ LeaveDirectory \/ UpdateFree
  <2>1. alloc_pc = "idle"
    BY <1>4 DEF ReserveFirstInodes, NoJournal, OutOfInodes, FinishPlain, FinishXattrTooBig,
       FinishXattrBlock, LeaveDirectory, UpdateFree, Walking, PlaceInv, DataCalls
  <2>2. alloc_pc' # "extents"
    BY <1>4, <2>1 DEF ReserveFirstInodes, NoJournal, OutOfInodes, FinishPlain, FinishXattrTooBig,
       FinishXattrBlock, LeaveDirectory, UpdateFree, allocVars, AllocateBlock
  <2> QED BY <2>2 DEF RequestInv
<1>5. CASE UNCHANGED mkfsVars
  BY <1>5 DEF mkfsVars, mkfsOnly, allocVars, RequestInv
<1> QED BY <1>1, <1>2, <1>3, <1>4, <1>5 DEF MkfsNext, MkfsStep

-----------------------------------------------------------------------------
(* What a step does to the blocks of the inodes.                           *)

\* Nothing; or the program stops, blocks in hand.
KeepsBlocks == Numbers' = Numbers /\ \A n \in Numbers : SameBlocks(inodes'[n], inodes[n])
StopsHolding == kept \subseteq kept' /\ Stopped'
\* An inode without blocks is made.
MakesInode(n) == /\ kept' = kept /\ (n \in Numbers => Unreserved)
                 /\ \E node : SetInode(n, node) /\ NoBlocks(node)
\* An inode without blocks is given some.
GivesBlocks(n) == /\ n \in Numbers /\ NoBlocks(inodes[n])
                  /\ \E node : SetInode(n, node) /\ Attached(node, kept, kept')
\* An inode is given a block for its attributes, or none there is.
WithAttributes(node, old, b) ==
  /\ node.eh_entries = old.eh_entries /\ node.extents = old.extents /\ node.leaf = old.leaf
  /\ node.map = old.map /\ node.acl = {b} /\ node.size = old.size /\ node.blocks = old.blocks + 1
GivesAcl(n, b) ==
  /\ n \in Numbers /\ inodes[n].acl = {} /\ Numbers' = Numbers
  /\ WithAttributes(inodes'[n], inodes[n], b)
  /\ \A m \in Numbers : m # n => SameBlocks(inodes'[m], inodes[m])
  /\ kept' = kept \cup ({b} \ {NoSuchBlock}) /\ b \notin kept

BlocksMove ==
  \/ KeepsBlocks /\ kept' = kept
  \/ KeepsBlocks /\ StopsHolding
  \/ \E n : MakesInode(n)
  \/ \E n : GivesBlocks(n)
  \/ \E n, b : GivesAcl(n, b)

\* A table that is not written keeps every block.
LEMMA TableKept == ASSUME inodes' = inodes PROVE KeepsBlocks
BY DEF KeepsBlocks, SameBlocks, Numbers

\* Inodes are made.
LEMMA MakeMoves ==
  ASSUME PlaceInv, RoomInv, InodesInv,
         CreateJournal \/ CreateResize \/ MakeRoot \/ MakeDirectory \/ MakeLeaf
  PROVE  BlocksMove
<1>1. NoBlocks(Blank)
  BY DEF NoBlocks, Blank
<1>2. CASE CreateJournal
  <2>1. SetInode(JOURNAL_INO, Blank) /\ kept' = kept /\ JOURNAL_INO \notin Numbers
    BY <1>2 DEF CreateJournal, PlaceInv, RequestExtents, AllocateBlocks
  <2> QED BY <1>1, <2>1 DEF BlocksMove, MakesInode
<1>3. CASE CreateResize
  <2>2. SetInode(RESIZE_INO, Blank) /\ kept' = kept /\ pc = "resize"
    BY <1>3 DEF CreateResize, AllocateBlocks
  <2>3. Numbers \subseteq {JOURNAL_INO} /\ RESIZE_INO # JOURNAL_INO
    BY <2>2 DEF PlaceInv, RESIZE_INO, JOURNAL_INO
  <2>1. SetInode(RESIZE_INO, Blank) /\ kept' = kept /\ RESIZE_INO \notin Numbers
    BY <2>2, <2>3
  <2> QED BY <1>1, <2>1 DEF BlocksMove, MakesInode
<1>4. CASE MakeRoot
  <2>1. SetInode(ROOT_INO, Blank) /\ kept' = kept /\ ROOT_INO \notin Numbers
    BY <1>4 DEF MakeRoot, BeginDirectory, PlaceInv, RequestExtents, AllocateBlocks, RESIZE_INO, JOURNAL_INO, ROOT_INO
  <2> QED BY <1>1, <2>1 DEF BlocksMove, MakesInode
<1>5. CASE MakeDirectory
  <2>1. PICK n : AllocateInode(n) /\ BeginDirectory(Entry.dir, n)
    BY <1>5 DEF MakeDirectory
  <2>2. SetInode(n, Blank) /\ kept' = kept
    BY <2>1 DEF BeginDirectory, RequestExtents, AllocateBlocks
  <2>3. n \in Numbers => Unreserved
    BY <2>1, FreshInode DEF RoomInv
  <2> QED BY <1>1, <2>2, <2>3 DEF BlocksMove, MakesInode
<1>6. CASE MakeLeaf
  <2>1. PICK n, node : /\ AllocateInode(n) /\ SetInode(n, node)
                       /\ node = [Blank EXCEPT !.type = Entry.type, !.links = 1]
    BY <1>6 DEF MakeLeaf
  <2>2. NoBlocks(node)
    BY <2>1 DEF NoBlocks, Blank
  <2>3. n \in Numbers => Unreserved
    BY <2>1, FreshInode DEF RoomInv
  <2>4. kept' = kept
    BY <1>6 DEF MakeLeaf, allocVars, AllocateBlocks, RequestExtents
  <2> QED BY <2>1, <2>2, <2>3, <2>4 DEF BlocksMove, MakesInode
<1> QED BY <1>2, <1>3, <1>4, <1>5, <1>6

\* The blocks of an inode given extents.
LEMMA AttachedIs ==
  ASSUME NEW old, Made(old), NoBlocks(old), NEW l, Apart(l), Narrow(l), Len(l) = Len(list),
         current.blocks = LenOf(l, Len(l)), NEW leaf, leaf # {} => Cardinality(leaf) = 1,
         IsFiniteSet(leaf), leaf \cap Held(l) = {}, NEW before, NEW after,
         after = before \cup (Held(l) \cup leaf), Held(l) \cup leaf \subseteq Block, before \cap (Held(l) \cup leaf) = {},
         NEW node, SameBlocks(node, WithExtents(old, l, leaf))
  PROVE  Attached(node, before, after)
<1> DEFINE w == WithExtents(old, l, leaf)
<1>1. /\ w.eh_entries = Len(l) /\ w.extents = Extents(l) /\ w.leaf = leaf /\ w.map = {} /\ w.acl = {}
      /\ w.size = LenOf(l, Len(l)) /\ w.blocks = LenOf(l, Len(l)) + Cardinality(leaf)
  <2>1. LenOf(l, Len(l)) \in Nat /\ (leaf = {} => Cardinality(leaf) = 0)
    BY HeldCount, FS_EmptySet
  <2> QED BY <2>1, WithExtentsIs DEF NoBlocks
<1> HIDE DEF w
<1>2. /\ node.eh_entries = Len(l) /\ node.extents = Extents(l) /\ node.leaf = leaf /\ node.map = {} /\ node.acl = {}
      /\ node.size = LenOf(l, Len(l)) /\ node.blocks = LenOf(l, Len(l)) + Cardinality(leaf)
  BY <1>1 DEF SameBlocks, w
<1>3. Sound(node)
  <2>1. IsFiniteSet(node.leaf) /\ node.leaf \cap Held(l) = {} /\ node.blocks = LenOf(l, Len(l)) + Cardinality(node.leaf)
    BY <1>2
  <2> QED BY <1>2, <2>1, AttachedSound
<1>4. DataBlocks(node) = Held(l)
  BY <1>2, ExtentsHold DEF Apart
<1>5. BlocksOf(node) = Held(l) \cup leaf
  BY <1>2, <1>4 DEF BlocksOf
<1>6. NoSuchBlock \notin Block
  BY NumGroupsAssumption DEF NoSuchBlock, Block, Groups
<1> QED BY <1>2, <1>3, <1>4, <1>5, <1>6 DEF Attached

\* Blocks arrive.
LEMMA AttachMoves ==
  ASSUME PlaceInv, AllocatorInv, WalkInv, RequestInv, AttachInInode \/ AttachWithLeaf
  PROVE  BlocksMove
<1>1. PICK l, leaf : /\ Attach(WithExtents(inodes[current.inum], l, leaf))
                     /\ \/ KeepInInode /\ l = Reduced(list) /\ leaf = {}
                        \/ KeepWithLeaf /\ l = ReservedOob(list).list /\ leaf = Held(ReservedOob(list).oob)
  BY DEF AttachInInode, AttachWithLeaf
<1>2. current.inum \in Numbers /\ Made(inodes[current.inum]) /\ NoBlocks(inodes[current.inum])
  BY <1>1 DEF PlaceInv, KeepInInode, KeepWithLeaf
<1>3. CASE alloc_pc' # "idle"
  <2>1. inodes' = inodes
    BY <1>1, <1>3 DEF Attach
  <2>2. kept \subseteq kept' /\ alloc_pc' = "crashed"
    BY <1>1, <1>3 DEF KeepInInode, KeepWithLeaf
  <2> QED BY <2>1, <2>2, TableKept DEF BlocksMove, StopsHolding, Stopped
<1>4. CASE alloc_pc' = "idle"
  <2>1. PICK node : SetInode(current.inum, node) /\ SameBlocks(node, WithExtents(inodes[current.inum], l, leaf))
    <3>1. ExtentsDone(WithExtents(inodes[current.inum], l, leaf)) /\ Made(WithExtents(inodes[current.inum], l, leaf))
      BY <1>1, <1>2, <1>4, WithExtentsIs DEF Attach
    <3> QED BY <3>1, DoneIs
  <2>2. /\ Apart(l) /\ Narrow(l) /\ Len(l) = Len(list) /\ IsFiniteSet(leaf) /\ leaf \cap Held(l) = {}
        /\ kept' = kept \cup (Held(l) \cup leaf) /\ Held(l) \cup leaf \subseteq Held(list)
        /\ LenOf(l, Len(l)) = Cardinality(Held(list)) - 1 /\ (leaf # {} => Cardinality(leaf) = 1)
    <3>1. CASE KeepInInode /\ l = Reduced(list) /\ leaf = {}
      BY <1>4, <3>1, InInodeIs, FS_EmptySet
    <3>2. CASE KeepWithLeaf /\ l = ReservedOob(list).list /\ leaf = Held(ReservedOob(list).oob)
      BY <1>4, <3>2, WithLeafIs
    <3> QED BY <1>1, <3>1, <3>2
  <2>3. Held(l) \cup leaf \subseteq Block /\ kept \cap (Held(l) \cup leaf) = {}
    BY <2>2, ListIs
  <2>5. current.blocks = LenOf(l, Len(l))
    <3>1. alloc_pc = "extents" /\ need = 0
      BY <1>1 DEF KeepInInode, KeepWithLeaf, Found
    <3>2. Cardinality(Held(list)) \in Nat
      BY HeldCount, ListIs, FS_CardinalityType
    <3> QED BY <2>2, <3>1, <3>2 DEF RequestInv
  <2>4. Attached(node, kept, kept')
    BY <1>2, <2>1, <2>2, <2>3, <2>5, AttachedIs
  <2> QED BY <1>2, <2>1, <2>4 DEF BlocksMove, GivesBlocks
<1> QED BY <1>3, <1>4

\* All blocks of the request, mapped.
LEMMA MappedIs ==
  ASSUME NEW node, node.extents = <<>>, node.eh_entries = 0, node.leaf = {}, node.acl = {},
         NEW before, NEW after, node.map \ {NoSuchBlock} = after \ before, before \subseteq after
  PROVE  Attached(node, before, after)
<1>1. Len(<<>>) = 0 /\ DOMAIN <<>> = {}
  OBVIOUS
<1>2. Sound(node) /\ DataBlocks(node) = {}
  BY <1>1 DEF Sound, DataBlocks, Regions
<1>3. BlocksOf(node) = node.map
  BY <1>2 DEF BlocksOf
<1> QED BY <1>2, <1>3 DEF Attached

\* A request that is mapped whole, or one that fails.
LEMMA WholeMoves ==
  ASSUME PlaceInv, AllocatorInv, WalkInv, AttachWhole \/ WithoutBlocks
  PROVE  BlocksMove
<1>1. current.inum \in Numbers /\ Made(inodes[current.inum]) /\ NoBlocks(inodes[current.inum])
  BY DEF PlaceInv, AttachWhole, KeepWhole, WithoutBlocks, OutOfSpace, InProgress
<1>2. CASE AttachWhole
  <2>1. kept' = kept \cup Held(list)
    BY <1>2 DEF AttachWhole, KeepWhole
  <2>2. NoSuchBlock \notin Held(list) /\ Held(list) \cap kept = {}
    BY ListIs
  <2>3. PICK a, b : a = [Blank EXCEPT !.type = "file", !.links = 1, !.map = Held(list), !.blocks = ReservedGdt + 1]
                    /\ b = [inodes[current.inum] EXCEPT !.map = Held(list), !.blocks = 1]
    OBVIOUS
  <2>4. a.extents = <<>> /\ a.eh_entries = 0 /\ a.leaf = {} /\ a.acl = {} /\ a.map = Held(list)
    BY <2>3 DEF Blank
  <2>5. b.extents = <<>> /\ b.eh_entries = 0 /\ b.leaf = {} /\ b.acl = {} /\ b.map = Held(list)
    BY <1>1, <2>3 DEF NoBlocks, Made, Blank
  <2>6. Held(list) \ {NoSuchBlock} = kept' \ kept /\ kept \subseteq kept'
    BY <2>1, <2>2
  <2>7. Attached(a, kept, kept') /\ Attached(b, kept, kept')
    BY <2>4, <2>5, <2>6, MappedIs
  <2>8. SetInode(current.inum, a) \/ SetInode(current.inum, b)
    BY <1>2, <2>3 DEF AttachWhole
  <2> QED BY <1>1, <2>7, <2>8 DEF BlocksMove, GivesBlocks
<1>3. CASE WithoutBlocks /\ pc # "resize_data"
  BY <1>3, TableKept DEF WithoutBlocks, OutOfSpace, BlocksMove
<1>4. CASE WithoutBlocks /\ pc = "resize_data"
  <2>1. kept' = kept
    BY <1>4 DEF WithoutBlocks, OutOfSpace
  <2>2. CASE ~force
    BY <1>4, <2>1, <2>2, TableKept DEF WithoutBlocks, BlocksMove
  <2>3. CASE force
    <3>1. PICK a : a = [Blank EXCEPT !.type = "file", !.links = 1, !.map = {NoSuchBlock}, !.blocks = ReservedGdt + 1]
      OBVIOUS
    <3>2. a.extents = <<>> /\ a.eh_entries = 0 /\ a.leaf = {} /\ a.acl = {} /\ a.map = {NoSuchBlock}
      BY <3>1 DEF Blank
    <3>3. SetInode(RESIZE_INO, a)
      BY <1>4, <2>3, <3>1 DEF WithoutBlocks
    <3>4. a.map \ {NoSuchBlock} = kept' \ kept /\ kept \subseteq kept'
      BY <2>1, <3>2
    <3>5. Attached(a, kept, kept')
      BY <3>2, <3>4, MappedIs
    <3>6. current.inum = RESIZE_INO
      BY <1>4 DEF PlaceInv
    <3> QED BY <1>1, <3>3, <3>5, <3>6 DEF BlocksMove, GivesBlocks
  <2> QED BY <2>2, <2>3
<1> QED BY <1>2, <1>3, <1>4

\* A block for attributes.
LEMMA AclMoves ==
  ASSUME PlaceInv, AllocatorInv, AllocatorInv', WalkInv, WalkersInv, FinishXattrBlock
  PROVE  BlocksMove
<1> DEFINE n == current.inum
<1>1. n \in Numbers /\ inodes[n].acl = {}
  BY DEF FinishXattrBlock, WalkInv, WalkersInv, EntryCalls, InHand, Walker, Numbers
<1>2. PICK b : /\ inodes' = WithAcl(Patched, b)
               /\ \/ AllocateBlock /\ b \in kept' \ kept
                  \/ b = NoSuchBlock /\ kept' = kept
  BY DEF FinishXattrBlock, allocVars
<1>3. kept' = kept \cup ({b} \ {NoSuchBlock}) /\ b \notin kept
  <2>1. kept \subseteq Block /\ NoSuchBlock \notin Block
    BY ListIs
  <2>2. kept' \subseteq Block
    BY DEF AllocatorInv, AllocatorTypeOK
  <2>3. CASE AllocateBlock /\ b \in kept' \ kept
    BY <2>1, <2>2, <2>3 DEF AllocateBlock
  <2> QED BY <1>2, <2>1, <2>3
<1>4. /\ DOMAIN Patched = Numbers
      /\ \A m \in Numbers : Made(Patched[m]) /\ SameBlocks(Patched[m], inodes[m])
  BY <1>1, PatchedKeeps DEF PlaceInv
<1>5. WithAttributes(inodes'[n], inodes[n], b)
  <2>2. Made(Patched[n]) /\ SameBlocks(Patched[n], inodes[n]) /\ n \in DOMAIN Patched
    BY <1>1, <1>4
  <2>3. PICK t, p : t = Patched /\ p = Patched[n]
    OBVIOUS
  <2>4. inodes' = [t EXCEPT ![n].acl = {b}, ![n].blocks = @ + 1] /\ Made(p) /\ SameBlocks(p, inodes[n])
        /\ p = t[n] /\ n \in DOMAIN t
    BY <1>2, <2>2, <2>3 DEF WithAcl
  <2> HIDE DEF n
  <2>5. WithAttributes(inodes'[n], p, b)
    BY <2>4 DEF WithAttributes, Made, Blank
  <2> QED BY <2>4, <2>5 DEF WithAttributes, SameBlocks
<1>6. \A m \in Numbers : m # n => SameBlocks(inodes'[m], inodes[m])
  BY <1>2, <1>4 DEF WithAcl
<1>7. Numbers' = Numbers
  BY <1>2, <1>4 DEF WithAcl, Numbers
<1> HIDE DEF n
<1> QED BY <1>1, <1>3, <1>5, <1>6, <1>7 DEF BlocksMove, GivesAcl

\* Every step moves blocks in one of these ways.
LEMMA MovesStep ==
  ASSUME PlaceInv, RoomInv, InodesInv, WalkInv, WalkersInv, RequestInv, AllocatorInv, AllocatorInv',
         [MkfsNext]_mkfsVars
  PROVE  BlocksMove
<1>1. CASE CreateJournal \/ CreateResize \/ MakeRoot \/ MakeDirectory \/ MakeLeaf
  BY <1>1, MakeMoves
<1>2. CASE AttachInInode \/ AttachWithLeaf \/ AttachWhole \/ WithoutBlocks
  BY <1>2, AttachMoves, WholeMoves
<1>3. CASE FinishXattrBlock
  BY <1>3, AclMoves
<1>4. CASE FinishPlain \/ FinishXattrTooBig
  <2>1. pc = "finish"
    BY <1>4 DEF FinishPlain, FinishXattrTooBig
  <2>2. \A m \in Numbers : SameBlocks(Patched[m], inodes[m])
    BY PatchedKeeps DEF PlaceInv
  <2>3. inodes' = Patched /\ kept' = kept
    BY <1>4 DEF FinishPlain, FinishXattrTooBig, allocVars
  <2>4. DOMAIN Patched = DOMAIN inodes
    BY DEF Patched
  <2> QED BY <2>2, <2>3, <2>4 DEF BlocksMove, KeepsBlocks, Numbers
<1>5. CASE \/ ReserveFirstInodes \/ NoJournal \/ OutOfInodes \/ GatherRegion \/ LeaveDirectory
           \/ UpdateFree \/ UNCHANGED mkfsVars
  <2>1. inodes' = inodes /\ kept' = kept
    BY <1>5 DEF ReserveFirstInodes, NoJournal, OutOfInodes, GatherRegion, LeaveDirectory,
       UpdateFree, mkfsVars, mkfsOnly, allocVars, AllocatePartial
  <2> QED BY <2>1, TableKept DEF BlocksMove
<1> QED BY <1>1, <1>2, <1>3, <1>4, <1>5 DEF MkfsNext, MkfsStep

-----------------------------------------------------------------------------
(* The blocks of the inodes are the blocks that are allocated.             *)

\* Every inode is sound, and what it points at is allocated.
Owns(node, owned) ==
  /\ Sound(node)
  /\ DataBlocks(node) \cup node.leaf \subseteq owned
  /\ BlocksOf(node) \subseteq owned \cup {NoSuchBlock}
BlocksInv == \A n \in Numbers : Owns(inodes[n], kept)

\* Allocated blocks belong to exactly one inode, while the program goes on.
Exact ==
  /\ \A b \in kept : \E n \in Numbers : b \in BlocksOf(inodes[n])
  /\ \A n, m \in Numbers : n # m => BlocksOf(inodes[n]) \cap BlocksOf(inodes[m]) \subseteq {NoSuchBlock}
OwnedInv == Unreserved \/ Stopped \/ Exact

\* Inodes with the same blocks own the same.
LEMMA SameOwns ==
  ASSUME NEW node, NEW old, SameBlocks(node, old)
  PROVE  /\ BlocksOf(node) = BlocksOf(old)
         /\ \A owned : Owns(old, owned) => Owns(node, owned)
<1>1. DataBlocks(node) = DataBlocks(old)
  BY DEF SameBlocks, DataBlocks, Regions
<1>2. BlocksOf(node) = BlocksOf(old)
  BY <1>1 DEF SameBlocks, BlocksOf
<1>3. Sound(old) => Sound(node)
  BY SameSound
<1> QED BY <1>1, <1>2, <1>3 DEF Owns, SameBlocks

\* An inode that owns some blocks owns them when there are more.
LEMMA OwnsMore ==
  ASSUME NEW node, NEW owned, NEW more, Owns(node, owned), owned \subseteq more
  PROVE  Owns(node, more)
BY DEF Owns

\* An inode without blocks owns nothing.
LEMMA OwnsNothing ==
  ASSUME NEW node, NoBlocks(node), NEW owned
  PROVE  Owns(node, owned) /\ BlocksOf(node) = {}
<1>1. Sound(node)
  BY NoBlocksSound
<1>2. DataBlocks(node) = {}
  <2>1. DOMAIN <<>> = {}
    OBVIOUS
  <2> QED BY <2>1 DEF NoBlocks, DataBlocks, Regions
<1> QED BY <1>1, <1>2 DEF Owns, BlocksOf, NoBlocks

\* The block of the attributes is one more block of the inode.
LEMMA AclSound ==
  ASSUME NEW node, NEW old, NEW b, WithAttributes(node, old, b), Sound(old), old.acl = {},
         IsFiniteSet(DataBlocks(old) \cup old.leaf), b \notin DataBlocks(old) \cup old.leaf
  PROVE  /\ Sound(node) /\ DataBlocks(node) = DataBlocks(old) /\ node.leaf = old.leaf
         /\ BlocksOf(node) = BlocksOf(old) \cup {b}
<1>1. DataBlocks(node) = DataBlocks(old)
  BY DEF WithAttributes, DataBlocks, Regions
<1>2. BlocksOf(node) = BlocksOf(old) \cup {b}
  BY <1>1 DEF WithAttributes, BlocksOf
<1>3. ASSUME node.extents # <<>>
      PROVE  node.blocks = Cardinality(DataBlocks(node) \cup node.leaf \cup node.acl)
  <2>1. PICK S : S = DataBlocks(old) \cup old.leaf
    OBVIOUS
  <2>2. DataBlocks(old) \cup old.leaf \cup old.acl = S
    BY <2>1
  <2>3. DataBlocks(node) \cup node.leaf \cup node.acl = S \cup {b}
    BY <1>1, <2>1 DEF WithAttributes
  <2>4. Cardinality(S \cup {b}) = Cardinality(S) + 1
    BY <2>1, FS_AddElement
  <2>5. old.blocks = Cardinality(S)
    BY <1>3, <2>2 DEF Sound, WithAttributes
  <2> QED BY <2>3, <2>4, <2>5 DEF WithAttributes
<1>4. Sound(node)
  BY <1>3 DEF Sound, WithAttributes
<1> QED BY <1>1, <1>2, <1>4 DEF WithAttributes

\* Allocated blocks are finitely many.
LEMMA KeptFinite == ASSUME AllocatorInv PROVE IsFiniteSet(kept)
<1> USE NumGroupsAssumption, GeometryAssumption
<1>1. IsFiniteSet(Groups)
  BY FS_Interval DEF Groups
<1>2. IsFiniteSet(0 .. BlocksPerGroup - 1)
  BY FS_Interval
<1>3. IsFiniteSet(Groups \X (0 .. BlocksPerGroup - 1))
  BY <1>1, <1>2, FS_Product
<1>4. kept \subseteq Groups \X (0 .. BlocksPerGroup - 1)
  BY DEF AllocatorInv, AllocatorTypeOK, Block
<1> QED BY <1>3, <1>4, FS_Subset

\* The build starts without inodes.
LEMMA BlocksInit == MkfsInit => BlocksInv /\ OwnedInv
<1> SUFFICES ASSUME MkfsInit PROVE BlocksInv /\ OwnedInv
  OBVIOUS
<1>1. Numbers = {} /\ kept = {}
  BY DEF MkfsInit, AllocatorInit, Numbers
<1> QED BY <1>1 DEF BlocksInv, OwnedInv, Exact

\* Whatever moves, inodes own only what is allocated.
LEMMA BlocksKept ==
  ASSUME BlocksInv, AllocatorInv, BlocksMove
  PROVE  BlocksInv'
<1>1. CASE KeepsBlocks /\ kept \subseteq kept'
  <2> SUFFICES ASSUME NEW n \in Numbers' PROVE Owns(inodes'[n], kept')
    BY DEF BlocksInv
  <2>1. n \in Numbers /\ SameBlocks(inodes'[n], inodes[n])
    BY <1>1 DEF KeepsBlocks
  <2>2. Owns(inodes'[n], kept)
    BY <2>1, SameOwns DEF BlocksInv
  <2> QED BY <1>1, <2>2, OwnsMore
<1>2. CASE \E i : MakesInode(i)
  <2>1. PICK i, node : SetInode(i, node) /\ NoBlocks(node) /\ kept' = kept
    BY <1>2 DEF MakesInode
  <2>2. Owns(node, kept)
    BY <2>1, OwnsNothing
  <2>3. Numbers' = Numbers \cup {i} /\ inodes'[i] = node
        /\ \A m \in Numbers : m # i => inodes'[m] = inodes[m]
    BY <2>1, SetInodeIs
  <2> QED BY <2>1, <2>2, <2>3 DEF BlocksInv
<1>3. CASE \E i : GivesBlocks(i)
  <2>1. PICK i, node : i \in Numbers /\ SetInode(i, node) /\ Attached(node, kept, kept')
    BY <1>3 DEF GivesBlocks
  <2>2. Owns(node, kept') /\ kept \subseteq kept'
    BY <2>1 DEF Attached, Owns
  <2>3. Numbers' = Numbers \cup {i} /\ inodes'[i] = node
        /\ \A m \in Numbers : m # i => inodes'[m] = inodes[m]
    BY <2>1, SetInodeIs
  <2>4. \A m \in Numbers : Owns(inodes[m], kept')
    BY <2>2, OwnsMore DEF BlocksInv
  <2> QED BY <2>2, <2>3, <2>4 DEF BlocksInv
<1>4. CASE \E i, b : GivesAcl(i, b)
  <2>1. PICK i, b : GivesAcl(i, b)
    BY <1>4
  <2>2. kept' = kept \cup ({b} \ {NoSuchBlock}) /\ b \notin kept
    BY <2>1 DEF GivesAcl
  <2>3. Owns(inodes'[i], kept')
    <3>1. PICK node, old : node = inodes'[i] /\ old = inodes[i] /\ WithAttributes(node, old, b)
                           /\ old.acl = {} /\ Owns(old, kept)
      BY <2>1 DEF GivesAcl, BlocksInv
    <3>2. IsFiniteSet(DataBlocks(old) \cup old.leaf) /\ b \notin DataBlocks(old) \cup old.leaf
      BY <2>2, <3>1, KeptFinite, FS_Subset DEF Owns
    <3>3. Sound(node) /\ DataBlocks(node) = DataBlocks(old) /\ node.leaf = old.leaf
          /\ BlocksOf(node) = BlocksOf(old) \cup {b}
      BY <3>1, <3>2, AclSound DEF Owns
    <3>4. Owns(node, kept')
      BY <2>2, <3>1, <3>3 DEF Owns
    <3> QED BY <3>1, <3>4
  <2>4. ASSUME NEW m \in Numbers, m # i PROVE Owns(inodes'[m], kept')
    <3>1. SameBlocks(inodes'[m], inodes[m])
      BY <2>1, <2>4 DEF GivesAcl
    <3>2. Owns(inodes'[m], kept)
      BY <2>4, <3>1, SameOwns DEF BlocksInv
    <3> QED BY <2>2, <3>2, OwnsMore
  <2> QED BY <2>1, <2>3, <2>4 DEF BlocksInv, GivesAcl
<1> QED BY <1>1, <1>2, <1>3, <1>4 DEF BlocksMove, StopsHolding

\* One inode gets the blocks that were not owned, the others keep theirs.
LEMMA OneGets ==
  ASSUME Exact, BlocksInv, NEW i,
         Numbers' = Numbers \cup {i}, i \in Numbers => BlocksOf(inodes[i]) \subseteq BlocksOf(inodes'[i]),
         \A m \in Numbers : m # i => BlocksOf(inodes'[m]) = BlocksOf(inodes[m]),
         kept \subseteq kept',
         kept' \ kept \subseteq BlocksOf(inodes'[i]),
         BlocksOf(inodes'[i]) \subseteq (kept' \ kept) \cup {NoSuchBlock}
           \cup (IF i \in Numbers THEN BlocksOf(inodes[i]) ELSE {})
  PROVE  Exact'
<1> DEFINE of(n) == BlocksOf(inodes[n])
<1>1. ASSUME NEW b \in kept' PROVE \E n \in Numbers' : b \in BlocksOf(inodes'[n])
  <2>1. CASE b \notin kept
    BY <2>1
  <2>2. CASE b \in kept
    <3>1. PICK n \in Numbers : b \in BlocksOf(inodes[n])
      BY <2>2 DEF Exact
    <3> QED BY <3>1
  <2> QED BY <2>1, <2>2
<1>2. ASSUME NEW m \in Numbers, m # i
      PROVE  BlocksOf(inodes'[m]) \cap BlocksOf(inodes'[i]) \subseteq {NoSuchBlock}
  <2>1. BlocksOf(inodes'[m]) = BlocksOf(inodes[m]) /\ BlocksOf(inodes[m]) \subseteq kept \cup {NoSuchBlock}
    BY <1>2 DEF BlocksInv, Owns
  <2>2. i \in Numbers => BlocksOf(inodes[m]) \cap BlocksOf(inodes[i]) \subseteq {NoSuchBlock}
    BY <1>2 DEF Exact
  <2> QED BY <2>1, <2>2
<1>3. ASSUME NEW n \in Numbers', NEW m \in Numbers', n # m
      PROVE  BlocksOf(inodes'[n]) \cap BlocksOf(inodes'[m]) \subseteq {NoSuchBlock}
  <2>1. CASE n = i
    BY <1>2, <1>3, <2>1
  <2>2. CASE m = i
    BY <1>2, <1>3, <2>2
  <2>3. CASE n # i /\ m # i
    BY <1>3, <2>3 DEF Exact
  <2> QED BY <2>1, <2>2, <2>3
<1> QED BY <1>1, <1>3 DEF Exact

\* The owners stay exact.
LEMMA OwnedStep ==
  ASSUME OwnedInv, BlocksInv, AllocatorInv, BlocksMove, Unreserved' <=> Unreserved, Stopped => Stopped'
  PROVE  OwnedInv'
<1> SUFFICES ASSUME Exact, ~Unreserved PROVE Exact' \/ Stopped'
  BY DEF OwnedInv
<1>1. CASE KeepsBlocks /\ kept' = kept
  <2>1. Numbers' = Numbers /\ \A n \in Numbers : BlocksOf(inodes'[n]) = BlocksOf(inodes[n])
    BY <1>1, SameOwns DEF KeepsBlocks
  <2> QED BY <1>1, <2>1 DEF Exact
<1>2. CASE \E i : MakesInode(i)
  <2>1. PICK i, node : SetInode(i, node) /\ NoBlocks(node) /\ kept' = kept /\ i \notin Numbers
    BY <1>2 DEF MakesInode
  <2>2. BlocksOf(node) = {}
    BY <2>1, OwnsNothing
  <2>3. Numbers' = Numbers \cup {i} /\ inodes'[i] = node
        /\ \A m \in Numbers : m # i => inodes'[m] = inodes[m]
    BY <2>1, SetInodeIs
  <2> QED BY <2>1, <2>2, <2>3, OneGets
<1>3. CASE \E i : GivesBlocks(i)
  <2>1. PICK i, node : i \in Numbers /\ SetInode(i, node) /\ Attached(node, kept, kept') /\ NoBlocks(inodes[i])
    BY <1>3 DEF GivesBlocks
  <2>2. BlocksOf(inodes[i]) = {}
    BY <2>1, OwnsNothing
  <2>3. Numbers' = Numbers \cup {i} /\ inodes'[i] = node
        /\ \A m \in Numbers : m # i => inodes'[m] = inodes[m]
    BY <2>1, SetInodeIs
  <2>4. BlocksOf(node) \ {NoSuchBlock} = kept' \ kept /\ kept \subseteq kept'
    BY <2>1 DEF Attached
  <2>5. NoSuchBlock \notin kept' \/ NoSuchBlock \in kept' \ kept
    BY ListIs
  <2> QED BY <2>2, <2>3, <2>4, OneGets
<1>4. CASE \E i, b : GivesAcl(i, b)
  <2>1. PICK i, b : GivesAcl(i, b)
    BY <1>4
  <2>2. kept' = kept \cup ({b} \ {NoSuchBlock}) /\ b \notin kept /\ i \in Numbers /\ Numbers' = Numbers
    BY <2>1 DEF GivesAcl
  <2>3. DataBlocks(inodes'[i]) = DataBlocks(inodes[i])
    BY <2>1 DEF GivesAcl, WithAttributes, DataBlocks, Regions
  <2>4. BlocksOf(inodes'[i]) = BlocksOf(inodes[i]) \cup {b}
    BY <2>1, <2>3 DEF GivesAcl, WithAttributes, BlocksOf
  <2>5. \A m \in Numbers : m # i => BlocksOf(inodes'[m]) = BlocksOf(inodes[m])
    BY <2>1, SameOwns DEF GivesAcl
  <2> QED BY <2>2, <2>4, <2>5, OneGets
<1> QED BY <1>1, <1>2, <1>3, <1>4 DEF BlocksMove, StopsHolding

\* A program that stopped takes no step.
LEMMA StaysStopped ==
  ASSUME PlaceInv, Stopped, [MkfsNext]_mkfsVars
  PROVE  Stopped'
<1>1. pc \in DataCalls /\ alloc_pc \notin {"idle", "extents", "whole"}
  BY DEF PlaceInv, Stopped
<1>2. CASE UNCHANGED mkfsVars
  BY <1>2 DEF mkfsVars, allocVars, Stopped
<1>3. CASE MkfsStep
  BY <1>1, <1>3 DEF MkfsStep, DataCalls, ReserveFirstInodes, CreateJournal, NoJournal, CreateResize,
     MakeRoot, MakeDirectory, MakeLeaf, Walking, OutOfInodes, GatherRegion, AllocatePartial, InProgress,
     AttachInInode, KeepInInode, AttachWithLeaf, KeepWithLeaf, AttachWhole, KeepWhole,
     WithoutBlocks, OutOfSpace, FinishPlain, FinishXattrTooBig, FinishXattrBlock, LeaveDirectory, UpdateFree
<1> QED BY <1>2, <1>3 DEF MkfsNext

-----------------------------------------------------------------------------
(* The invariant of the build.                                             *)

BuildInv ==
  /\ WalkInv /\ InodesInv /\ AllocatorInv
  /\ PlaceInv /\ RoomInv /\ WalkersInv /\ RequestInv
  /\ BlocksInv /\ OwnedInv

\* One step of the build, from one state in which the allocator is sound to
\* another.
LEMMA BuildStep == BuildInv /\ AllocatorInv' /\ [MkfsNext]_mkfsVars => BuildInv'
<1> SUFFICES ASSUME BuildInv, AllocatorInv', [MkfsNext]_mkfsVars PROVE BuildInv'
  OBVIOUS
<1> USE DEF BuildInv
<1>1. WalkInv' /\ InodesInv'
  BY WalkStep, InodesStep
<1>2. PlaceInv'
  BY PlaceStep DEF AllocatorInv
<1>3. RoomInv'
  BY RoomStep
<1>4. WalkersInv'
  BY <1>2, WalkersStep
<1>8. RequestInv'
  BY RequestStep
<1>5. BlocksMove
  BY MovesStep
<1>6. BlocksInv'
  BY <1>5, BlocksKept
<1>7. OwnedInv'
  <2>1. (Unreserved' <=> Unreserved) /\ (Stopped => Stopped')
    BY ForceKept, StaysStopped
  <2> QED BY <1>5, <2>1, OwnedStep
<1> QED BY <1>1, <1>2, <1>3, <1>4, <1>6, <1>7, <1>8

\* The invariant holds of every state of a build.
LEMMA BuildInvariance == MkfsSpec => []BuildInv
<1>1. MkfsInit /\ AllocatorInv => BuildInv
  BY WalkInit, InodesInitInv, PlaceInit, RoomInit, WalkersInit, RequestInit, BlocksInit DEF BuildInv
<1> QED BY <1>1, BuildStep, MkfsUsesAllocator, AllocatorInvariance, PTL DEF MkfsSpec, UsesAllocator

\* However a source tree is built, the extents of every inode cover the blocks
\* that were asked for its file, and that i_size gives, from block 0 without a
\* gap and share no block, and i_blocks, computed from what was asked for, is
\* the number of data, leaf and attribute blocks the inode owns.
THEOREM ExtentsStaySound == MkfsSpec => []ExtentsSound
<1>1. BuildInv => ExtentsSound
  <2> SUFFICES ASSUME BuildInv, NEW n \in Numbers PROVE Sound(inodes[n])
    BY DEF ExtentsSound, Sound
  <2> QED BY DEF BuildInv, BlocksInv, Owns
<1> QED BY <1>1, BuildInvariance, PTL

\* Every allocated block belongs to exactly one inode, unless -f went past a
\* group without room for the reserved inodes.
THEOREM BlocksHaveOneInode == MkfsSpec => []EveryBlockHasOneInode
<1>1. BuildInv => EveryBlockHasOneInode
  <2> SUFFICES ASSUME BuildInv, alloc_pc = "idle", ~Unreserved
               PROVE  /\ (UNION {BlocksOf(inodes[n]) : n \in Numbers}) \ {NoSuchBlock} = kept
                      /\ \A n, m \in Numbers : n # m =>
                           BlocksOf(inodes[n]) \cap BlocksOf(inodes[m]) \subseteq {NoSuchBlock}
    BY DEF EveryBlockHasOneInode
  <2>1. Exact
    BY DEF BuildInv, OwnedInv, Stopped
  <2>2. NoSuchBlock \notin kept
    BY ListIs DEF BuildInv
  <2>3. \A n \in Numbers : BlocksOf(inodes[n]) \subseteq kept \cup {NoSuchBlock}
    BY DEF BuildInv, BlocksInv, Owns
  <2> QED BY <2>1, <2>2, <2>3 DEF Exact
<1> QED BY <1>1, BuildInvariance, PTL

-----------------------------------------------------------------------------
(* Totals over the groups.                                                 *)

\* Disjoint finite sets, one for every group, with the sizes f.
SizedBy(T, f) ==
  /\ \A g \in Groups : IsFiniteSet(T[g]) /\ Cardinality(T[g]) = f[g]
  /\ \A g, h \in Groups : g # h => T[g] \cap T[h] = {}

\* Total computes the sums of the first values of f.
LEMMA TotalIs ==
  ASSUME NEW f, NEW a, a \in [1 .. NumGroups -> Nat], \A k \in 1 .. NumGroups : a[k] = f[k - 1]
  PROVE  \E s : Sums(NumGroups, a, s) /\ s[NumGroups] = Total(f)
<1> USE NumGroupsAssumption
<1>1. PICK n \in Nat : n = NumGroups
  OBVIOUS
<1>2. PICK s : Sums(n, a, s)
  BY <1>1, SumsExist
<1> DEFINE Eq(u) == u = [g \in 0 .. n |-> IF g = 0 THEN 0 ELSE u[g - 1] + f[g - 1]]
           upTo == CHOOSE u : Eq(u)
<1>3. Eq(s)
  <2>1. s \in [0 .. n -> Nat] /\ s[0] = 0 /\ \A k \in 1 .. n : s[k] = s[k - 1] + f[k - 1]
    BY <1>1, <1>2 DEF Sums
  <2>2. \A k \in 0 .. n : s[k] = IF k = 0 THEN 0 ELSE s[k - 1] + f[k - 1]
    BY <1>1, <2>1
  <2>3. s = [k \in 0 .. n |-> s[k]]
    BY <2>1
  <2> QED BY <2>2, <2>3
<1>4. Eq(upTo)
  <2> HIDE DEF Eq
  <2>1. \E u : Eq(u)
    BY <1>3
  <2> QED BY <2>1
<1>5. Total(f) = upTo[n]
  BY <1>1 DEF Total
<1> HIDE DEF upTo
<1>6. upTo[0] = 0 /\ \A k \in 1 .. n : upTo[k] = upTo[k - 1] + a[k]
  <2>1. \A k \in 1 .. n : a[k] = f[k - 1]
    BY <1>1
  <2>2. upTo[0] = 0
    BY <1>1, <1>4
  <2>3. \A k \in 1 .. n : upTo[k] = upTo[k - 1] + f[k - 1]
    BY <1>1, <1>4
  <2> QED BY <2>1, <2>2, <2>3
<1>7. \A k \in 0 .. n : upTo[k] = s[k]
  <2> HIDE DEF Eq
  <2> QED BY <1>1, <1>2, <1>6, SumsUnique
<1> QED BY <1>1, <1>2, <1>5, <1>7

\* So the total of the sizes of disjoint sets is the size of their union.
LEMMA TotalCounts ==
  ASSUME NEW f \in [Groups -> Nat], NEW T, SizedBy(T, f)
  PROVE  Cardinality(UNION {T[g] : g \in Groups}) = Total(f)
<1> USE NumGroupsAssumption
<1>1. PICK n \in Nat : n = NumGroups
  OBVIOUS
<1>2. Groups = 0 .. n - 1
  BY <1>1 DEF Groups
<1>3. PICK a : a = [k \in 1 .. n |-> f[k - 1]]
  OBVIOUS
<1>4. PICK S : S = [k \in 0 .. n |-> UNION {T[g] : g \in 0 .. k - 1}]
  OBVIOUS
<1>5. PICK U : U = [k \in 1 .. n |-> T[k - 1]]
  OBVIOUS
<1>6. a \in [1 .. n -> Nat] /\ \A k \in 1 .. n : a[k] = f[k - 1]
  BY <1>2, <1>3
<1>7. PICK s : Sums(n, a, s) /\ s[n] = Total(f)
  BY <1>1, <1>6, TotalIs
<1>8. S[0] = {}
  BY <1>4
<1>9. ASSUME NEW k \in 1 .. n
      PROVE  /\ S[k] = S[k - 1] \cup U[k] /\ S[k - 1] \cap U[k] = {}
             /\ IsFiniteSet(U[k]) /\ Cardinality(U[k]) = a[k]
  <2>1. PICK j \in 0 .. n - 1 : j = k - 1
    OBVIOUS
  <2>2. U[k] = T[j] /\ a[k] = f[j] /\ j \in Groups
    BY <1>2, <1>3, <1>5, <2>1
  <2>3. S[j] = UNION {T[g] : g \in 0 .. j - 1}
    BY <1>4, <2>1
  <2>4. S[k] = UNION {T[g] : g \in 0 .. j}
    BY <1>4, <2>1
  <2>5. 0 .. j = (0 .. j - 1) \cup {j}
    BY <2>1
  <2>6. S[k] = S[j] \cup T[j]
    BY <2>3, <2>4, <2>5
  <2>7. S[j] \cap T[j] = {}
    <3>1. \A g \in 0 .. j - 1 : g \in Groups /\ g # j
      BY <1>2, <2>1
    <3> QED BY <2>2, <2>3, <3>1 DEF SizedBy
  <2> QED BY <2>1, <2>2, <2>6, <2>7 DEF SizedBy
<1>10. Counts(n, a, S, U)
  BY <1>8, <1>9 DEF Counts
<1>11. Cardinality(S[n]) = s[n]
  BY <1>7, <1>10, SumsCount
<1>12. S[n] = UNION {T[g] : g \in Groups}
  BY <1>2, <1>4
<1> QED BY <1>7, <1>11, <1>12

\* An interval and a group.
LEMMA ColumnSize ==
  ASSUME NEW g, NEW a \in Nat, NEW b \in Nat, a <= b
  PROVE  IsFiniteSet({g} \X (a .. b - 1)) /\ Cardinality({g} \X (a .. b - 1)) = b - a
<1>1. IsFiniteSet(a .. b - 1) /\ Cardinality(a .. b - 1) = b - a
  <2>1. a \in Int /\ b - 1 \in Int
    OBVIOUS
  <2>2. IsFiniteSet(a .. b - 1) /\ Cardinality(a .. b - 1) = IF a > b - 1 THEN 0 ELSE (b - 1) - a + 1
    BY <2>1, FS_Interval
  <2> QED BY <2>2
<1>2. IsFiniteSet({g}) /\ Cardinality({g}) = 1
  BY FS_Singleton
<1>3. IsFiniteSet({g} \X (a .. b - 1)) /\ Cardinality({g} \X (a .. b - 1)) = 1 * (b - a)
  BY <1>1, <1>2, FS_Product, ZenonT(60)
<1> QED BY <1>3

\* The free blocks of the image, and of a group.
LEMMA FreeBlocksTotal ==
  ASSUME AllocatorInv
  PROVE  /\ Total(free_blocks) = Cardinality(Block \ InUse)
         /\ \A g \in Groups : free_blocks[g] = Cardinality({b \in Block \ InUse : b[1] = g})
<1> USE NumGroupsAssumption, GeometryAssumption
<1>1. PICK T : T = [g \in Groups |-> {b \in Block \ InUse : b[1] = g}]
  OBVIOUS
<1>2. ASSUME NEW g \in Groups
      PROVE  IsFiniteSet(T[g]) /\ Cardinality(T[g]) = free_blocks[g]
  <2>1. PICK lim \in Nat : lim = Limit[g] /\ lim <= BlocksPerGroup
    OBVIOUS
  <2>2. PICK first \in Nat : first = first_free_block[g]
    BY DEF AllocatorInv, AllocatorTypeOK
  <2>3. T[g] = {g} \X ((0 .. BlocksPerGroup - 1) \ block_bitmap[g])
    BY <1>1 DEF InUse, Block
  <2>4. /\ block_bitmap[g] = (0 .. first - 1) \cup (lim .. BlocksPerGroup - 1)
        /\ \/ first <= lim /\ free_blocks[g] = lim - first
           \/ first = BlocksPerGroup /\ free_blocks[g] = 0
    BY <2>1, <2>2 DEF AllocatorInv, GroupsConsistent, GroupConsistent
  <2>5. CASE first <= lim /\ free_blocks[g] = lim - first
    <3>1. (0 .. BlocksPerGroup - 1) \ block_bitmap[g] = first .. lim - 1
      BY <2>1, <2>2, <2>4, <2>5
    <3>2. IsFiniteSet({g} \X (first .. lim - 1)) /\ Cardinality({g} \X (first .. lim - 1)) = lim - first
      <4>1. first <= lim
        BY <2>5
      <4> QED BY <2>1, <2>2, <4>1, ColumnSize, Zenon
    <3>3. T[g] = {g} \X (first .. lim - 1)
      BY <2>3, <3>1
    <3> QED BY <2>5, <3>2, <3>3
  <2>6. CASE first = BlocksPerGroup /\ free_blocks[g] = 0
    <3>1. (0 .. BlocksPerGroup - 1) \ block_bitmap[g] = {}
      BY <2>4, <2>6
    <3>2. T[g] = {}
      BY <2>3, <3>1
    <3> QED BY <2>6, <3>2, FS_EmptySet
  <2> QED BY <2>4, <2>5, <2>6
<1>3. SizedBy(T, free_blocks)
  BY <1>1, <1>2 DEF SizedBy
<1>4. UNION {T[g] : g \in Groups} = Block \ InUse
  <2>1. \A b \in Block : b[1] \in Groups
    BY DEF Block
  <2> QED BY <1>1, <2>1
<1>5. free_blocks \in [Groups -> Nat]
  BY DEF AllocatorInv, AllocatorTypeOK
<1>6. \A g \in Groups : free_blocks[g] = Cardinality({b \in Block \ InUse : b[1] = g})
  BY <1>1, <1>2
<1>7. Total(free_blocks) = Cardinality(Block \ InUse)
  BY <1>3, <1>4, <1>5, TotalCounts
<1> QED BY <1>6, <1>7

\* The free inodes of a group are the numbers of one interval.
LEMMA FreeInodesOf ==
  ASSUME InodesInv, NEW g \in Groups, NEW n
  PROVE  n \in {i \in (1 .. NumGroups * InodesPerGroup) \ InUseInodes : GroupOfInode(i) = g}
         <=> n \in (g * InodesPerGroup + first_free_inode[g]) .. (g * InodesPerGroup + InodesPerGroup)
<1> USE NumGroupsAssumption, InodesAssumption
<1>1. PICK first \in 1 .. InodesPerGroup + 1 : first = first_free_inode[g]
  BY DEF InodesInv
<1>2. PICK base \in Nat : base = g * InodesPerGroup
  BY DEF Groups
<1>3. inode_bitmap[g] = 0 .. first - 2
  BY <1>1 DEF InodesInv, InodesConsistent
<1>4. ASSUME n \in 1 .. NumGroups * InodesPerGroup, n \notin InUseInodes, GroupOfInode(n) = g
      PROVE  n \in base + first .. base + InodesPerGroup
  <2>1. PICK k \in 1 .. InodesPerGroup : k = IndexOf(n) /\ n = g * InodesPerGroup + k
    BY <1>4, GroupIs
  <2>2. k - 1 \notin 0 .. first - 2
    BY <1>3, <1>4, <2>1, InUseIs
  <2> QED BY <1>2, <2>1, <2>2
<1>5. ASSUME n \in base + first .. base + InodesPerGroup
      PROVE  n \in 1 .. NumGroups * InodesPerGroup /\ n \notin InUseInodes /\ GroupOfInode(n) = g
  <2>1. PICK k \in 1 .. InodesPerGroup : n = g * InodesPerGroup + k /\ k >= first
    <3>1. n - base \in 1 .. InodesPerGroup /\ n = base + (n - base) /\ n - base >= first
      BY <1>2, <1>5
    <3> QED BY <1>2, <3>1
  <2>2. n \in 1 .. NumGroups * InodesPerGroup /\ GroupOfInode(n) = g /\ IndexOf(n) = k
    BY <2>1, NumberIs
  <2>3. k - 1 \notin 0 .. first - 2
    BY <2>1
  <2> QED BY <1>3, <2>2, <2>3, InUseIs
<1> QED BY <1>1, <1>2, <1>4, <1>5

\* The inodes of a group.
Below(g) == {n \in 1 .. NumGroups * InodesPerGroup : GroupOfInode(n) = g}

\* The free inodes of the image, and of a group.
LEMMA FreeInodesTotal ==
  ASSUME InodesInv
  PROVE  /\ Total(free_inodes) = Cardinality((1 .. NumGroups * InodesPerGroup) \ InUseInodes)
         /\ \A g \in Groups : free_inodes[g] = Cardinality(Below(g) \ InUseInodes)
<1> USE NumGroupsAssumption, InodesAssumption
<1> DEFINE All == (1 .. NumGroups * InodesPerGroup) \ InUseInodes
<1>1. PICK T : T = [g \in Groups |-> {i \in All : GroupOfInode(i) = g}]
  OBVIOUS
<1>2. ASSUME NEW g \in Groups
      PROVE  IsFiniteSet(T[g]) /\ Cardinality(T[g]) = free_inodes[g]
  <2>1. PICK first \in 1 .. InodesPerGroup + 1 : first = first_free_inode[g]
    BY DEF InodesInv
  <2>2. PICK base \in Nat : base = g * InodesPerGroup
    BY DEF Groups
  <2>3. T[g] = base + first .. base + InodesPerGroup
    <3>1. \A n : n \in T[g] <=> n \in base + first .. base + InodesPerGroup
      BY <1>1, <2>1, <2>2, FreeInodesOf
    <3> QED BY <3>1
  <2>4. free_inodes[g] = InodesPerGroup + 1 - first
    <3>1. first + free_inodes[g] = InodesPerGroup + 1 /\ free_inodes[g] \in 0 .. InodesPerGroup
      BY <2>1 DEF InodesInv, InodesConsistent
    <3> QED BY <3>1
  <2>5. PICK lo \in Int, hi \in Int : lo = base + first /\ hi = base + InodesPerGroup
    BY <2>1, <2>2
  <2>6. IsFiniteSet(lo .. hi) /\ Cardinality(lo .. hi) = IF lo > hi THEN 0 ELSE hi - lo + 1
    BY FS_Interval
  <2>7. (IF lo > hi THEN 0 ELSE hi - lo + 1) = InodesPerGroup + 1 - first
    BY <2>1, <2>2, <2>5
  <2> QED BY <2>3, <2>4, <2>5, <2>6, <2>7
<1>3. SizedBy(T, free_inodes)
  BY <1>1, <1>2 DEF SizedBy
<1>4. UNION {T[g] : g \in Groups} = All
  <2>1. \A n \in All : GroupOfInode(n) \in Groups
    BY GroupIs
  <2> QED BY <1>1, <2>1
<1>5. free_inodes \in [Groups -> Nat]
  BY DEF InodesInv
<1>6. \A g \in Groups : T[g] = Below(g) \ InUseInodes
  BY <1>1 DEF Below
<1>7. \A g \in Groups : free_inodes[g] = Cardinality(Below(g) \ InUseInodes)
  BY <1>2, <1>6
<1>8. Total(free_inodes) = Cardinality(All)
  BY <1>3, <1>4, <1>5, TotalCounts
<1> QED BY <1>7, <1>8

\* A group has no more inodes than InodesPerGroup.
LEMMA BelowIsSmall ==
  ASSUME NEW g \in Groups, NEW S \in SUBSET Below(g)
  PROVE  Cardinality(S) \in Nat /\ Cardinality(S) <= InodesPerGroup
<1> USE NumGroupsAssumption, InodesAssumption
<1>1. PICK base \in Nat : base = g * InodesPerGroup
  BY DEF Groups
<1>2. S \subseteq base + 1 .. base + InodesPerGroup
  <2> SUFFICES ASSUME NEW n \in S PROVE n \in base + 1 .. base + InodesPerGroup
    OBVIOUS
  <2>1. n \in 1 .. NumGroups * InodesPerGroup /\ GroupOfInode(n) = g
    BY DEF Below
  <2>2. PICK k \in 1 .. InodesPerGroup : n = g * InodesPerGroup + k
    BY <2>1, GroupIs
  <2> QED BY <1>1, <2>2
<1>3. PICK lo \in Int, hi \in Int : lo = base + 1 /\ hi = base + InodesPerGroup
  BY <1>1
<1>4. IsFiniteSet(lo .. hi) /\ Cardinality(lo .. hi) = IF lo > hi THEN 0 ELSE hi - lo + 1
  BY FS_Interval
<1>5. Cardinality(lo .. hi) = InodesPerGroup
  BY <1>1, <1>3, <1>4
<1>6. IsFiniteSet(S) /\ Cardinality(S) <= Cardinality(lo .. hi)
  BY <1>2, <1>3, <1>4, FS_Subset
<1> QED BY <1>5, <1>6, FS_CardinalityType

\* A descriptor has room for a count that is below 65536.
LEMMA FitsField == ASSUME NEW n \in Nat, n < 65536 PROVE U16(n) = n
BY DEF U16

-----------------------------------------------------------------------------
(* Inode tables and bitmaps.                                               *)

\* The calls before the resize inode has its blocks, and the ends of a build
\* that may come before.
Early == {"reserve", "journal", "journal_data", "resize", "failed", "crashed"}

\* An inode that was filled in has its table, and an inode in use was filled
\* in or is reserved.
UninitInv ==
  /\ \A n \in Numbers : GroupOfInode(n) \notin uninit
  /\ Unreserved \/ InUseInodes \subseteq (1 .. RESERVED_INODES) \cup Numbers
  /\ pc \in Early \/ RESIZE_INO \in Numbers

\* What ext4_update_free counts.
Counted ==
  [free_blocks |-> Total(free_blocks), free_inodes |-> Total(free_inodes),
   bg |-> [g \in Groups |->
            [free_blocks |-> U16(free_blocks[g]), free_inodes |-> U16(free_inodes[g]),
             used_dirs |-> U16(used_dirs[g]), uninit |-> g \in uninit]]]
CountedInv == pc = "done" => sb = Counted /\ alloc_pc = "idle"

\* Inodes come into use as they are filled in.
LEMMA UninitStep ==
  ASSUME UninitInv, BuildInv, BuildInv', [MkfsNext]_mkfsVars
  PROVE  UninitInv'
<1> USE DEF BuildInv
<1>1. Unreserved' <=> Unreserved
  BY ForceKept
<1>2. CASE MakeDirectory \/ MakeLeaf
  <2>1. PICK n, node : AllocateInode(n) /\ GetInode(n) /\ SetInode(n, node)
    BY <1>2 DEF MakeDirectory, MakeLeaf, BeginDirectory
  <2>2. InUseInodes' = InUseInodes \cup {n}
    BY <2>1, FreshInode
  <2>3. Numbers' = Numbers \cup {n}
    BY <2>1, SetInodeIs
  <2>4. uninit' = uninit \ {GroupOfInode(n)}
    BY <2>1 DEF GetInode
  <2>5. pc = "tree" /\ pc \notin Early
    BY <1>2 DEF MakeDirectory, MakeLeaf, Walking, Early
  <2> QED BY <1>1, <2>2, <2>3, <2>4, <2>5 DEF UninitInv, GroupOfInode
<1>3. CASE CreateJournal \/ CreateResize \/ MakeRoot
  <2>1. PICK n, node : GetInode(n) /\ SetInode(n, node) /\ (CreateResize => n = RESIZE_INO)
    BY <1>3 DEF CreateJournal, CreateResize, MakeRoot, BeginDirectory
  <2>2. inode_bitmap' = inode_bitmap
    BY <1>3 DEF CreateJournal, CreateResize, MakeRoot
  <2>3. InUseInodes' = InUseInodes
    BY <2>2 DEF InUseInodes
  <2>4. Numbers' = Numbers \cup {n}
    BY <2>1, SetInodeIs
  <2>5. uninit' = uninit \ {GroupOfInode(n)}
    BY <2>1 DEF GetInode
  <2>6. pc' \in Early \/ CreateResize \/ (MakeRoot /\ pc \notin Early)
    BY <1>3 DEF CreateJournal, MakeRoot, Early
  <2> QED BY <1>1, <2>1, <2>3, <2>4, <2>5, <2>6 DEF UninitInv, GroupOfInode
<1>4. CASE ReserveFirstInodes
  <2>1. pc' \in {"journal", "failed"} /\ uninit' = uninit /\ inodes' = inodes
    BY <1>4 DEF ReserveFirstInodes
  <2>2. InUseInodes' \subseteq (1 .. RESERVED_INODES) \/ InUseInodes' = {}
    <3>1. CASE pc' = "journal"
      BY <3>1 DEF RoomInv, Begun
    <3>2. CASE pc' # "journal"
      <4>1. inode_bitmap' = inode_bitmap /\ pc = "reserve"
        BY <1>4, <3>2 DEF ReserveFirstInodes
      <4>2. InUseInodes' = InUseInodes
        BY <4>1 DEF InUseInodes
      <4> QED BY <4>1, <4>2 DEF RoomInv
    <3> QED BY <3>1, <3>2
  <2> QED BY <1>1, <2>1, <2>2 DEF UninitInv, Early, Numbers
<1>5. CASE /\ Numbers' = Numbers /\ uninit' = uninit /\ inode_bitmap' = inode_bitmap
           /\ pc' \in Early \/ pc \notin Early \/ WithoutBlocks
  <2>1. InUseInodes' = InUseInodes
    BY <1>5 DEF InUseInodes
  <2>2. pc' \in Early \/ RESIZE_INO \in Numbers
    <3>1. CASE WithoutBlocks
      BY <3>1 DEF WithoutBlocks, UninitInv, Early
    <3> QED BY <1>5, <3>1 DEF UninitInv
  <2> QED BY <1>1, <1>5, <2>1, <2>2 DEF UninitInv
<1>6. CASE AttachInInode \/ AttachWithLeaf \/ AttachWhole \/ WithoutBlocks
  <2>1. uninit' = uninit /\ inode_bitmap' = inode_bitmap
    BY <1>6 DEF AttachInInode, AttachWithLeaf, AttachWhole, WithoutBlocks, inodeVars
  <2>2. Numbers' = Numbers
    <3>1. current.inum \in Numbers
      BY <1>6 DEF PlaceInv, AttachInInode, AttachWithLeaf, AttachWhole, WithoutBlocks, KeepInInode, KeepWithLeaf,
                  KeepWhole, OutOfSpace, InProgress
    <3>2. inodes' = inodes \/ \E node : SetInode(current.inum, node)
      BY <1>6 DEF PlaceInv, AttachInInode, AttachWithLeaf, AttachWhole, WithoutBlocks, Attach, ExtentsDone
    <3> QED BY <3>1, <3>2, SetInodeIs, SMTT(60) DEF Numbers
  <2>3. pc' \in Early \/ pc \notin Early \/ WithoutBlocks
    BY <1>6 DEF AttachInInode, AttachWithLeaf, Attach, ExtentsDone, AttachWhole, KeepWhole, WalkInv, Early
  <2> QED BY <1>5, <2>1, <2>2, <2>3
<1>7. CASE \/ FinishPlain \/ FinishXattrTooBig \/ FinishXattrBlock \/ OutOfInodes \/ NoJournal
           \/ GatherRegion \/ LeaveDirectory \/ UpdateFree \/ UNCHANGED mkfsVars
  <2>1. uninit' = uninit /\ inode_bitmap' = inode_bitmap /\ (pc' \in Early \/ pc \notin Early)
    BY <1>7 DEF FinishPlain, FinishXattrTooBig, FinishXattrBlock, OutOfInodes, NoJournal, GatherRegion,
                LeaveDirectory, UpdateFree, mkfsVars, mkfsOnly, inodeVars, Early
  <2>2. DOMAIN Patched = Numbers
    BY DEF Patched, Numbers
  <2>3. Numbers' = Numbers
    BY <1>7, <2>2 DEF FinishPlain, FinishXattrTooBig, FinishXattrBlock, WithAcl, OutOfInodes, NoJournal,
       GatherRegion, LeaveDirectory, UpdateFree, mkfsVars, mkfsOnly, Numbers
  <2> QED BY <1>5, <2>1, <2>3
<1> QED BY <1>2, <1>3, <1>4, <1>6, <1>7 DEF MkfsNext, MkfsStep

\* Nothing is built before the counts or changed after.
LEMMA UninitInit == MkfsInit => UninitInv /\ CountedInv
<1> SUFFICES ASSUME MkfsInit PROVE UninitInv /\ CountedInv
  OBVIOUS
<1>1. Numbers = {} /\ pc = "reserve"
  BY DEF MkfsInit, Numbers
<1>2. InUseInodes = {}
  BY <1>1, RoomInit DEF RoomInv
<1> QED BY <1>1, <1>2 DEF UninitInv, CountedInv, Early

\* What was counted last stays so.
LEMMA CountedStep ==
  ASSUME CountedInv, PlaceInv, PlaceInv', [MkfsNext]_mkfsVars
  PROVE  CountedInv'
<1> SUFFICES ASSUME pc' = "done" PROVE (sb = Counted)' /\ alloc_pc' = "idle"
  BY DEF CountedInv
<1>1. alloc_pc' = "idle"
  BY DEF PlaceInv, DataCalls
<1>2. CASE UpdateFree
  <2>1. UNCHANGED <<free_blocks, free_inodes, used_dirs, uninit>> /\ sb' = Counted
    BY <1>2 DEF UpdateFree, allocVars, bitmapVars, inodeVars, Counted
  <2>2. Counted' = Counted
    BY <2>1 DEF Counted, Total
  <2> QED BY <1>1, <2>1, <2>2
<1>3. CASE UNCHANGED mkfsVars
  <2>1. UNCHANGED <<pc, sb, free_blocks, free_inodes, used_dirs, uninit>>
    BY <1>3 DEF mkfsVars, mkfsOnly, allocVars, bitmapVars, inodeVars
  <2>2. Counted' = Counted
    BY <2>1 DEF Counted, Total
  <2> QED BY <1>1, <2>1, <2>2 DEF CountedInv
<1>4. CASE MkfsStep /\ ~UpdateFree
  <2>1. pc = "done" /\ alloc_pc = "idle"
    BY <1>4 DEF CountedInv, MkfsStep, ReserveFirstInodes, CreateJournal, NoJournal, CreateResize, MakeRoot, BeginDirectory,
       MakeDirectory, MakeLeaf, OutOfInodes, GatherRegion, mkfsOnly, AttachInInode, AttachWithLeaf, Attach,
       ExtentsDone, AttachWhole, WithoutBlocks, FinishPlain, FinishXattrTooBig, FinishXattrBlock, LeaveDirectory
  <2> QED BY <1>4, <2>1 DEF MkfsStep, ReserveFirstInodes, CreateJournal, NoJournal, CreateResize, MakeRoot,
       MakeDirectory, MakeLeaf, Walking, OutOfInodes, GatherRegion, AllocatePartial, AttachInInode, KeepInInode,
       AttachWithLeaf, KeepWithLeaf, AttachWhole, KeepWhole, WithoutBlocks, OutOfSpace, InProgress, FinishPlain,
       FinishXattrTooBig, FinishXattrBlock, LeaveDirectory
<1> QED BY <1>2, <1>3, <1>4 DEF MkfsNext

-----------------------------------------------------------------------------
(* The directories of a group.                                             *)

\* The directories there are and the one being made.
Dirs == DirInodes \cup {n \in Numbers : pc = "dir_data" /\ n = current.inum}
DirsInv ==
  /\ Unreserved \/ (pc \in Begun => DirInodes = {})
  /\ Unreserved \/ (pc \in {"link_data", "file_data"} => current.inum \notin DirInodes)
  /\ used_dirs \in [Groups -> Nat]
  /\ pc = "crashed" \/ Unreserved \/
       \A g \in Groups : used_dirs[g] = Cardinality({n \in Dirs : GroupOfInode(n) = g})

\* A step leaves the directories as they are, makes one, or stops.
DirsMove ==
  \/ Dirs' = Dirs /\ used_dirs' = used_dirs
  \/ \E n \in (1 .. NumGroups * InodesPerGroup) \ Dirs : Dirs' = Dirs \cup {n} /\ AddDirectory(n)
  \/ pc' = "crashed" /\ used_dirs' = used_dirs

\* An inode is replaced by one of the same kind.
LEMMA SameKind ==
  ASSUME NEW n \in Numbers, NEW node, SetInode(n, node), (node.type = "dir") <=> (inodes[n].type = "dir")
  PROVE  Numbers' = Numbers /\ DirInodes' = DirInodes
<1>1. Numbers' = Numbers /\ inodes'[n] = node /\ \A m \in Numbers : m # n => inodes'[m] = inodes[m]
  BY SetInodeIs
<1> QED BY <1>1 DEF DirInodes

\* A new inode is no directory yet.
LEMMA NewKind ==
  ASSUME NEW n, n \notin Numbers, NEW node, SetInode(n, node), node.type # "dir"
  PROVE  Numbers' = Numbers \cup {n} /\ DirInodes' = DirInodes
<1>1. Numbers' = Numbers \cup {n} /\ inodes'[n] = node /\ \A m \in Numbers : m # n => inodes'[m] = inodes[m]
  BY SetInodeIs
<1> QED BY <1>1 DEF DirInodes

\* The numbers of inodes.
LEMMA NumbersAre ==
  ASSUME RoomInv, ~Unreserved
  PROVE  Numbers \subseteq 1 .. NumGroups * InodesPerGroup
BY DEF RoomInv, InUseInodes

\* Making an inode.
LEMMA DirsMake ==
  ASSUME BuildInv, BuildInv', DirsInv, ~Unreserved, ~Unreserved',
         CreateJournal \/ CreateResize \/ MakeRoot \/ MakeDirectory \/ MakeLeaf
  PROVE  DirsMove /\ (pc' \in Begun => DirInodes' = {})
         /\ (pc' \in {"link_data", "file_data"} => current'.inum \notin DirInodes')
<1> USE DEF BuildInv
<1>1. Blank.type = "none" /\ Dirs \subseteq Numbers
  BY DEF Blank, Dirs, DirInodes
<1>2. CASE CreateJournal \/ CreateResize
  <2>1. PICK n : SetInode(n, Blank) /\ n \notin Numbers /\ used_dirs' = used_dirs
    <3>1. CASE CreateJournal
      BY <3>1 DEF CreateJournal, PlaceInv
    <3>2. CASE CreateResize
      <4>1. SetInode(RESIZE_INO, Blank) /\ used_dirs' = used_dirs /\ pc = "resize"
        BY <3>2 DEF CreateResize
      <4>2. RESIZE_INO \notin Numbers
        BY <4>1 DEF PlaceInv, RESIZE_INO, JOURNAL_INO
      <4> QED BY <4>1, <4>2
    <3> QED BY <1>2, <3>1, <3>2
  <2>2. DirInodes' = DirInodes
    BY <1>1, <2>1, NewKind
  <2>3. pc \in Begun /\ pc' \notin {"dir_data", "link_data", "file_data"} /\ pc # "dir_data"
    BY <1>2 DEF CreateJournal, CreateResize, Begun
  <2>4. DirInodes = {}
    BY <2>3 DEF DirsInv
  <2>5. Dirs' = Dirs
    BY <2>2, <2>3 DEF Dirs
  <2> QED BY <2>1, <2>2, <2>3, <2>4, <2>5 DEF DirsMove
<1>3. CASE MakeRoot \/ MakeDirectory
  <2>1. PICK n, d : n \notin Numbers /\ BeginDirectory(d, n) /\ n \in 1 .. NumGroups * InodesPerGroup
    <3>1. CASE MakeRoot
      <4>1. ROOT_INO \notin Numbers /\ BeginDirectory(RootDir, ROOT_INO)
        BY <3>1 DEF MakeRoot, PlaceInv, ROOT_INO, RESIZE_INO, JOURNAL_INO
      <4>2. ROOT_INO \in Numbers'
        BY <4>1, SetInodeIs DEF BeginDirectory
      <4> QED BY <4>1, <4>2 DEF RoomInv, InUseInodes
    <3>2. CASE MakeDirectory
      <4>1. PICK n : AllocateInode(n) /\ BeginDirectory(Entry.dir, n)
        BY <3>2 DEF MakeDirectory
      <4> QED BY <4>1, FreshInode DEF RoomInv
    <3> QED BY <1>3, <3>1, <3>2
  <2>2. SetInode(n, Blank) /\ AddDirectory(n) /\ pc' = "dir_data" /\ current'.inum = n
    BY <2>1 DEF BeginDirectory, Making
  <2>3. Numbers' = Numbers \cup {n} /\ DirInodes' = DirInodes
    BY <1>1, <2>1, <2>2, NewKind
  <2>4. pc # "dir_data"
    BY <1>3 DEF MakeRoot, MakeDirectory, Walking
  <2>5. Dirs' = Dirs \cup {n}
    BY <2>2, <2>3, <2>4 DEF Dirs
  <2> QED BY <1>1, <2>1, <2>2, <2>3, <2>5 DEF DirsMove, Begun
<1>4. CASE MakeLeaf
  <2>0. PICK n, node : /\ AllocateInode(n) /\ SetInode(n, node) /\ current' = Making(n, "", Entry.blocks)
                       /\ node = [Blank EXCEPT !.type = Entry.type, !.links = 1]
    BY <1>4 DEF MakeLeaf
  <2>1. AllocateInode(n) /\ SetInode(n, node) /\ current'.inum = n
    BY <2>0 DEF Making
  <2>2. n \notin Numbers
    BY <2>1, FreshInode DEF RoomInv
  <2>3. node.type # "dir"
    BY <1>4, <2>0 DEF Blank, MakeLeaf
  <2>4. DirInodes' = DirInodes
    BY <2>1, <2>2, <2>3, NewKind
  <2>5. pc # "dir_data" /\ pc' \notin Begun \cup {"dir_data"} /\ used_dirs' = used_dirs
    BY <1>4 DEF MakeLeaf, Walking, Begun
  <2>6. Dirs' = Dirs
    BY <2>4, <2>5 DEF Dirs
  <2>7. n \notin DirInodes'
    BY <2>2, <2>4 DEF DirInodes
  <2> QED BY <2>1, <2>5, <2>6, <2>7 DEF DirsMove
<1> QED BY <1>2, <1>3, <1>4

\* Blocks arrive.
LEMMA DirsAttach ==
  ASSUME BuildInv, DirsInv, ~Unreserved, AttachInInode \/ AttachWithLeaf
  PROVE  DirsMove /\ (pc' \in Begun => DirInodes' = {})
         /\ (pc' \in {"link_data", "file_data"} => current'.inum \notin DirInodes')
<1> USE DEF BuildInv
<1>0. used_dirs' = used_dirs
  BY DEF AttachInInode, AttachWithLeaf, inodeVars
<1>1. PICK l, leaf : Attach(WithExtents(inodes[current.inum], l, leaf))
  BY DEF AttachInInode, AttachWithLeaf
<1>2. current.inum \in Numbers /\ Made(inodes[current.inum])
  BY DEF PlaceInv, AttachInInode, AttachWithLeaf, KeepInInode, KeepWithLeaf
<1>3. CASE alloc_pc' # "idle"
  <2>1. inodes' = inodes /\ pc' = pc /\ current' = current
    BY <1>1, <1>3 DEF Attach
  <2> QED BY <1>0, <2>1 DEF DirsMove, DirsInv, Dirs, DirInodes, Numbers
<1>4. CASE alloc_pc' = "idle"
  <2>1. PICK node : /\ node = WithExtents(inodes[current.inum], l, leaf) /\ ExtentsDone(node)
                    /\ Made(node) /\ node.type = inodes[current.inum].type
    BY <1>1, <1>2, <1>4, WithExtentsIs DEF Attach
  <2>2. CASE pc = "journal_data"
    <3>1. PICK new : new = [node EXCEPT !.type = "file", !.links = 1]
      OBVIOUS
    <3>2. new.type = "file" /\ SetInode(current.inum, new) /\ pc' = "resize"
      BY <2>1, <2>2, <3>1 DEF Made, Blank, ExtentsDone
    <3>3. DirInodes = {}
      BY <2>2 DEF DirsInv, Begun
    <3>4. DirInodes' = DirInodes
      BY <1>2, <3>2, <3>3, SameKind DEF DirInodes
    <3>5. Dirs' = Dirs
      BY <2>2, <3>2, <3>4 DEF Dirs
    <3> QED BY <1>0, <3>2, <3>3, <3>4, <3>5 DEF DirsMove
  <2>3. CASE pc = "file_data"
    <3>1. SetInode(current.inum, node) /\ pc' = "finish"
      BY <2>1, <2>3 DEF ExtentsDone
    <3>2. DirInodes' = DirInodes
      BY <1>2, <2>1, <3>1, SameKind
    <3>3. Dirs' = Dirs
      BY <2>3, <3>1, <3>2 DEF Dirs
    <3> QED BY <1>0, <3>1, <3>2, <3>3 DEF DirsMove, Begun
  <2>4. CASE pc = "dir_data"
    <3>1. PICK new : new = AsDirectory(node, current.dir)
      OBVIOUS
    <3>2. new.type = "dir"
      BY <2>1, <3>1 DEF AsDirectory, Made, Blank
    <3>3. SetInode(current.inum, new) /\ pc' = "tree"
      BY <2>1, <2>4, <3>1 DEF ExtentsDone
    <3>4. Numbers' = Numbers /\ inodes'[current.inum] = new
          /\ \A m \in Numbers : m # current.inum => inodes'[m] = inodes[m]
      BY <1>2, <3>3, SetInodeIs
    <3>5. DirInodes' = DirInodes \cup {current.inum}
      BY <1>2, <3>2, <3>4 DEF DirInodes
    <3>6. Dirs' = Dirs
      BY <1>2, <2>4, <3>3, <3>5 DEF Dirs
    <3> QED BY <1>0, <3>3, <3>6 DEF DirsMove, Begun
  <2> QED BY <2>1, <2>2, <2>3, <2>4 DEF ExtentsDone
<1> QED BY <1>3, <1>4

\* So do blocks that are mapped whole, and requests that fail.
LEMMA DirsAttachWhole ==
  ASSUME BuildInv, DirsInv, ~Unreserved, AttachWhole \/ WithoutBlocks
  PROVE  DirsMove /\ (pc' \in Begun => DirInodes' = {})
         /\ (pc' \in {"link_data", "file_data"} => current'.inum \notin DirInodes')
<1> USE DEF BuildInv
<1>0. used_dirs' = used_dirs /\ current' = current
  BY DEF AttachWhole, WithoutBlocks, inodeVars
<1>1. current.inum \in Numbers /\ Made(inodes[current.inum])
  BY DEF PlaceInv, AttachWhole, KeepWhole, WithoutBlocks, OutOfSpace, InProgress
<1>2. CASE inodes' = inodes /\ pc' = pc
  BY <1>0, <1>2 DEF DirsMove, DirsInv, Dirs, DirInodes, Numbers
<1>3. CASE WithoutBlocks /\ pc' = "crashed"
  BY <1>0, <1>3 DEF DirsMove, Begun
<1>4. CASE inodes' = inodes /\ pc' # pc /\ pc' # "crashed" /\ pc # "resize_data" /\ WithoutBlocks
  <2>1. pc \in {"journal_data", "file_data"} /\ pc' \in {"resize", "finish"} /\ (pc' = "resize" => pc = "journal_data")
    BY <1>4 DEF WithoutBlocks
  <2>2. DirInodes' = DirInodes /\ Dirs' = Dirs
    BY <1>4, <2>1 DEF Dirs, DirInodes, Numbers
  <2> QED BY <1>0, <2>1, <2>2 DEF DirsMove, DirsInv, Begun
<1>5. CASE pc = "resize_data"
  <2>1. CASE inodes' = inodes /\ pc' = pc
    BY <1>2, <2>1
  <2>2. PICK m :
          \/ inodes' = inodes /\ pc' = pc
          \/ /\ SetInode(current.inum, [Blank EXCEPT !.type = "file", !.links = 1, !.map = m,
                                                     !.blocks = ReservedGdt + 1])
             /\ pc' = "root"
    BY <1>5 DEF AttachWhole, WithoutBlocks, PlaceInv
  <2>3. CASE ~(inodes' = inodes /\ pc' = pc)
    <3>1. PICK node : node = [Blank EXCEPT !.type = "file", !.links = 1, !.map = m, !.blocks = ReservedGdt + 1]
      OBVIOUS
    <3>2. node.type = "file" /\ SetInode(current.inum, node) /\ pc' = "root"
      BY <2>2, <2>3, <3>1 DEF Blank
    <3>3. DirInodes = {}
      BY <1>5 DEF DirsInv, Begun
    <3>4. DirInodes' = DirInodes
      BY <1>1, <3>2, <3>3, SameKind DEF DirInodes
    <3>5. Dirs' = Dirs
      BY <1>5, <3>2, <3>4 DEF Dirs
    <3> QED BY <1>0, <3>2, <3>3, <3>4, <3>5 DEF DirsMove
  <2> QED BY <2>1, <2>3
<1>6. CASE AttachWhole /\ pc # "resize_data"
  <2>1. pc = "link_data" /\ pc' = "finish"
    BY <1>6 DEF AttachWhole, KeepWhole, WalkInv
  <2>2. PICK node : node = [inodes[current.inum] EXCEPT !.map = Held(list), !.blocks = 1]
    OBVIOUS
  <2>3. node.type = inodes[current.inum].type
    BY <1>1, <2>2 DEF Made, Blank
  <2>4. SetInode(current.inum, node)
    BY <1>6, <2>2 DEF AttachWhole
  <2>5. DirInodes' = DirInodes
    BY <1>1, <2>3, <2>4, SameKind
  <2>6. Dirs' = Dirs
    BY <2>1, <2>5 DEF Dirs
  <2> QED BY <1>0, <2>1, <2>6 DEF DirsMove, Begun
<1> QED BY <1>2, <1>3, <1>4, <1>5, <1>6 DEF WithoutBlocks

\* The other steps leave every inode of its kind.
LEMMA DirsRest ==
  ASSUME BuildInv, DirsInv, ~Unreserved,
         \/ ReserveFirstInodes \/ NoJournal \/ OutOfInodes \/ GatherRegion \/ LeaveDirectory \/ UpdateFree
         \/ FinishPlain \/ FinishXattrTooBig \/ FinishXattrBlock \/ UNCHANGED mkfsVars
  PROVE  DirsMove /\ (pc' \in Begun => DirInodes' = {})
         /\ (pc' \in {"link_data", "file_data"} => current'.inum \notin DirInodes')
<1> USE DEF BuildInv
<1>1. used_dirs' = used_dirs
  BY DEF ReserveFirstInodes, NoJournal, OutOfInodes, GatherRegion, LeaveDirectory, UpdateFree, FinishPlain,
         FinishXattrTooBig, FinishXattrBlock, mkfsVars, inodeVars
<1>2. DOMAIN Patched = Numbers /\ \A n \in Numbers : Made(Patched[n]) /\ Patched[n].type = inodes[n].type
  BY PatchedKeeps DEF Patched, Numbers, PlaceInv
<1>3. Numbers' = Numbers /\ \A n \in Numbers : inodes'[n].type = inodes[n].type
  <2>1. CASE inodes' = inodes
    BY <2>1 DEF Numbers
  <2>2. CASE inodes' = Patched
    BY <1>2, <2>2 DEF Numbers
  <2>3. CASE FinishXattrBlock
    <3>1. PICK t, b : t = Patched /\ inodes' = WithAcl(t, b)
      BY <2>3 DEF FinishXattrBlock
    <3>2. DOMAIN t = Numbers /\ \A n \in Numbers : Made(t[n]) /\ t[n].type = inodes[n].type
      BY <1>2, <3>1
    <3>3. DOMAIN inodes' = Numbers
      BY <3>1, <3>2 DEF WithAcl
    <3>4. \A n \in Numbers : inodes'[n].type = t[n].type
      BY <3>1, <3>2 DEF WithAcl, Made, Blank
    <3> QED BY <3>2, <3>3, <3>4 DEF Numbers
  <2> QED BY <2>1, <2>2, <2>3 DEF ReserveFirstInodes, NoJournal, OutOfInodes, GatherRegion, LeaveDirectory,
           UpdateFree, FinishPlain, FinishXattrTooBig, FinishXattrBlock, mkfsVars, mkfsOnly
<1>4. DirInodes' = DirInodes
  BY <1>3 DEF DirInodes
<1>5. CASE pc' = pc /\ current' = current
  BY <1>1, <1>3, <1>4, <1>5 DEF DirsMove, DirsInv, Dirs
<1>6. CASE ~(pc' = pc /\ current' = current)
  <2>1. pc \notin DataCalls /\ pc' \notin DataCalls /\ (pc' \in Begun => pc \in Begun)
    BY <1>6 DEF ReserveFirstInodes, NoJournal, OutOfInodes, Walking, GatherRegion, LeaveDirectory, UpdateFree, FinishPlain,
         FinishXattrTooBig, FinishXattrBlock, mkfsVars, mkfsOnly, DataCalls, Begun
  <2>2. Dirs' = Dirs
    BY <1>3, <1>4, <2>1 DEF Dirs, DataCalls
  <2> QED BY <1>1, <1>4, <2>1, <2>2 DEF DirsMove, DirsInv, DataCalls
<1> QED BY <1>5, <1>6

\* A group counts its directories: one more is one more of its group.
LEMMA DirsCounted ==
  ASSUME NEW S, NEW n \in (1 .. NumGroups * InodesPerGroup) \ S, NEW g \in Groups,
         IsFiniteSet(S), NEW u \in [Groups -> Nat],
         u[g] = Cardinality({i \in S : GroupOfInode(i) = g})
  PROVE  [u EXCEPT ![GroupOfInode(n)] = @ + 1][g] = Cardinality({i \in S \cup {n} : GroupOfInode(i) = g})
<1>1. PICK h \in Groups : h = GroupOfInode(n)
  BY GroupIs
<1>2. PICK A : A = {i \in S : GroupOfInode(i) = g}
  OBVIOUS
<1>3. PICK B : B = {i \in S \cup {n} : GroupOfInode(i) = g}
  OBVIOUS
<1>4. IsFiniteSet(A) /\ n \notin A
  BY <1>2, FS_Subset
<1>5. CASE h = g
  <2>1. B = A \cup {n}
    BY <1>1, <1>2, <1>3, <1>5
  <2>2. Cardinality(B) = Cardinality(A) + 1
    BY <1>4, <2>1, FS_AddElement
  <2>3. [u EXCEPT ![h] = @ + 1][g] = u[g] + 1
    BY <1>5
  <2> QED BY <1>1, <1>2, <1>3, <2>2, <2>3
<1>6. CASE h # g
  <2>1. B = A
    BY <1>1, <1>2, <1>3, <1>6
  <2>2. [u EXCEPT ![h] = @ + 1][g] = u[g]
    BY <1>6
  <2> QED BY <1>1, <1>2, <1>3, <2>1, <2>2
<1> QED BY <1>5, <1>6

\* A program that crashed takes no step.
LEMMA CrashStays ==
  ASSUME BuildInv, [MkfsNext]_mkfsVars, pc = "crashed"
  PROVE  pc' = "crashed"
<1>1. alloc_pc = "idle"
  BY DEF BuildInv, PlaceInv, DataCalls
<1>2. CASE MkfsStep
  BY <1>1, <1>2 DEF MkfsStep, ReserveFirstInodes, CreateJournal, NoJournal, CreateResize, MakeRoot,
       MakeDirectory, MakeLeaf, Walking, OutOfInodes, GatherRegion, AllocatePartial, AttachInInode, KeepInInode,
       AttachWithLeaf, KeepWithLeaf, AttachWhole, KeepWhole, WithoutBlocks, OutOfSpace, InProgress, FinishPlain,
       FinishXattrTooBig, FinishXattrBlock, LeaveDirectory, UpdateFree
<1>3. CASE UNCHANGED mkfsVars
  BY <1>3 DEF mkfsVars, mkfsOnly
<1> QED BY <1>2, <1>3 DEF MkfsNext

\* The count of directories in a group keeps up.
LEMMA DirsStep ==
  ASSUME BuildInv, BuildInv', DirsInv, [MkfsNext]_mkfsVars
  PROVE  DirsInv'
<1>1. Unreserved' <=> Unreserved
  BY ForceKept
<1>2. used_dirs' \in [Groups -> Nat]
  <2>1. used_dirs' = used_dirs \/ \E n : AddDirectory(n)
    BY DEF MkfsNext, MkfsStep, mkfsVars, inodeVars, ReserveFirstInodes, CreateJournal, NoJournal, CreateResize,
       MakeRoot, MakeDirectory, BeginDirectory, MakeLeaf, OutOfInodes, GatherRegion, AttachInInode,
       AttachWithLeaf, AttachWhole, WithoutBlocks, FinishPlain, FinishXattrTooBig, FinishXattrBlock,
       LeaveDirectory, UpdateFree
  <2>2. ASSUME NEW n, AddDirectory(n) PROVE used_dirs' \in [Groups -> Nat]
    <3>1. PICK u, x : u = used_dirs /\ x = GroupOfInode(n)
      OBVIOUS
    <3>2. u \in [Groups -> Nat] /\ used_dirs' = [u EXCEPT ![x] = @ + 1]
      BY <2>2, <3>1 DEF AddDirectory, DirsInv
    <3>3. PICK v : v = [g \in Groups |-> IF g = x THEN u[g] + 1 ELSE u[g]]
      OBVIOUS
    <3>4. \A g \in Groups : v[g] \in Nat
      BY <3>2, <3>3
    <3>5. v \in [Groups -> Nat]
      BY <3>3, <3>4
    <3>6. used_dirs' = v
      BY <3>2, <3>3
    <3> QED BY <3>5, <3>6
  <2> QED BY <2>1, <2>2 DEF DirsInv
<1>3. CASE Unreserved
  BY <1>1, <1>2, <1>3 DEF DirsInv
<1>4. CASE ~Unreserved
  <2>1. /\ DirsMove /\ (pc' \in Begun => DirInodes' = {})
        /\ (pc' \in {"link_data", "file_data"} => current'.inum \notin DirInodes')
    BY <1>1, <1>4, DirsMake, DirsAttach, DirsAttachWhole, DirsRest DEF MkfsNext, MkfsStep
  <2>2. ASSUME pc' # "crashed", NEW g \in Groups
        PROVE  used_dirs'[g] = Cardinality({n \in Dirs' : GroupOfInode(n) = g})
    <3>1. pc # "crashed"
      BY <2>2, CrashStays
    <3>2. used_dirs[g] = Cardinality({n \in Dirs : GroupOfInode(n) = g}) /\ used_dirs \in [Groups -> Nat]
      BY <1>4, <3>1 DEF DirsInv
    <3>3. CASE Dirs' = Dirs /\ used_dirs' = used_dirs
      BY <3>2, <3>3
    <3>4. CASE \E n \in (1 .. NumGroups * InodesPerGroup) \ Dirs : Dirs' = Dirs \cup {n} /\ AddDirectory(n)
      <4>1. PICK n \in (1 .. NumGroups * InodesPerGroup) \ Dirs : Dirs' = Dirs \cup {n} /\ AddDirectory(n)
        BY <3>4
      <4>2. IsFiniteSet(Dirs)
        <5>1. Dirs \subseteq 1 .. NumGroups * InodesPerGroup
          BY <1>4, NumbersAre DEF BuildInv, Dirs, DirInodes
        <5>2. NumGroups * InodesPerGroup \in Int
          BY NumGroupsAssumption, InodesAssumption
        <5>3. IsFiniteSet(1 .. NumGroups * InodesPerGroup)
          BY <5>2, FS_Interval
        <5> QED BY <5>1, <5>3, FS_Subset
      <4>3. PICK S, u : S = Dirs /\ u = used_dirs
        OBVIOUS
      <4>4. [u EXCEPT ![GroupOfInode(n)] = @ + 1][g] = Cardinality({i \in S \cup {n} : GroupOfInode(i) = g})
        BY <3>2, <4>2, <4>3, DirsCounted
      <4>5. used_dirs' = [u EXCEPT ![GroupOfInode(n)] = @ + 1] /\ Dirs' = S \cup {n}
        BY <4>1, <4>3 DEF AddDirectory
      <4> QED BY <4>4, <4>5
    <3> QED BY <2>1, <2>2, <3>3, <3>4 DEF DirsMove
  <2> QED BY <1>2, <2>1, <2>2 DEF DirsInv, GroupOfInode
<1> QED BY <1>3, <1>4

\* There are no directories at first.
LEMMA DirsInit == MkfsInit => DirsInv
<1> SUFFICES ASSUME MkfsInit PROVE DirsInv
  OBVIOUS
<1>1. Numbers = {} /\ pc = "reserve" /\ used_dirs = [g \in Groups |-> 0]
  BY DEF MkfsInit, Numbers, InodesInit
<1>2. DirInodes = {} /\ Dirs = {}
  BY <1>1 DEF DirInodes, Dirs
<1>3. ASSUME NEW g \in Groups PROVE used_dirs[g] = Cardinality({n \in Dirs : GroupOfInode(n) = g})
  <2>1. {n \in Dirs : GroupOfInode(n) = g} = {}
    BY <1>2
  <2> QED BY <1>1, <2>1, FS_EmptySet
<1> QED BY <1>1, <1>2, <1>3 DEF DirsInv

-----------------------------------------------------------------------------
(* What ext4_update_free writes.                                           *)

\* The counts hold of every state of a build.
LEMMA CountsInvariance == MkfsSpec => [](BuildInv /\ UninitInv /\ DirsInv /\ CountedInv)
<1>1. MkfsInit => UninitInv /\ DirsInv /\ CountedInv
  BY UninitInit, DirsInit
<1>2. BuildInv /\ BuildInv' /\ UninitInv /\ DirsInv /\ CountedInv /\ [MkfsNext]_mkfsVars
      => UninitInv' /\ DirsInv' /\ CountedInv'
  BY UninitStep, DirsStep, CountedStep DEF BuildInv
<1> QED BY <1>1, <1>2, BuildInvariance, PTL DEF MkfsSpec

\* A build that is done has all reserved inodes.
LEMMA DoneIsRoomy ==
  ASSUME BuildInv, pc = "done", ~Unreserved
  PROVE  Roomy /\ Numbers \subseteq InUseInodes
BY DEF BuildInv, RoomInv

\* The inode table of a group that has an inode is never left uninitialized.
THEOREM UninitGroupsStayEmpty == MkfsSpec => []UninitGroupsAreEmpty
<1>1. BuildInv /\ UninitInv /\ CountedInv => UninitGroupsAreEmpty
  <2> SUFFICES ASSUME BuildInv, UninitInv, CountedInv, pc = "done", ~Unreserved, NEW n \in InUseInodes \cup Numbers
               PROVE  ~sb.bg[GroupOfInode(n)].uninit
    BY DEF UninitGroupsAreEmpty
  <2>1. n \in InUseInodes /\ InodesPerGroup >= RESERVED_INODES
    BY DoneIsRoomy DEF Roomy
  <2>2. GroupOfInode(n) \in Groups
    BY <2>1, GroupIs DEF InUseInodes
  <2>3. GroupOfInode(n) \notin uninit
    <3>1. CASE n \in Numbers
      BY <3>1 DEF UninitInv
    <3>2. CASE n \in 1 .. RESERVED_INODES
      <4>1. GroupOfInode(n) = GroupOfInode(RESIZE_INO)
        <5>1. PICK r \in 0 .. InodesPerGroup - 1 : r = n - 1
          BY <2>1, <3>2, InodesAssumption DEF RESERVED_INODES
        <5>2. r \div InodesPerGroup = 0 /\ 6 \div InodesPerGroup = 0
          BY <2>1, <5>1, InodesAssumption DEF RESERVED_INODES
        <5> QED BY <5>1, <5>2 DEF GroupOfInode, RESIZE_INO
      <4>2. RESIZE_INO \in Numbers
        BY DEF UninitInv, Early
      <4> QED BY <4>1, <4>2 DEF UninitInv
    <3> QED BY <2>1, <3>1, <3>2 DEF UninitInv
  <2>4. sb.bg[GroupOfInode(n)].uninit = (GroupOfInode(n) \in uninit)
    <3>1. sb = Counted
      BY DEF CountedInv
    <3> QED BY <2>2, <3>1 DEF Counted
  <2> QED BY <2>3, <2>4
<1> QED BY <1>1, CountsInvariance, PTL

\* The superblock and the descriptors count the free blocks, the free inodes
\* and the directories there are in the bitmaps and the inode tables.
THEOREM CountsMatch == MkfsSpec => []CountsMatchImage
<1>1. BuildInv /\ DirsInv /\ CountedInv => CountsMatchImage
  <2> SUFFICES ASSUME BuildInv, DirsInv, CountedInv, pc = "done", ~Unreserved
               PROVE  /\ sb.free_blocks = Cardinality(Block \ InUse)
                      /\ sb.free_inodes = Cardinality((1 .. NumGroups * InodesPerGroup) \ InUseInodes)
                      /\ \A g \in Groups :
                           /\ sb.bg[g].free_blocks = Cardinality({b \in Block \ InUse : b[1] = g})
                           /\ sb.bg[g].free_inodes = Cardinality(Below(g) \ InUseInodes)
                           /\ sb.bg[g].used_dirs = Cardinality(DirInodes \cap Below(g))
    BY DEF CountsMatchImage, Below
  <2>1. /\ sb.free_blocks = Total(free_blocks) /\ sb.free_inodes = Total(free_inodes)
        /\ \A g \in Groups : /\ sb.bg[g].free_blocks = U16(free_blocks[g])
                             /\ sb.bg[g].free_inodes = U16(free_inodes[g])
                             /\ sb.bg[g].used_dirs = U16(used_dirs[g])
    <3>1. sb = Counted
      BY DEF CountedInv
    <3> QED BY <3>1 DEF Counted
  <2>2. /\ Total(free_blocks) = Cardinality(Block \ InUse)
        /\ \A g \in Groups : free_blocks[g] = Cardinality({b \in Block \ InUse : b[1] = g})
    BY FreeBlocksTotal DEF BuildInv
  <2>3. /\ Total(free_inodes) = Cardinality((1 .. NumGroups * InodesPerGroup) \ InUseInodes)
        /\ \A g \in Groups : free_inodes[g] = Cardinality(Below(g) \ InUseInodes)
    BY FreeInodesTotal DEF BuildInv
  <2>4. Dirs = DirInodes /\ DirInodes \subseteq 1 .. NumGroups * InodesPerGroup
    BY DoneIsRoomy DEF Dirs, DirInodes, InUseInodes
  <2>5. ASSUME NEW g \in Groups PROVE used_dirs[g] = Cardinality(DirInodes \cap Below(g))
    <3>1. used_dirs[g] = Cardinality({n \in DirInodes : GroupOfInode(n) = g})
      BY <2>4 DEF DirsInv
    <3>2. {n \in DirInodes : GroupOfInode(n) = g} = DirInodes \cap Below(g)
      BY <2>4 DEF Below
    <3> QED BY <3>1, <3>2
  <2>6. ASSUME NEW g \in Groups
        PROVE  /\ U16(free_blocks[g]) = free_blocks[g] /\ U16(free_inodes[g]) = free_inodes[g]
               /\ U16(used_dirs[g]) = used_dirs[g]
    <3>1. free_blocks[g] \in Nat /\ free_blocks[g] < 65536
      <4>1. free_blocks[g] \in 0 .. BlocksPerGroup
        BY DEF BuildInv, AllocatorInv, AllocatorTypeOK
      <4> QED BY <4>1, GeometryAssumption, WidthAssumption
    <3>2. free_inodes[g] \in Nat /\ free_inodes[g] < 65536
      <4>1. free_inodes[g] \in 0 .. InodesPerGroup
        BY DEF BuildInv, InodesInv
      <4> QED BY <4>1, InodesAssumption, WidthAssumption
    <3>3. used_dirs[g] \in Nat /\ used_dirs[g] < 65536
      <4>1. PICK n : n = used_dirs[g]
        OBVIOUS
      <4>2. n \in Nat /\ n <= InodesPerGroup
        BY <2>5, <4>1, BelowIsSmall
      <4> QED BY <4>1, <4>2, InodesAssumption, WidthAssumption
    <3> QED BY <3>1, <3>2, <3>3, FitsField
  <2> QED BY <2>1, <2>2, <2>3, <2>5, <2>6
<1> QED BY <1>1, CountsInvariance, PTL

-----------------------------------------------------------------------------
(* Directories and what their entries name.                                *)

DirsIn(table) == {n \in DOMAIN table : table[n].type = "dir"}

\* Entry k of directory d names inode n.
Names(table, d, k, n) ==
  d \in DirsIn(table) /\ k \in DOMAIN table[d].dents /\ table[d].dents[k] = n /\ n # 0

\* The directories being walked but the root, which no entry names yet.
Unnamed(s) == {s[k].inum : k \in 1 .. Len(s) - 1}

\* Directory n was made for the directory d of the source tree.
Like(table, n, d) ==
  /\ table[n].links = Subdirs(d) + 2
  /\ DOMAIN table[n].dents = DOMAIN EntriesOf(d)
  /\ \A k \in DOMAIN table[n].dents : table[n].dents[k] # 0 =>
       (EntriesOf(d)[k].type = "dir" <=> table[n].dents[k] \in DirsIn(table))

\* No inode is named twice.
NamedOnce(table) ==
  \A n, d, e, k, j : Names(table, d, k, n) /\ Names(table, e, j, n) => d = e /\ k = j

\* An inode in use is named, or is walked or in hand and still to be named.
NamedOrOpen(table, s, hand, used) ==
  /\ \A n : n \in used <=> n \in Unnamed(s) \cup hand \/ \E d, k : Names(table, d, k, n)
  /\ \A n, d, k : Names(table, d, k, n) => n \notin Unnamed(s) \cup hand

\* A directory being walked is named up to the entry in hand, others to the end.
WalkedUpTo(table, s) ==
  /\ \A k \in DOMAIN s : s[k].inum \in DirsIn(table) /\ Like(table, s[k].inum, s[k].dir)
  /\ \A k \in DOMAIN s : \A j \in DOMAIN table[s[k].inum].dents :
       table[s[k].inum].dents[j] # 0 <=> j < s[k].pos
  /\ \A k \in 2 .. Len(s) : /\ s[k].pos \in DOMAIN EntriesOf(s[k].dir)
                            /\ EntriesOf(s[k].dir)[s[k].pos].type = "dir"
WalkedAll(table, s) ==
  \A n \in DirsIn(table) :
    /\ \E d : Like(table, n, d)
    /\ \/ \E k \in DOMAIN s : s[k].inum = n
       \/ \A j \in DOMAIN table[n].dents : table[n].dents[j] # 0

\* The parent of a directory names it, or will.
ParentsName(table, s, hand) ==
  \A n \in DirsIn(table) \ {ROOT_INO} :
    \/ \E k : Names(table, table[n].parent, k, n)
    \/ \E k \in 1 .. Len(s) - 1 : s[k].inum = n /\ table[n].parent = s[k + 1].inum
    \/ n \in hand /\ Len(s) > 0 /\ table[n].parent = s[1].inum

TreeOf(table, s, hand, used) ==
  /\ NamedOnce(table)
  /\ NamedOrOpen(table, s, hand, used)
  /\ WalkedUpTo(table, s)
  /\ WalkedAll(table, s)
  /\ ParentsName(table, s, hand)

\* The calls from the root directory to the end of the tree.
Walks == EntryCalls \cup {"tree", "update"}
AtHand == {n \in {current.inum} : pc \in EntryCalls /\ stack # <<>>}
Past == InUseInodes \ (1 .. RESERVED_INODES)

\* The entry in hand is the one its inode was made for.
EntryInHand ==
  /\ pc \in EntryCalls /\ stack # <<>> => Head(stack).pos \in DOMAIN EntriesOf(Head(stack).dir)
  /\ pc = "dir_data" => /\ current.inum \notin DirInodes
                        /\ stack # <<>> => Entry.type = "dir"
  /\ pc \in {"link_data", "file_data"} => current.inum \notin DirInodes /\ Entry.type # "dir"
  /\ pc = "finish" => (Entry.type = "dir" <=> current.inum \in DirInodes)
  /\ pc = "update" => stack = <<>>

TreeInv ==
  Unreserved \/ pc \notin Walks \/ (TreeOf(inodes, stack, AtHand, Past) /\ EntryInHand)

-----------------------------------------------------------------------------
(* What happens to the directories.                                        *)

\* The directories and their entries stay.
DirsStay(table, new) ==
  /\ DirsIn(new) = DirsIn(table)
  /\ \A n \in DirsIn(table) : /\ new[n].dents = table[n].dents /\ new[n].links = table[n].links
                              /\ new[n].parent = table[n].parent

\* Then what they name stays.
LEMMA NamesStay ==
  ASSUME NEW table, NEW new, DirsStay(table, new)
  PROVE  /\ \A d, k, n : Names(new, d, k, n) <=> Names(table, d, k, n)
         /\ \A n \in DirsIn(table) : \A d : Like(table, n, d) => Like(new, n, d)
BY DEF DirsStay, Names, Like

\* So does the order of the tree.
LEMMA TreeStays ==
  ASSUME NEW table, NEW new, DirsStay(table, new), NEW s, NEW hand, NEW used, TreeOf(table, s, hand, used)
  PROVE  TreeOf(new, s, hand, used)
<1> USE NamesStay DEF TreeOf
<1>1. NamedOnce(new)
  BY DEF NamedOnce
<1>2. NamedOrOpen(new, s, hand, used)
  BY DEF NamedOrOpen
<1>3. WalkedUpTo(new, s)
  BY DEF WalkedUpTo, DirsStay
<1>4. WalkedAll(new, s)
  BY DEF WalkedAll, DirsStay
<1>5. ParentsName(new, s, hand)
  BY DEF ParentsName, DirsStay
<1> QED BY <1>1, <1>2, <1>3, <1>4, <1>5

\* An inode that was free comes into use, and is in hand.
LEMMA TreeTakes ==
  ASSUME NEW table, NEW s, NEW used, TreeOf(table, s, {}, used), NEW n, n \notin used
  PROVE  TreeOf(table, s, {n}, used \cup {n})
<1> USE DEF TreeOf
<1>1. NamedOrOpen(table, s, {n}, used \cup {n})
  BY DEF NamedOrOpen
<1>2. ParentsName(table, s, {n})
  BY DEF ParentsName
<1> QED BY <1>1, <1>2

\* The inode in hand becomes a directory without names.
Fresh(node, d) == /\ node.type = "dir" /\ node.links = Subdirs(d) + 2
                  /\ DOMAIN node.dents = DOMAIN EntriesOf(d)
                  /\ \A k \in DOMAIN node.dents : node.dents[k] = 0
Adds(table, new, n, node) ==
  /\ n \notin DirsIn(table) /\ DirsIn(new) = DirsIn(table) \cup {n} /\ new[n] = node
  /\ \A m \in DirsIn(table) : new[m] = table[m]

\* A directory without names takes no name away.
LEMMA NamesAdd ==
  ASSUME NEW table, NEW new, NEW n, NEW node, Adds(table, new, n, node), NEW d0, Fresh(node, d0),
         \A d, k : ~Names(table, d, k, n)
  PROVE  /\ \A d, k, m : Names(new, d, k, m) <=> Names(table, d, k, m)
         /\ \A m \in DirsIn(table) : \A d : Like(table, m, d) => Like(new, m, d)
         /\ Like(new, n, d0)
<1>1. \A d, k, m : Names(new, d, k, m) <=> Names(table, d, k, m)
  BY DEF Names, Adds, Fresh
<1>2. ASSUME NEW m \in DirsIn(table), NEW d, Like(table, m, d) PROVE Like(new, m, d)
  <2>1. new[m] = table[m]
    BY DEF Adds
  <2>2. ASSUME NEW k \in DOMAIN table[m].dents, table[m].dents[k] # 0
        PROVE  table[m].dents[k] \in DirsIn(new) <=> table[m].dents[k] \in DirsIn(table)
    <3>1. Names(table, m, k, table[m].dents[k])
      BY <2>2 DEF Names
    <3>2. table[m].dents[k] # n
      BY <3>1
    <3> QED BY <3>2 DEF Adds
  <2> QED BY <1>2, <2>1, <2>2 DEF Like
<1>3. Like(new, n, d0)
  BY DEF Like, Adds, Fresh
<1> QED BY <1>1, <1>2, <1>3

\* The stack with a directory on top.
OnTop(new, s, n, d) ==
  /\ Len(new) = Len(s) + 1 /\ DOMAIN new = 1 .. Len(new)
  /\ new[1].inum = n /\ new[1].dir = d
  /\ \A k \in 1 .. Len(s) : new[k + 1] = s[k]

\* One more directory is walked: the one below it stays to be named.
LEMMA UnnamedPush ==
  ASSUME NEW s, Len(s) \in Nat, NEW new, NEW n, NEW d, OnTop(new, s, n, d)
  PROVE  /\ Len(s) > 0 => Unnamed(new) = Unnamed(s) \cup {n}
         /\ Len(s) = 0 => Unnamed(new) = {} /\ Unnamed(s) = {}
<1>1. CASE Len(s) = 0
  <2>1. 1 .. Len(new) - 1 = {} /\ 1 .. Len(s) - 1 = {}
    BY <1>1 DEF OnTop
  <2>2. Unnamed(new) = {} /\ Unnamed(s) = {}
    BY <2>1 DEF Unnamed
  <2> QED BY <1>1, <2>2
<1>2. CASE Len(s) > 0
  <2>1. ASSUME NEW m \in Unnamed(new) PROVE m \in Unnamed(s) \cup {n}
    <3>1. PICK k \in 1 .. Len(s) : m = new[k].inum
      BY <1>2 DEF Unnamed, OnTop
    <3>2. CASE k = 1
      BY <3>1, <3>2 DEF OnTop
    <3>3. CASE k # 1
      <4>1. PICK j \in 1 .. Len(s) - 1 : k = j + 1
        <5>1. k - 1 \in 1 .. Len(s) - 1 /\ k = (k - 1) + 1
          BY <3>3
        <5> QED BY <5>1
      <4>2. new[k] = s[j]
        BY <4>1 DEF OnTop
      <4> QED BY <3>1, <4>2 DEF Unnamed
    <3> QED BY <3>2, <3>3
  <2>2. ASSUME NEW m \in Unnamed(s) \cup {n} PROVE m \in Unnamed(new)
    <3>1. CASE m = n
      <4>1. 1 \in 1 .. Len(new) - 1 /\ new[1].inum = m
        BY <1>2, <3>1 DEF OnTop
      <4> QED BY <4>1 DEF Unnamed
    <3>2. CASE m \in Unnamed(s)
      <4>1. PICK j \in 1 .. Len(s) - 1 : m = s[j].inum
        BY <3>2 DEF Unnamed
      <4>2. j + 1 \in 1 .. Len(new) - 1 /\ new[j + 1] = s[j]
        BY DEF OnTop
      <4> QED BY <4>1, <4>2 DEF Unnamed
    <3> QED BY <2>2, <3>1, <3>2
  <2> QED BY <1>2, <2>1, <2>2
<1> QED BY <1>1, <1>2

\* The inode in hand, or the root, becomes the directory that is walked.
LEMMA TreePush ==
  ASSUME NEW table, NEW new, NEW n, NEW node, Adds(table, new, n, node), NEW d0, Fresh(node, d0),
         DOMAIN EntriesOf(d0) \subseteq Nat \ {0},
         NEW s, Len(s) \in Nat, DOMAIN s = 1 .. Len(s), NEW over, OnTop(over, s, n, d0), over[1].pos = 1,
         NEW hand, NEW used, TreeOf(table, s, hand, used),
         \/ /\ hand = {n} /\ Len(s) > 0 /\ node.parent = s[1].inum
            /\ s[1].pos \in DOMAIN EntriesOf(s[1].dir)
            /\ EntriesOf(s[1].dir)[s[1].pos].type = "dir"
         \/ hand = {} /\ Len(s) = 0 /\ n = ROOT_INO /\ n \notin used
  PROVE  TreeOf(new, over, {}, used)
<1> USE DEF TreeOf
<1>1. \A d, k : ~Names(table, d, k, n)
  BY DEF NamedOrOpen
<1>2. /\ \A d, k, m : Names(new, d, k, m) <=> Names(table, d, k, m)
      /\ \A m \in DirsIn(table) : \A d : Like(table, m, d) => Like(new, m, d)
      /\ Like(new, n, d0)
  BY <1>1, NamesAdd
<1>3. NamedOnce(new)
  BY <1>2 DEF NamedOnce
<1>4. Unnamed(over) \cup {} = Unnamed(s) \cup hand
  BY UnnamedPush
<1>5. NamedOrOpen(new, over, {}, used)
  BY <1>2, <1>4 DEF NamedOrOpen
<1>6. ASSUME NEW k \in DOMAIN over, k # 1
      PROVE  k - 1 \in DOMAIN s /\ over[k] = s[k - 1]
  <2>1. k - 1 \in 1 .. Len(s) /\ k = (k - 1) + 1
    BY <1>6 DEF OnTop
  <2>2. over[(k - 1) + 1] = s[k - 1]
    BY <2>1 DEF OnTop
  <2> QED BY <2>1, <2>2
<1>7. WalkedUpTo(new, over)
  <2>1. ASSUME NEW k \in DOMAIN over
        PROVE  /\ over[k].inum \in DirsIn(new) /\ Like(new, over[k].inum, over[k].dir)
               /\ \A j \in DOMAIN new[over[k].inum].dents :
                    new[over[k].inum].dents[j] # 0 <=> j < over[k].pos
    <3>1. CASE k = 1
      <4>1. over[k].inum = n /\ over[k].dir = d0 /\ over[k].pos = 1
        BY <3>1 DEF OnTop
      <4>2. \A j \in DOMAIN new[n].dents : new[n].dents[j] = 0 /\ j \in Nat \ {0}
        BY DEF Adds, Fresh
      <4>3. \A j \in DOMAIN new[n].dents : new[n].dents[j] # 0 <=> j < 1
        BY <4>2
      <4> QED BY <1>2, <4>1, <4>3 DEF Adds
    <3>2. CASE k # 1
      <4>1. PICK i \in DOMAIN s : over[k] = s[i]
        BY <1>6, <3>2
      <4>2. s[i].inum \in DirsIn(table) /\ Like(table, s[i].inum, s[i].dir)
            /\ \A j \in DOMAIN table[s[i].inum].dents : table[s[i].inum].dents[j] # 0 <=> j < s[i].pos
        BY DEF WalkedUpTo
      <4>3. new[s[i].inum] = table[s[i].inum] /\ s[i].inum \in DirsIn(new)
        BY <4>2 DEF Adds
      <4> QED BY <1>2, <4>1, <4>2, <4>3
    <3> QED BY <3>1, <3>2
  <2>2. ASSUME NEW k \in 2 .. Len(over)
        PROVE  over[k].pos \in DOMAIN EntriesOf(over[k].dir) /\ EntriesOf(over[k].dir)[over[k].pos].type = "dir"
    <3>1. k \in DOMAIN over /\ k # 1
      BY DEF OnTop
    <3>2. PICK i \in DOMAIN s : over[k] = s[i] /\ i = k - 1
      BY <1>6, <3>1
    <3>3. CASE i = 1
      <4>1. hand = {n} /\ Len(s) > 0
        BY <3>2
      <4> QED BY <3>2, <3>3, <4>1
    <3>4. CASE i # 1
      <4>1. i \in 2 .. Len(s)
        BY <3>4
      <4> QED BY <3>2, <4>1 DEF WalkedUpTo
    <3> QED BY <3>3, <3>4
  <2> QED BY <2>1, <2>2 DEF WalkedUpTo
<1>8. WalkedAll(new, over)
  <2> SUFFICES ASSUME NEW m \in DirsIn(new)
               PROVE  /\ \E d : Like(new, m, d)
                      /\ \/ \E k \in DOMAIN over : over[k].inum = m
                         \/ \A j \in DOMAIN new[m].dents : new[m].dents[j] # 0
    BY DEF WalkedAll
  <2>1. CASE m = n
    <3>1. 1 \in DOMAIN over /\ over[1].inum = n
      BY DEF OnTop
    <3> QED BY <1>2, <2>1, <3>1
  <2>2. CASE m # n
    <3>1. m \in DirsIn(table) /\ new[m] = table[m]
      BY <2>2 DEF Adds
    <3>2. CASE \E k \in DOMAIN s : s[k].inum = m
      <4>1. PICK k \in DOMAIN s : s[k].inum = m
        BY <3>2
      <4>2. k + 1 \in DOMAIN over /\ over[k + 1] = s[k]
        BY DEF OnTop
      <4>3. \E d : Like(new, m, d)
        BY <1>2, <3>1 DEF WalkedAll
      <4> QED BY <4>1, <4>2, <4>3
    <3>3. CASE ~\E k \in DOMAIN s : s[k].inum = m
      <4>1. (\E d : Like(new, m, d)) /\ \A j \in DOMAIN table[m].dents : table[m].dents[j] # 0
        BY <1>2, <3>1, <3>3 DEF WalkedAll
      <4> QED BY <3>1, <4>1
    <3> QED BY <3>2, <3>3
  <2> QED BY <2>1, <2>2
<1>9. ParentsName(new, over, {})
  <2> SUFFICES ASSUME NEW m \in DirsIn(new), m # ROOT_INO
               PROVE  \/ \E k : Names(new, new[m].parent, k, m)
                      \/ \E k \in 1 .. Len(over) - 1 : over[k].inum = m /\ new[m].parent = over[k + 1].inum
    BY DEF ParentsName
  <2>1. CASE m = n
    <3>1. Len(s) > 0 /\ node.parent = s[1].inum
      BY <2>1
    <3>2. 1 \in 1 .. Len(over) - 1 /\ over[1].inum = n /\ over[1 + 1] = s[1] /\ new[n] = node
      BY <3>1 DEF OnTop, Adds
    <3> QED BY <2>1, <3>1, <3>2
  <2>2. CASE m # n
    <3>1. m \in DirsIn(table) /\ new[m] = table[m]
      BY <2>2 DEF Adds
    <3>2. CASE \E k : Names(table, table[m].parent, k, m)
      BY <1>2, <3>1, <3>2
    <3>3. CASE \E k \in 1 .. Len(s) - 1 : s[k].inum = m /\ table[m].parent = s[k + 1].inum
      <4>1. PICK k \in 1 .. Len(s) - 1 : s[k].inum = m /\ table[m].parent = s[k + 1].inum
        BY <3>3
      <4>2. PICK i \in 1 .. Len(over) - 1 : i = k + 1
        BY DEF OnTop
      <4>3. over[i] = s[k] /\ over[i + 1] = s[k + 1]
        <5>1. k \in 1 .. Len(s) /\ k + 1 \in 1 .. Len(s)
          OBVIOUS
        <5>2. over[k + 1] = s[k] /\ over[(k + 1) + 1] = s[k + 1]
          BY <5>1 DEF OnTop
        <5> QED BY <4>2, <5>2
      <4> QED BY <3>1, <4>1, <4>3
    <3>4. m \notin hand
      BY <2>2
    <3> QED BY <3>1, <3>2, <3>3, <3>4 DEF ParentsName
  <2> QED BY <2>1, <2>2
<1> QED BY <1>3, <1>5, <1>7, <1>8, <1>9

-----------------------------------------------------------------------------
(* An entry gets its inode.                                                *)

\* Entry pos of directory f names n from now on.
Enters(table, new, f, pos, n) ==
  /\ DirsIn(new) = DirsIn(table)
  /\ \A m \in DirsIn(table) : /\ new[m].links = table[m].links /\ new[m].parent = table[m].parent
                              /\ DOMAIN new[m].dents = DOMAIN table[m].dents
                              /\ m # f => new[m].dents = table[m].dents
  /\ f \in DirsIn(table) /\ pos \in DOMAIN table[f].dents /\ table[f].dents[pos] = 0 /\ n # 0
  /\ new[f].dents[pos] = n
  /\ \A k \in DOMAIN table[f].dents : k # pos => new[f].dents[k] = table[f].dents[k]

\* One name more, and the others stay.
LEMMA NamesEnter ==
  ASSUME NEW table, NEW new, NEW f, NEW pos, NEW n, Enters(table, new, f, pos, n)
  PROVE  \A d, k, m : Names(new, d, k, m) <=> Names(table, d, k, m) \/ (d = f /\ k = pos /\ m = n)
<1> SUFFICES ASSUME NEW d, NEW k, NEW m
             PROVE  Names(new, d, k, m) <=> Names(table, d, k, m) \/ (d = f /\ k = pos /\ m = n)
  OBVIOUS
<1>1. CASE d # f
  BY <1>1 DEF Names, Enters
<1>2. CASE d = f /\ k # pos
  BY <1>2 DEF Names, Enters
<1>3. CASE d = f /\ k = pos
  BY <1>3 DEF Names, Enters
<1> QED BY <1>1, <1>2, <1>3

\* The directory stays like the one it was made for.
LEMMA LikeEnters ==
  ASSUME NEW table, NEW new, NEW f, NEW pos, NEW n, Enters(table, new, f, pos, n)
  PROVE  /\ \A m \in DirsIn(table) \ {f} : \A d : Like(table, m, d) => Like(new, m, d)
         /\ \A d : Like(table, f, d) /\ (EntriesOf(d)[pos].type = "dir" <=> n \in DirsIn(table))
                   => Like(new, f, d)
<1>1. ASSUME NEW m \in DirsIn(table) \ {f}, NEW d, Like(table, m, d) PROVE Like(new, m, d)
  BY <1>1 DEF Like, Enters
<1>2. ASSUME NEW d, Like(table, f, d), EntriesOf(d)[pos].type = "dir" <=> n \in DirsIn(table)
      PROVE  Like(new, f, d)
  <2>1. new[f].links = Subdirs(d) + 2 /\ DOMAIN new[f].dents = DOMAIN EntriesOf(d)
    BY <1>2 DEF Like, Enters
  <2>2. ASSUME NEW k \in DOMAIN new[f].dents, new[f].dents[k] # 0
        PROVE  EntriesOf(d)[k].type = "dir" <=> new[f].dents[k] \in DirsIn(new)
    <3>1. CASE k = pos
      BY <1>2, <3>1 DEF Enters
    <3>2. CASE k # pos
      BY <1>2, <2>2, <3>2 DEF Enters, Like
    <3> QED BY <3>1, <3>2
  <2> QED BY <2>1, <2>2 DEF Like
<1> QED BY <1>1, <1>2

\* The stack moves on by an entry.
MovesOn(new, s) ==
  /\ Len(new) = Len(s) /\ DOMAIN new = DOMAIN s
  /\ new[1].inum = s[1].inum /\ new[1].dir = s[1].dir /\ new[1].pos = s[1].pos + 1
  /\ \A k \in 2 .. Len(s) : new[k] = s[k]

\* The entry names the inode in hand, and the stack moves on.
LEMMA TreeBump ==
  ASSUME NEW table, NEW new, NEW n, NEW s, Len(s) \in Nat \ {0}, DOMAIN s = 1 .. Len(s), s[1].pos \in Nat,
         DOMAIN EntriesOf(s[1].dir) \subseteq Nat, Enters(table, new, s[1].inum, s[1].pos, n),
         \A k \in 2 .. Len(s) : s[k].inum # s[1].inum, n \notin Unnamed(s),
         EntriesOf(s[1].dir)[s[1].pos].type = "dir" <=> n \in DirsIn(table),
         NEW on, MovesOn(on, s),
         NEW used, TreeOf(table, s, {n}, used)
  PROVE  TreeOf(new, on, {}, used)
<1> USE DEF TreeOf
<1> DEFINE f == s[1].inum
           pos == s[1].pos
<1>1. \A d, k, m : Names(new, d, k, m) <=> Names(table, d, k, m) \/ (d = f /\ k = pos /\ m = n)
  BY NamesEnter
<1>2. \A d, k : ~Names(table, d, k, n)
  BY DEF NamedOrOpen
<1>3. Like(table, f, s[1].dir) /\ Like(new, f, s[1].dir)
  <2>1. Like(table, f, s[1].dir)
    BY DEF WalkedUpTo
  <2> QED BY <2>1, LikeEnters
<1>4. NamedOnce(new)
  BY <1>1, <1>2 DEF NamedOnce
<1>5. \A k \in DOMAIN s : on[k].inum = s[k].inum /\ on[k].dir = s[k].dir
  <2> SUFFICES ASSUME NEW k \in DOMAIN s PROVE on[k].inum = s[k].inum /\ on[k].dir = s[k].dir
    OBVIOUS
  <2>1. CASE k = 1
    BY <2>1 DEF MovesOn
  <2>2. CASE k # 1
    <3>1. k \in 2 .. Len(s)
      BY <2>2
    <3> QED BY <3>1 DEF MovesOn
  <2> QED BY <2>1, <2>2
<1>6. Unnamed(on) = Unnamed(s)
  <2>1. \A k \in 1 .. Len(s) - 1 : on[k].inum = s[k].inum
    BY <1>5
  <2> QED BY <2>1, SMTT(60) DEF Unnamed, MovesOn
<1>7. NamedOrOpen(new, on, {}, used)
  <2>1. \A m : m \in used <=> m \in Unnamed(on) \cup {} \/ \E d, k : Names(new, d, k, m)
    <3> SUFFICES ASSUME NEW m
                 PROVE  m \in used <=> m \in Unnamed(on) \cup {} \/ \E d, k : Names(new, d, k, m)
      OBVIOUS
    <3>1. m \in used <=> m \in Unnamed(s) \cup {n} \/ \E d, k : Names(table, d, k, m)
      BY DEF NamedOrOpen
    <3>2. (\E d, k : Names(new, d, k, m)) <=> m = n \/ \E d, k : Names(table, d, k, m)
      BY <1>1
    <3> QED BY <1>6, <3>1, <3>2
  <2>2. \A m, d, k : Names(new, d, k, m) => m \notin Unnamed(on) \cup {}
    BY <1>1, <1>6 DEF NamedOrOpen
  <2> QED BY <2>1, <2>2 DEF NamedOrOpen
<1>8. WalkedUpTo(new, on)
  <2>1. ASSUME NEW k \in DOMAIN on
        PROVE  /\ on[k].inum \in DirsIn(new) /\ Like(new, on[k].inum, on[k].dir)
               /\ \A j \in DOMAIN new[on[k].inum].dents : new[on[k].inum].dents[j] # 0 <=> j < on[k].pos
    <3>1. k \in DOMAIN s /\ on[k].inum = s[k].inum /\ on[k].dir = s[k].dir
      BY <1>5 DEF MovesOn
    <3>2. s[k].inum \in DirsIn(table) /\ Like(table, s[k].inum, s[k].dir) /\ s[k].inum \in DirsIn(new)
      BY <3>1 DEF WalkedUpTo, Enters
    <3>3. \A j \in DOMAIN table[s[k].inum].dents : table[s[k].inum].dents[j] # 0 <=> j < s[k].pos
      BY <3>1 DEF WalkedUpTo
    <3>4. CASE k = 1
      <4>1. DOMAIN new[f].dents = DOMAIN table[f].dents /\ DOMAIN table[f].dents \subseteq Nat
        BY <1>3, <3>2, <3>4 DEF Enters, Like
      <4>2. ASSUME NEW j \in DOMAIN new[f].dents PROVE new[f].dents[j] # 0 <=> j < pos + 1
        <5>1. CASE j = pos
          BY <5>1 DEF Enters
        <5>2. CASE j # pos
          <6>1. new[f].dents[j] = table[f].dents[j]
            BY <4>1, <5>2 DEF Enters
          <6>2. table[f].dents[j] # 0 <=> j < pos
            BY <3>3, <3>4, <4>1
          <6>3. j \in Nat /\ (j < pos <=> j < pos + 1)
            BY <4>1, <5>2
          <6> QED BY <6>1, <6>2, <6>3
        <5> QED BY <5>1, <5>2
      <4>3. on[1].pos = pos + 1
        BY DEF MovesOn
      <4> QED BY <1>3, <3>1, <3>2, <3>4, <4>2, <4>3
    <3>5. CASE k # 1
      <4>1. k \in 2 .. Len(s)
        BY <3>1, <3>5
      <4>2. s[k].inum # f /\ on[k] = s[k]
        BY <4>1 DEF MovesOn
      <4>3. new[s[k].inum].dents = table[s[k].inum].dents
        BY <3>2, <4>2 DEF Enters
      <4>4. Like(new, s[k].inum, s[k].dir)
        BY <3>2, <4>2, LikeEnters
      <4> QED BY <3>2, <3>3, <4>2, <4>3, <4>4
    <3> QED BY <3>4, <3>5
  <2>2. \A k \in 2 .. Len(on) : /\ on[k].pos \in DOMAIN EntriesOf(on[k].dir)
                                /\ EntriesOf(on[k].dir)[on[k].pos].type = "dir"
    BY DEF WalkedUpTo, MovesOn
  <2> QED BY <2>1, <2>2 DEF WalkedUpTo
<1>9. WalkedAll(new, on)
  <2> SUFFICES ASSUME NEW m \in DirsIn(new)
               PROVE  /\ \E d : Like(new, m, d)
                      /\ \/ \E k \in DOMAIN on : on[k].inum = m
                         \/ \A j \in DOMAIN new[m].dents : new[m].dents[j] # 0
    BY DEF WalkedAll
  <2>1. CASE m = f
    <3>1. 1 \in DOMAIN on /\ on[1].inum = f
      BY DEF MovesOn
    <3> QED BY <1>3, <2>1, <3>1
  <2>2. CASE m # f
    <3>1. m \in DirsIn(table) /\ new[m].dents = table[m].dents
      BY <2>2 DEF Enters
    <3>2. \E d : Like(new, m, d)
      BY <2>2, <3>1, LikeEnters DEF WalkedAll
    <3>3. \/ \E k \in DOMAIN s : s[k].inum = m
          \/ \A j \in DOMAIN new[m].dents : new[m].dents[j] # 0
      BY <3>1 DEF WalkedAll
    <3>4. (\E k \in DOMAIN s : s[k].inum = m) => \E k \in DOMAIN on : on[k].inum = m
      BY <1>5 DEF MovesOn
    <3> QED BY <3>2, <3>3, <3>4
  <2> QED BY <2>1, <2>2
<1>10. ParentsName(new, on, {})
  <2> SUFFICES ASSUME NEW m \in DirsIn(new), m # ROOT_INO
               PROVE  \/ \E k : Names(new, new[m].parent, k, m)
                      \/ \E k \in 1 .. Len(on) - 1 : on[k].inum = m /\ new[m].parent = on[k + 1].inum
    BY DEF ParentsName
  <2>1. m \in DirsIn(table) /\ new[m].parent = table[m].parent
    BY DEF Enters
  <2>2. CASE \E k : Names(table, table[m].parent, k, m)
    BY <1>1, <2>1, <2>2
  <2>3. CASE \E k \in 1 .. Len(s) - 1 : s[k].inum = m /\ table[m].parent = s[k + 1].inum
    <3>1. PICK k \in 1 .. Len(s) - 1 : s[k].inum = m /\ table[m].parent = s[k + 1].inum
      BY <2>3
    <3>2. k \in DOMAIN s /\ k + 1 \in DOMAIN s /\ k \in 1 .. Len(on) - 1
      BY DEF MovesOn
    <3>3. on[k].inum = s[k].inum /\ on[k + 1].inum = s[k + 1].inum
      BY <1>5, <3>2
    <3> QED BY <2>1, <3>1, <3>2, <3>3
  <2>4. CASE m = n /\ table[m].parent = f
    BY <1>1, <2>1, <2>4
  <2> QED BY <2>1, <2>2, <2>3, <2>4 DEF ParentsName
<1> QED BY <1>4, <1>7, <1>8, <1>9, <1>10

-----------------------------------------------------------------------------
(* A directory is done.                                                    *)

\* The directory on top has named all it has, and is in hand for the one below.
LEMMA TreePop ==
  ASSUME NEW table, NEW s, NEW rest, Len(rest) \in Nat, DOMAIN rest = 1 .. Len(rest), DOMAIN s = 1 .. Len(s),
         OnTop(s, rest, s[1].inum, s[1].dir),
         \A j \in DOMAIN EntriesOf(s[1].dir) : j < s[1].pos,
         NEW hand,
         \/ Len(rest) > 0 /\ hand = {s[1].inum}
         \/ Len(rest) = 0 /\ hand = {},
         NEW used, TreeOf(table, s, {}, used)
  PROVE  TreeOf(table, rest, hand, used)
<1> USE DEF TreeOf
<1>1. Unnamed(s) \cup {} = Unnamed(rest) \cup hand
  BY UnnamedPush
<1>2. NamedOrOpen(table, rest, hand, used)
  BY <1>1 DEF NamedOrOpen
<1>3. ASSUME NEW k \in DOMAIN rest PROVE k + 1 \in DOMAIN s /\ s[k + 1] = rest[k] /\ k + 1 # 1
  BY DEF OnTop
<1>4. WalkedUpTo(table, rest)
  <2>1. ASSUME NEW k \in DOMAIN rest
        PROVE  /\ rest[k].inum \in DirsIn(table) /\ Like(table, rest[k].inum, rest[k].dir)
               /\ \A j \in DOMAIN table[rest[k].inum].dents :
                    table[rest[k].inum].dents[j] # 0 <=> j < rest[k].pos
    <3>1. PICK i \in DOMAIN s : s[i] = rest[k]
      BY <1>3
    <3> QED BY <3>1 DEF WalkedUpTo
  <2>2. ASSUME NEW k \in 2 .. Len(rest)
        PROVE  rest[k].pos \in DOMAIN EntriesOf(rest[k].dir) /\ EntriesOf(rest[k].dir)[rest[k].pos].type = "dir"
    <3>1. PICK i \in 2 .. Len(s) : s[i] = rest[k]
      <4>1. k + 1 \in 2 .. Len(s) /\ s[k + 1] = rest[k]
        BY <1>3 DEF OnTop
      <4> QED BY <4>1
    <3> QED BY <3>1 DEF WalkedUpTo
  <2> QED BY <2>1, <2>2 DEF WalkedUpTo
<1>5. ASSUME NEW k \in DOMAIN s, k # 1 PROVE \E i \in DOMAIN rest : rest[i] = s[k] /\ i = k - 1
  <2>1. k - 1 \in DOMAIN rest /\ k = (k - 1) + 1
    BY <1>5 DEF OnTop
  <2>2. s[(k - 1) + 1] = rest[k - 1]
    BY <2>1 DEF OnTop
  <2> QED BY <2>1, <2>2
<1>6. WalkedAll(table, rest)
  <2> SUFFICES ASSUME NEW m \in DirsIn(table)
               PROVE  \/ \E k \in DOMAIN rest : rest[k].inum = m
                      \/ \A j \in DOMAIN table[m].dents : table[m].dents[j] # 0
    BY DEF WalkedAll
  <2>1. CASE \E k \in DOMAIN s : s[k].inum = m
    <3>1. PICK k \in DOMAIN s : s[k].inum = m
      BY <2>1
    <3>2. CASE k = 1
      <4>1. Like(table, m, s[1].dir) /\ \A j \in DOMAIN table[m].dents : table[m].dents[j] # 0 <=> j < s[1].pos
        BY <3>1, <3>2 DEF WalkedUpTo
      <4> QED BY <4>1 DEF Like
    <3>3. CASE k # 1
      BY <1>5, <3>1, <3>3
    <3> QED BY <3>2, <3>3
  <2>2. CASE ~\E k \in DOMAIN s : s[k].inum = m
    BY <2>2 DEF WalkedAll
  <2> QED BY <2>1, <2>2
<1>7. ParentsName(table, rest, hand)
  <2> SUFFICES ASSUME NEW m \in DirsIn(table), m # ROOT_INO,
                      ~\E k : Names(table, table[m].parent, k, m)
               PROVE  \/ \E k \in 1 .. Len(rest) - 1 : rest[k].inum = m /\ table[m].parent = rest[k + 1].inum
                      \/ m \in hand /\ Len(rest) > 0 /\ table[m].parent = rest[1].inum
    BY DEF ParentsName
  <2>1. PICK k \in 1 .. Len(s) - 1 : s[k].inum = m /\ table[m].parent = s[k + 1].inum
    BY DEF ParentsName
  <2>2. k \in DOMAIN rest /\ s[k + 1] = rest[k]
    BY DEF OnTop
  <2>3. CASE k = 1
    BY <2>1, <2>2, <2>3
  <2>4. CASE k # 1
    <3>1. PICK i \in DOMAIN rest : rest[i] = s[k] /\ i = k - 1
      BY <1>5, <2>4
    <3>2. i \in 1 .. Len(rest) - 1 /\ i + 1 = k
      BY <2>2, <3>1
    <3> QED BY <2>1, <2>2, <3>1, <3>2
  <2> QED BY <2>3, <2>4
<1> QED BY <1>2, <1>4, <1>6, <1>7

\* A tree without directories.
LEMMA TreeEmpty ==
  ASSUME NEW table, DirsIn(table) = {}
  PROVE  TreeOf(table, <<>>, {}, {})
<1>1. \A d, k, n : ~Names(table, d, k, n)
  BY DEF Names
<1>2. Len(<<>>) = 0 /\ DOMAIN <<>> = {} /\ 1 .. 0 - 1 = {} /\ 2 .. 0 = {}
  OBVIOUS
<1>3. Unnamed(<<>>) = {}
  BY <1>2 DEF Unnamed
<1>4. NamedOnce(table) /\ NamedOrOpen(table, <<>>, {}, {})
  BY <1>1, <1>3 DEF NamedOnce, NamedOrOpen
<1>5. WalkedUpTo(table, <<>>)
  BY <1>2 DEF WalkedUpTo
<1>6. WalkedAll(table, <<>>) /\ ParentsName(table, <<>>, {})
  BY DEF WalkedAll, ParentsName
<1> QED BY <1>4, <1>5, <1>6 DEF TreeOf

\* The source tree stays, and so does what its directories are like.
LEMMA TreeNext ==
  ASSUME tree' = tree, TreeOf(inodes', stack', AtHand', Past')
  PROVE  TreeOf(inodes, stack, AtHand, Past)'
<1>1. \A d : EntriesOf(d)' = EntriesOf(d) /\ Subdirs(d)' = Subdirs(d)
  BY DEF EntriesOf, Subdirs
<1> QED BY <1>1 DEF TreeOf, NamedOnce, NamedOrOpen, WalkedUpTo, WalkedAll, ParentsName, Like, Names, DirsIn, Unnamed

\* The entries of a directory are a sequence.
LEMMA EntriesAre ==
  ASSUME WalkInv, NEW d \in DOMAIN tree
  PROVE  DOMAIN EntriesOf(d) = 1 .. Len(EntriesOf(d)) /\ Len(EntriesOf(d)) \in Nat
<1> DEFINE given == tree[d].entries
           found == [type |-> "dir", dir |-> LostFound, blocks |-> 0, caps |-> FALSE]
           Any == {found} \cup {given[k] : k \in DOMAIN given}
<1>1. DOMAIN given = 1 .. Len(given) /\ Len(given) \in Nat /\ given \in Seq(Any)
  <2>1. tree \in Trees
    BY DEF WalkInv
  <2>2. PICK A : given \in Seq(A)
    BY <2>1, MkfsAssumption
  <2>3. DOMAIN given = 1 .. Len(given) /\ Len(given) \in Nat /\ given = [k \in 1 .. Len(given) |-> given[k]]
    BY <2>2
  <2>4. given \in Seq(Any)
    <3>1. \A k \in 1 .. Len(given) : given[k] \in Any
      BY <2>3
    <3> HIDE DEF given, Any
    <3> QED BY <2>3, <3>1
  <2> QED BY <2>3, <2>4
<1>2. found \in Any
  OBVIOUS
<1> HIDE DEF Any
<1>3. <<found>> \o given \in Seq(Any)
  <2> HIDE DEF found, given
  <2> QED BY <1>1, <1>2
<1>4. EntriesOf(d) = given \/ EntriesOf(d) = <<found>> \o given
  BY DEF EntriesOf
<1> HIDE DEF found, given
<1>5. EntriesOf(d) \in Seq(Any)
  BY <1>1, <1>3, <1>4
<1> QED BY <1>5

\* The entry on top of the stack.
LEMMA TopIs ==
  ASSUME WalkInv, stack # <<>>
  PROVE  /\ Head(stack) = stack[1] /\ Len(stack) \in Nat \ {0} /\ DOMAIN stack = 1 .. Len(stack)
         /\ stack \in Seq(Activation) /\ stack[1] \in Activation /\ stack[1].dir \in DOMAIN tree
         /\ stack[1].pos \in Nat \ {0}
<1>1. stack \in Seq(Activation)
  BY DEF WalkInv
<1>2. Head(stack) = stack[1] /\ Len(stack) \in Nat \ {0} /\ DOMAIN stack = 1 .. Len(stack) /\ stack[1] \in Activation
  BY <1>1
<1> QED BY <1>1, <1>2 DEF Activation

\* The root directory is made.
LEMMA TreeRoot ==
  ASSUME BuildInv, BuildInv', DirsInv, DirsInv', ~Unreserved, ~Unreserved', MakeRoot
  PROVE  TreeInv'
<1>1. pc = "root" /\ pc' = "dir_data" /\ stack' = stack /\ tree' = tree /\ inode_bitmap' = inode_bitmap
  BY DEF MakeRoot, BeginDirectory
<1>2. stack = <<>>
  BY <1>1 DEF BuildInv, PlaceInv
<1>3. DirInodes' = {}
  <2>1. ROOT_INO \notin Numbers
    BY <1>1 DEF BuildInv, PlaceInv, ROOT_INO, RESIZE_INO, JOURNAL_INO
  <2>2. SetInode(ROOT_INO, Blank) /\ Blank.type # "dir"
    BY DEF MakeRoot, BeginDirectory, Blank
  <2>3. DirInodes' = DirInodes
    BY <2>1, <2>2, NewKind
  <2> QED BY <1>1, <2>3 DEF DirsInv, Begun
<1>4. Past' = {}
  <2>1. InUseInodes' = InUseInodes
    BY <1>1 DEF InUseInodes
  <2>2. InUseInodes \subseteq 1 .. RESERVED_INODES
    BY <1>1 DEF BuildInv, RoomInv, Begun
  <2> QED BY <2>1, <2>2 DEF Past
<1>5. AtHand' = {}
  BY <1>1, <1>2 DEF AtHand
<1>6. TreeOf(inodes', stack', AtHand', Past')
  <2>1. DirsIn(inodes') = {}
    BY <1>3 DEF DirsIn, DirInodes, Numbers
  <2> QED BY <1>1, <1>2, <1>4, <1>5, <2>1, TreeEmpty
<1>7. EntryInHand'
  BY <1>1, <1>2, <1>3 DEF EntryInHand
<1> QED BY <1>1, <1>6, <1>7, TreeNext DEF TreeInv

\* An entry gets an inode.
LEMMA TreeMakes ==
  ASSUME BuildInv, BuildInv', TreeInv, ~Unreserved, ~Unreserved', MakeDirectory \/ MakeLeaf
  PROVE  TreeInv'
<1>0. WalkInv
  BY DEF BuildInv
<1>1. /\ Walking /\ pc = "tree" /\ stack # <<>> /\ stack' = stack /\ tree' = tree
      /\ pc' \in EntryCalls /\ (pc' = "dir_data" <=> Entry.type = "dir")
  BY <1>0 DEF WalkInv, MakeDirectory, MakeLeaf, BeginDirectory, Walking, EntryCalls
<1>2. TreeOf(inodes, stack, {}, Past)
  <2>1. AtHand = {}
    BY <1>1 DEF AtHand, EntryCalls
  <2> QED BY <1>1, <2>1 DEF TreeInv, Walks
<1>3. PICK n, node : AllocateInode(n) /\ SetInode(n, node) /\ current'.inum = n /\ node.type # "dir"
  <2>1. CASE MakeDirectory
    <3>1. PICK n : AllocateInode(n) /\ BeginDirectory(Entry.dir, n)
      BY <2>1 DEF MakeDirectory
    <3>2. SetInode(n, Blank) /\ current'.inum = n /\ Blank.type # "dir"
      BY <3>1 DEF BeginDirectory, Making, Blank
    <3> QED BY <3>1, <3>2
  <2>2. CASE MakeLeaf
    <3>1. PICK n : /\ AllocateInode(n) /\ current' = Making(n, "", Entry.blocks)
                   /\ SetInode(n, [Blank EXCEPT !.type = Entry.type, !.links = 1])
      BY <2>2 DEF MakeLeaf
    <3>2. PICK node : node = [Blank EXCEPT !.type = Entry.type, !.links = 1]
      OBVIOUS
    <3>3. node.type # "dir" /\ current'.inum = n
      BY <2>2, <3>1, <3>2 DEF Blank, Making, MakeLeaf
    <3> QED BY <3>1, <3>2, <3>3
  <2> QED BY <2>1, <2>2
<1>4. n \notin Numbers /\ n \notin InUseInodes /\ InUseInodes' = InUseInodes \cup {n}
  BY <1>3, FreshInode DEF BuildInv, RoomInv
<1>5. n \notin 1 .. RESERVED_INODES
  BY <1>1, <1>4 DEF BuildInv, RoomInv, Roomy
<1>6. Past' = Past \cup {n} /\ n \notin Past /\ AtHand' = {n}
  BY <1>1, <1>3, <1>4, <1>5 DEF Past, AtHand, RESERVED_INODES
<1>7. DirsStay(inodes, inodes') /\ n \notin DirInodes'
  <2>1. DirInodes' = DirInodes /\ \A m \in Numbers : m # n => inodes'[m] = inodes[m]
    BY <1>3, <1>4, NewKind, SetInodeIs
  <2>2. DirsIn(inodes') = DirInodes /\ DirsIn(inodes) = DirInodes
    BY <2>1 DEF DirsIn, DirInodes, Numbers
  <2>3. \A m \in DirInodes : m \in Numbers /\ m # n
    BY <1>4 DEF DirInodes
  <2> QED BY <2>1, <2>2, <2>3 DEF DirsStay
<1>8. TreeOf(inodes', stack', AtHand', Past')
  <2>1. TreeOf(inodes', stack, {}, Past)
    BY <1>2, <1>7, TreeStays
  <2> QED BY <1>1, <1>6, <2>1, TreeTakes
<1>9. EntryInHand'
  <2>1. Head(stack).pos \in DOMAIN EntriesOf(Head(stack).dir)
    <3>1. Head(stack).dir \in DOMAIN tree /\ Head(stack).pos \in Nat \ {0}
      BY <1>0, <1>1, EntryIsKnown
    <3>2. Head(stack).pos <= Len(EntriesOf(Head(stack).dir))
      BY <1>1 DEF Walking
    <3> QED BY <1>0, <3>1, <3>2, EntriesAre
  <2>2. Entry' = Entry /\ \A d : EntriesOf(d)' = EntriesOf(d)
    BY <1>1 DEF Entry, EntriesOf
  <2>3. n \notin DirInodes' /\ current'.inum = n
    BY <1>3, <1>7
  <2> QED BY <1>1, <2>1, <2>2, <2>3 DEF EntryInHand, EntryCalls
<1> QED BY <1>1, <1>8, <1>9, TreeNext DEF TreeInv

\* Where the walk is stays, and directories stay.
LEMMA TreeSame ==
  ASSUME TreeInv, ~Unreserved, ~Unreserved', pc \in Walks, tree' = tree, stack' = stack, current' = current,
         inode_bitmap' = inode_bitmap, DirsStay(inodes, inodes'),
         \/ pc' = pc
         \/ pc \in {"file_data", "link_data"} /\ pc' = "finish"
  PROVE  TreeInv'
<1>1. TreeOf(inodes, stack, AtHand, Past) /\ EntryInHand
  BY DEF TreeInv
<1>2. AtHand' = AtHand /\ Past' = Past
  BY DEF AtHand, Past, EntryCalls, InUseInodes
<1>3. TreeOf(inodes', stack', AtHand', Past')
  <2>1. TreeOf(inodes', stack, AtHand, Past)
    BY <1>1, TreeStays
  <2> QED BY <1>2, <2>1
<1>4. DirInodes' = DirInodes /\ Entry' = Entry /\ \A d : EntriesOf(d)' = EntriesOf(d)
  <2>1. DirInodes' = DirInodes
    BY DEF DirInodes, DirsStay, DirsIn, Numbers
  <2> QED BY <2>1 DEF Entry, EntriesOf
<1>5. EntryInHand'
  BY <1>1, <1>4 DEF EntryInHand, EntryCalls
<1> QED BY <1>3, <1>5, TreeNext DEF TreeInv

\* An inode that is no directory is replaced by one that is none.
LEMMA DirsStayLeaf ==
  ASSUME NEW n \in Numbers \ DirInodes, NEW node, SetInode(n, node), node.type # "dir"
  PROVE  DirsStay(inodes, inodes')
<1>1. Numbers' = Numbers /\ inodes'[n] = node /\ \A m \in Numbers : m # n => inodes'[m] = inodes[m]
  BY SetInodeIs
<1> QED BY <1>1 DEF DirsStay, DirsIn, DirInodes, Numbers

\* make_directory returns, and the directory is entered.
LEMMA TreeEnters ==
  ASSUME BuildInv, TreeInv, ~Unreserved, ~Unreserved', tree' = tree, inode_bitmap' = inode_bitmap,
         NEW node, Made(node), ExtentsDone(node), pc = "dir_data",
         ROOT_INO \notin Past
  PROVE  TreeInv'
<1>0. WalkInv /\ PlaceInv /\ WalkersInv
  BY DEF BuildInv
<1>1. /\ pc' = "tree" /\ SetInode(current.inum, AsDirectory(node, current.dir)) /\ current' = current
      /\ stack' = <<[dir |-> current.dir, inum |-> current.inum, pos |-> 1]>> \o stack
  BY DEF ExtentsDone
<1>2. TreeOf(inodes, stack, AtHand, Past) /\ EntryInHand
  BY DEF TreeInv, Walks, EntryCalls
<1>3. current.inum \in Numbers \ DirInodes /\ current.dir \in DOMAIN tree /\ current.inum \in Nat
  BY <1>0, <1>2 DEF PlaceInv, WalkInv, EntryInHand, DataCalls
<1>4. PICK made : made = AsDirectory(node, current.dir)
  OBVIOUS
<1>5. Fresh(made, current.dir) /\ made.parent = ParentInode
  <2>1. made.type = "dir" /\ made.links = Subdirs(current.dir) + 2 /\ made.parent = ParentInode
        /\ made.dents = [k \in DOMAIN EntriesOf(current.dir) |-> 0]
    BY <1>4 DEF AsDirectory, Made, Blank
  <2> QED BY <2>1 DEF Fresh
<1>6. Adds(inodes, inodes', current.inum, made)
  <2>1. Numbers' = Numbers /\ inodes'[current.inum] = made
        /\ \A m \in Numbers : m # current.inum => inodes'[m] = inodes[m]
    <3>1. SetInode(current.inum, made) /\ current.inum \in Numbers
      BY <1>1, <1>3, <1>4
    <3> HIDE DEF DirInodes
    <3> QED BY <3>1, SetInodeIs
  <2> QED BY <1>3, <1>5, <2>1 DEF Adds, DirsIn, DirInodes, Numbers, Fresh
<1>7. DOMAIN EntriesOf(current.dir) \subseteq Nat \ {0}
  <2>1. DOMAIN EntriesOf(current.dir) = 1 .. Len(EntriesOf(current.dir)) /\ Len(EntriesOf(current.dir)) \in Nat
    BY <1>0, <1>3, EntriesAre
  <2> QED BY <2>1
<1>8. Len(stack) \in Nat /\ DOMAIN stack = 1 .. Len(stack) /\ stack \in Seq(Activation)
  BY <1>0 DEF WalkInv
<1>9. OnTop(stack', stack, current.inum, current.dir) /\ stack'[1].pos = 1
  <2>1. PICK e : e = [dir |-> current.dir, inum |-> current.inum, pos |-> 1]
    OBVIOUS
  <2>2. e \in Activation /\ stack' = <<e>> \o stack /\ e.inum = current.inum /\ e.dir = current.dir /\ e.pos = 1
    BY <1>1, <1>3, <2>1 DEF Activation
  <2>3. Len(stack') = Len(stack) + 1 /\ stack'[1] = e /\ \A k \in 1 .. Len(stack) : stack'[k + 1] = stack[k]
    BY <1>8, <2>2, PushIs
  <2>4. stack' \in Seq(Activation)
    BY <1>8, <2>2
  <2>5. DOMAIN stack' = 1 .. Len(stack')
    BY <2>4
  <2> QED BY <2>2, <2>3, <2>5 DEF OnTop
<1>10. \/ /\ AtHand = {current.inum} /\ Len(stack) > 0 /\ made.parent = stack[1].inum
          /\ stack[1].pos \in DOMAIN EntriesOf(stack[1].dir)
          /\ EntriesOf(stack[1].dir)[stack[1].pos].type = "dir"
       \/ AtHand = {} /\ Len(stack) = 0 /\ current.inum = ROOT_INO /\ current.inum \notin Past
  <2>1. CASE stack = <<>>
    BY <1>0, <2>1 DEF AtHand, WalkersInv
  <2>2. CASE stack # <<>>
    <3>1. Head(stack) = stack[1] /\ Len(stack) \in Nat \ {0}
      BY <1>0, <2>2, TopIs
    <3>2. AtHand = {current.inum}
      BY <2>2 DEF AtHand, EntryCalls
    <3>3. made.parent = stack[1].inum
      BY <1>5, <2>2, <3>1 DEF ParentInode
    <3>4. stack[1].pos \in DOMAIN EntriesOf(stack[1].dir) /\ EntriesOf(stack[1].dir)[stack[1].pos].type = "dir"
      BY <1>2, <2>2, <3>1 DEF EntryInHand, EntryCalls, Entry
    <3> QED BY <3>1, <3>2, <3>3, <3>4
  <2> QED BY <2>1, <2>2
<1>11. TreeOf(inodes', stack', {}, Past)
  BY <1>2, <1>5, <1>6, <1>7, <1>8, <1>9, <1>10, TreePush
<1>12. AtHand' = {} /\ Past' = Past /\ EntryInHand'
  BY <1>1 DEF AtHand, Past, EntryCalls, InUseInodes, EntryInHand
<1> QED BY <1>1, <1>11, <1>12, TreeNext DEF TreeInv

\* Blocks arrive for a file, a link or a directory.
LEMMA TreeAttach ==
  ASSUME BuildInv, TreeInv, ~Unreserved, ~Unreserved', pc \in Walks,
         AttachInInode \/ AttachWithLeaf \/ AttachWhole \/ WithoutBlocks
  PROVE  TreeInv'
<1>0. WalkInv /\ PlaceInv /\ WalkersInv
  BY DEF BuildInv
<1>1. tree' = tree /\ inode_bitmap' = inode_bitmap
  BY DEF AttachInInode, AttachWithLeaf, AttachWhole, WithoutBlocks, inodeVars
<1>2. current.inum \in Numbers /\ Made(inodes[current.inum]) /\ pc \in {"dir_data", "link_data", "file_data"}
  <2>1. alloc_pc # "idle"
    BY DEF AttachInInode, AttachWithLeaf, AttachWhole, WithoutBlocks, KeepInInode, KeepWithLeaf, KeepWhole,
           OutOfSpace, InProgress
  <2> QED BY <1>0, <2>1 DEF PlaceInv, DataCalls, Walks, EntryCalls
<1>3. DirsStay(inodes, inodes)
  BY DEF DirsStay
<1>4. CASE AttachInInode \/ AttachWithLeaf
  <2>1. PICK l, leaf : Attach(WithExtents(inodes[current.inum], l, leaf))
    BY <1>4 DEF AttachInInode, AttachWithLeaf
  <2>2. CASE alloc_pc' # "idle"
    <3>1. inodes' = inodes /\ pc' = pc /\ stack' = stack /\ current' = current
      BY <2>1, <2>2 DEF Attach
    <3> QED BY <1>1, <1>3, <3>1, TreeSame
  <2>3. CASE alloc_pc' = "idle"
    <3>1. PICK node : /\ node = WithExtents(inodes[current.inum], l, leaf) /\ ExtentsDone(node)
                      /\ Made(node) /\ node.type = inodes[current.inum].type
      BY <1>2, <2>1, <2>3, WithExtentsIs DEF Attach
    <3>2. CASE pc = "dir_data"
      <4>1. ROOT_INO \notin Past
        BY DEF Past, ROOT_INO, RESERVED_INODES
      <4> QED BY <1>1, <3>1, <3>2, <4>1, TreeEnters
    <3>3. CASE pc # "dir_data"
      <4>1. pc = "file_data" /\ pc' = "finish" /\ SetInode(current.inum, node)
            /\ stack' = stack /\ current' = current
        BY <1>2, <3>1, <3>3 DEF ExtentsDone
      <4>2. current.inum \notin DirInodes
        BY <4>1 DEF TreeInv, EntryInHand, Walks, EntryCalls
      <4>3. node.type # "dir"
        BY <1>2, <3>1, <4>2 DEF DirInodes
      <4>4. DirsStay(inodes, inodes')
        BY <1>2, <4>1, <4>2, <4>3, DirsStayLeaf
      <4> QED BY <1>1, <4>1, <4>4, TreeSame
    <3> QED BY <3>2, <3>3
  <2> QED BY <2>2, <2>3
<1>5. CASE AttachWhole
  <2>1. pc = "link_data" /\ pc' = "finish" /\ stack' = stack /\ current' = current
    BY <1>0, <1>2, <1>5 DEF AttachWhole, KeepWhole, WalkInv
  <2>2. PICK node : node = [inodes[current.inum] EXCEPT !.map = Held(list), !.blocks = 1]
    OBVIOUS
  <2>3. SetInode(current.inum, node) /\ node.type = inodes[current.inum].type
    BY <1>2, <1>5, <2>1, <2>2 DEF AttachWhole, Made, Blank
  <2>4. current.inum \notin DirInodes
    BY <2>1 DEF TreeInv, EntryInHand, Walks, EntryCalls
  <2>5. node.type # "dir"
    BY <1>2, <2>3, <2>4 DEF DirInodes
  <2>6. DirsStay(inodes, inodes')
    BY <1>2, <2>3, <2>4, <2>5, DirsStayLeaf
  <2> QED BY <1>1, <2>1, <2>6, TreeSame
<1>6. CASE WithoutBlocks
  <2>1. inodes' = inodes /\ stack' = stack /\ current' = current
        /\ (pc' = pc \/ (pc = "file_data" /\ pc' = "finish") \/ pc' = "crashed")
    BY <1>2, <1>6 DEF WithoutBlocks
  <2>2. CASE pc' = "crashed"
    BY <2>2 DEF TreeInv, Walks, EntryCalls
  <2> QED BY <1>1, <1>3, <2>1, <2>2, TreeSame
<1> QED BY <1>4, <1>5, <1>6

\* The directories on the stack are different ones.
LEMMA StackApart ==
  ASSUME WalkInv, Walkers(stack, InUseInodes, inodes), stack # <<>>, NEW hand, TreeOf(inodes, stack, hand, Past)
  PROVE  \A k \in 2 .. Len(stack) : stack[k].inum # stack[1].inum
<1> SUFFICES ASSUME NEW k \in 2 .. Len(stack) PROVE stack[k].inum # stack[1].inum
  OBVIOUS
<1>1. Len(stack) \in Nat
  BY TopIs
<1>2. CASE k < Len(stack)
  <2>1. 1 \in 1 .. Len(stack) - 1 /\ k \in 1 .. Len(stack) - 1 /\ k # 1
    BY <1>1, <1>2
  <2> QED BY <2>1 DEF Walkers
<1>3. CASE k = Len(stack)
  <2>1. stack[k].inum = ROOT_INO
    BY <1>3 DEF Walkers
  <2>2. 1 \in 1 .. Len(stack) - 1
    BY <1>1, <1>3
  <2>3. stack[1].inum \in Unnamed(stack)
    BY <2>2 DEF Unnamed
  <2>4. stack[1].inum \in Past
    BY <2>3 DEF TreeOf, NamedOrOpen
  <2> QED BY <2>1, <2>4 DEF Past, ROOT_INO, RESERVED_INODES
<1> QED BY <1>1, <1>2, <1>3

\* *dentries[i].inode = entry_inode
LEMMA PatchedEnters ==
  ASSUME BuildInv, TreeInv, ~Unreserved, pc = "finish"
  PROVE  /\ Enters(inodes, Patched, stack[1].inum, stack[1].pos, current.inum)
         /\ current.inum \in Numbers /\ current.inum \notin Unnamed(stack)
         /\ EntriesOf(stack[1].dir)[stack[1].pos].type = "dir" <=> current.inum \in DirsIn(inodes)
         /\ TreeOf(inodes, stack, {current.inum}, Past) /\ stack # <<>> /\ stack[1].dir \in DOMAIN tree
<1>0. WalkInv /\ PlaceInv /\ WalkersInv /\ stack # <<>>
  BY DEF BuildInv, WalkInv
<1>1. Head(stack) = stack[1] /\ DOMAIN stack = 1 .. Len(stack) /\ Len(stack) \in Nat \ {0}
      /\ stack[1].pos \in Nat \ {0} /\ stack[1].dir \in DOMAIN tree
  BY <1>0, TopIs
<1>2. TreeOf(inodes, stack, AtHand, Past) /\ EntryInHand /\ AtHand = {current.inum}
  BY <1>0 DEF TreeInv, Walks, EntryCalls, AtHand
<1>3. current.inum \in Numbers /\ current.inum \in InUseInodes /\ current.inum # 0
      /\ \A k \in 1 .. Len(stack) - 1 : stack[k].inum # current.inum
  BY <1>0 DEF WalkersInv, EntryCalls, InHand, Walker, Numbers, InUseInodes
<1>4. current.inum \notin Unnamed(stack)
  BY <1>3 DEF Unnamed
<1>5. EntriesOf(stack[1].dir)[stack[1].pos].type = "dir" <=> current.inum \in DirsIn(inodes)
  BY <1>1, <1>2 DEF EntryInHand, Entry, DirsIn, DirInodes, Numbers
<1> DEFINE f == stack[1].inum
           pos == stack[1].pos
<1>6. f \in DirsIn(inodes) /\ Like(inodes, f, stack[1].dir)
      /\ \A j \in DOMAIN inodes[f].dents : inodes[f].dents[j] # 0 <=> j < pos
  BY <1>1, <1>2 DEF TreeOf, WalkedUpTo
<1>7. pos \in DOMAIN inodes[f].dents /\ inodes[f].dents[pos] = 0
  <2>1. pos \in DOMAIN EntriesOf(stack[1].dir)
    BY <1>0, <1>1, <1>2 DEF EntryInHand, EntryCalls
  <2>2. pos \in DOMAIN inodes[f].dents
    BY <1>6, <2>1 DEF Like
  <2>3. ~(pos < pos)
    BY <1>1
  <2> QED BY <1>6, <2>2, <2>3
<1>8. /\ DOMAIN Patched = Numbers
      /\ \A m \in Numbers : m # f => Patched[m] = inodes[m]
      /\ Patched[f] = [inodes[f] EXCEPT !.dents = Patch(@, pos, current.inum)]
  BY <1>1, <1>6 DEF Patched, Numbers, DirsIn
<1>9. f \in Numbers /\ Made(inodes[f]) /\ inodes[f].type = "dir"
  BY <1>0, <1>6 DEF PlaceInv, DirsIn, Numbers
<1>10. /\ Patched[f].type = "dir" /\ Patched[f].links = inodes[f].links /\ Patched[f].parent = inodes[f].parent
       /\ Patched[f].dents = [inodes[f].dents EXCEPT ![pos] = current.inum]
  <2>1. PICK node, new : node = inodes[f] /\ new = Patch(node.dents, pos, current.inum)
    OBVIOUS
  <2>2. Patched[f] = [node EXCEPT !.dents = new] /\ DOMAIN node = DOMAIN Blank
    BY <1>8, <1>9, <2>1 DEF Made
  <2>3. [node EXCEPT !.dents = new].type = node.type /\ [node EXCEPT !.dents = new].links = node.links
        /\ [node EXCEPT !.dents = new].parent = node.parent /\ [node EXCEPT !.dents = new].dents = new
    BY <2>2 DEF Blank
  <2> QED BY <1>9, <2>1, <2>2, <2>3 DEF Patch
<1>11. Enters(inodes, Patched, f, pos, current.inum)
  <2>1. DirsIn(Patched) = DirsIn(inodes)
    BY <1>8, <1>9, <1>10 DEF DirsIn, Numbers
  <2>2. ASSUME NEW m \in DirsIn(inodes)
        PROVE  /\ Patched[m].links = inodes[m].links /\ Patched[m].parent = inodes[m].parent
               /\ DOMAIN Patched[m].dents = DOMAIN inodes[m].dents
               /\ m # f => Patched[m].dents = inodes[m].dents
    <3>1. CASE m = f
      <4>1. DOMAIN Patched[f].dents = DOMAIN inodes[f].dents
        BY <1>10
      <4> QED BY <1>10, <3>1, <4>1
    <3>2. CASE m # f
      <4>1. Patched[m] = inodes[m]
        BY <1>8, <3>2 DEF DirsIn, Numbers
      <4> QED BY <3>2, <4>1
    <3> QED BY <3>1, <3>2
  <2>3. Patched[f].dents[pos] = current.inum
    BY <1>7, <1>10
  <2>4. \A k \in DOMAIN inodes[f].dents : k # pos => Patched[f].dents[k] = inodes[f].dents[k]
    BY <1>7, <1>10
  <2> QED BY <1>3, <1>6, <1>7, <2>1, <2>2, <2>3, <2>4 DEF Enters
<1> QED BY <1>0, <1>1, <1>2, <1>3, <1>4, <1>5, <1>11

\* An entry is done, and the next one is taken up.
LEMMA TreeFinish ==
  ASSUME BuildInv, TreeInv, ~Unreserved, ~Unreserved', FinishPlain \/ FinishXattrTooBig \/ FinishXattrBlock
  PROVE  TreeInv'
<1>1. CASE FinishXattrTooBig
  BY <1>1 DEF FinishXattrTooBig, TreeInv, Walks, EntryCalls
<1>2. CASE FinishPlain \/ FinishXattrBlock
  <2>1. pc = "finish" /\ pc' = "tree" /\ NextEntry /\ tree' = tree /\ inode_bitmap' = inode_bitmap
    BY <1>2 DEF FinishPlain, FinishXattrBlock, inodeVars
  <2>2. /\ Enters(inodes, Patched, stack[1].inum, stack[1].pos, current.inum)
        /\ current.inum \in Numbers /\ current.inum \notin Unnamed(stack)
        /\ EntriesOf(stack[1].dir)[stack[1].pos].type = "dir" <=> current.inum \in DirsIn(inodes)
        /\ TreeOf(inodes, stack, {current.inum}, Past) /\ stack # <<>> /\ stack[1].dir \in DOMAIN tree
    BY <2>1, PatchedEnters
  <2>3. WalkInv /\ WalkersInv /\ PlaceInv
    BY DEF BuildInv
  <2>4. /\ Head(stack) = stack[1] /\ Len(stack) \in Nat \ {0} /\ DOMAIN stack = 1 .. Len(stack)
        /\ stack \in Seq(Activation) /\ stack[1] \in Activation /\ stack[1].pos \in Nat \ {0}
    BY <2>2, <2>3, TopIs
  <2>5. MovesOn(stack', stack)
    <3>1. PICK e : e = [stack[1] EXCEPT !.pos = @ + 1]
      OBVIOUS
    <3>2. e \in Activation /\ e.inum = stack[1].inum /\ e.dir = stack[1].dir /\ e.pos = stack[1].pos + 1
      BY <2>4, <3>1 DEF Activation
    <3>3. stack' = <<e>> \o Tail(stack)
      BY <2>1, <2>4, <3>1 DEF NextEntry
    <3>4. Len(stack') = Len(stack) /\ stack'[1] = e /\ \A k \in 2 .. Len(stack) : stack'[k] = stack[k]
      BY <2>2, <2>4, <3>2, <3>3, BumpIs
    <3>5. stack' \in Seq(Activation)
      BY <2>4, <3>2, <3>3
    <3>6. DOMAIN stack' = 1 .. Len(stack')
      BY <3>5
    <3> QED BY <2>4, <3>2, <3>4, <3>6 DEF MovesOn
  <2>6. DOMAIN EntriesOf(stack[1].dir) \subseteq Nat
    <3>1. DOMAIN EntriesOf(stack[1].dir) = 1 .. Len(EntriesOf(stack[1].dir)) /\ Len(EntriesOf(stack[1].dir)) \in Nat
      BY <2>2, <2>3, EntriesAre
    <3> QED BY <3>1
  <2>7. \A k \in 2 .. Len(stack) : stack[k].inum # stack[1].inum
    BY <2>2, <2>3, StackApart DEF WalkersInv
  <2>8. TreeOf(Patched, stack', {}, Past)
    <3>1. stack[1].pos \in Nat
      BY <2>4
    <3> QED BY <2>2, <2>4, <2>5, <2>6, <2>7, <3>1, TreeBump
  <2>9. DirsStay(Patched, inodes')
    <3>1. CASE inodes' = Patched
      BY <3>1 DEF DirsStay
    <3>2. CASE FinishXattrBlock
      <4>1. PICK t, b : t = Patched /\ inodes' = WithAcl(t, b)
        BY <3>2 DEF FinishXattrBlock
      <4>2. DOMAIN t = Numbers /\ \A m \in Numbers : Made(t[m])
        BY <2>2, <2>3, <4>1, PatchedKeeps DEF PlaceInv
      <4>3. DOMAIN inodes' = Numbers
        BY <4>1, <4>2 DEF WithAcl
      <4>4. \A m \in Numbers : /\ inodes'[m].type = t[m].type /\ inodes'[m].dents = t[m].dents
                               /\ inodes'[m].links = t[m].links /\ inodes'[m].parent = t[m].parent
        BY <4>1, <4>2 DEF WithAcl, Made, Blank
      <4> QED BY <4>1, <4>2, <4>3, <4>4 DEF DirsStay, DirsIn
    <3> QED BY <1>2, <3>1, <3>2 DEF FinishPlain
  <2>10. TreeOf(inodes', stack', {}, Past)
    BY <2>8, <2>9, TreeStays
  <2>11. AtHand' = {} /\ Past' = Past /\ EntryInHand'
    BY <2>1 DEF AtHand, Past, EntryCalls, InUseInodes, EntryInHand
  <2> QED BY <2>1, <2>10, <2>11, TreeNext DEF TreeInv
<1> QED BY <1>1, <1>2

\* A directory is left, and its entry in the one above is at hand.
LEMMA TreeLeaves ==
  ASSUME BuildInv, TreeInv, ~Unreserved, ~Unreserved', LeaveDirectory
  PROVE  TreeInv'
<1>0. WalkInv /\ WalkersInv /\ stack # <<>>
  BY DEF BuildInv, WalkInv, LeaveDirectory
<1>1. /\ pc = "tree" /\ stack' = Tail(stack) /\ current'.inum = stack[1].inum /\ inodes' = inodes /\ tree' = tree
      /\ inode_bitmap' = inode_bitmap /\ pc' = (IF Len(stack) = 1 THEN "update" ELSE "finish")
      /\ stack[1].pos > Len(EntriesOf(stack[1].dir))
  BY <1>0, TopIs DEF LeaveDirectory, Making, inodeVars
<1>2. /\ Len(stack) \in Nat \ {0} /\ DOMAIN stack = 1 .. Len(stack) /\ stack[1].dir \in DOMAIN tree
      /\ stack \in Seq(Activation) /\ stack[1].pos \in Nat \ {0}
  BY <1>0, TopIs
<1>3. TreeOf(inodes, stack, {}, Past)
  <2>1. AtHand = {}
    BY <1>1 DEF AtHand, EntryCalls
  <2> QED BY <1>1, <2>1 DEF TreeInv, Walks
<1>4. /\ Len(stack') = Len(stack) - 1 /\ DOMAIN stack' = 1 .. Len(stack')
      /\ \A k \in 1 .. Len(stack) - 1 : stack'[k] = stack[k + 1]
      /\ stack' \in Seq(Activation)
  <2>1. stack' \in Seq(Activation)
    BY <1>0, <1>1, <1>2
  <2>2. DOMAIN stack' = 1 .. Len(stack')
    BY <2>1
  <2> QED BY <1>0, <1>1, <1>2, <2>1, <2>2, PopIs
<1>5. OnTop(stack, stack', stack[1].inum, stack[1].dir) /\ Len(stack') \in Nat
  BY <1>2, <1>4 DEF OnTop
<1>6. \A j \in DOMAIN EntriesOf(stack[1].dir) : j < stack[1].pos
  <2>1. DOMAIN EntriesOf(stack[1].dir) = 1 .. Len(EntriesOf(stack[1].dir)) /\ Len(EntriesOf(stack[1].dir)) \in Nat
    BY <1>0, <1>2, EntriesAre
  <2> QED BY <1>1, <1>2, <2>1
<1>7. AtHand' = (IF Len(stack) = 1 THEN {} ELSE {stack[1].inum}) /\ (stack' = <<>> <=> Len(stack) = 1)
  <2>1. stack' = <<>> <=> Len(stack') = 0
    BY <1>4
  <2>2. stack' = <<>> <=> Len(stack) = 1
    BY <1>2, <1>4, <2>1
  <2> QED BY <1>1, <2>2 DEF AtHand, EntryCalls
<1>8. TreeOf(inodes, stack', AtHand', Past)
  <2>1. CASE Len(stack) = 1
    BY <1>2, <1>3, <1>4, <1>5, <1>6, <1>7, <2>1, TreePop
  <2>2. CASE Len(stack) # 1
    <3>1. Len(stack') > 0 /\ AtHand' = {stack[1].inum}
      BY <1>2, <1>4, <1>7, <2>2
    <3> QED BY <1>2, <1>3, <1>4, <1>5, <1>6, <3>1, TreePop
  <2> QED BY <2>1, <2>2
<1>9. Past' = Past
  BY <1>1 DEF Past, InUseInodes
<1>10. EntryInHand'
  <2>1. CASE Len(stack) = 1
    BY <1>1, <1>7, <2>1 DEF EntryInHand, EntryCalls
  <2>2. CASE Len(stack) # 1
    <3>1. 2 \in 2 .. Len(stack) /\ stack'[1] = stack[2]
      <4>1. 1 \in 1 .. Len(stack) - 1 /\ 1 + 1 = 2
        BY <1>2, <2>2
      <4>2. stack'[1] = stack[1 + 1]
        BY <1>4, <4>1
      <4> QED BY <1>2, <2>2, <4>2
    <3>2. stack[2].pos \in DOMAIN EntriesOf(stack[2].dir) /\ EntriesOf(stack[2].dir)[stack[2].pos].type = "dir"
      BY <1>3, <3>1 DEF TreeOf, WalkedUpTo
    <3>3. stack[1].inum \in DirsIn(inodes)
      BY <1>2, <1>3 DEF TreeOf, WalkedUpTo
    <3>4. Head(stack') = stack'[1] /\ stack' # <<>>
      BY <1>1, <1>2, <1>7, <2>2
    <3>5. Entry' = EntriesOf(Head(stack').dir)[Head(stack').pos]
      BY <1>1 DEF Entry, EntriesOf
    <3>6. Entry'.type = "dir" /\ Head(stack').pos \in DOMAIN EntriesOf(Head(stack').dir)
      BY <3>1, <3>2, <3>4, <3>5
    <3>7. current'.inum \in DirInodes'
      BY <1>1, <3>3 DEF DirInodes, DirsIn, Numbers
    <3>8. pc' = "finish"
      BY <1>1, <2>2
    <3>9. (pc \in EntryCalls /\ stack # <<>> => Head(stack).pos \in DOMAIN EntriesOf(Head(stack).dir))'
      BY <1>1, <3>6 DEF EntriesOf
    <3> QED BY <3>6, <3>7, <3>8, <3>9 DEF EntryInHand
  <2> QED BY <2>1, <2>2
<1> QED BY <1>1, <1>8, <1>9, <1>10, TreeNext DEF TreeInv

\* Blocks that arrive before the root leave the walk to come.
LEMMA NoWalkYet ==
  ASSUME BuildInv, pc \notin Walks, AttachInInode \/ AttachWithLeaf \/ AttachWhole \/ WithoutBlocks
  PROVE  pc' \notin Walks
<1>0. WalkInv
  BY DEF BuildInv
<1>1. CASE AttachInInode \/ AttachWithLeaf
  BY <1>1 DEF AttachInInode, AttachWithLeaf, Attach, ExtentsDone, Walks, EntryCalls
<1>2. CASE AttachWhole
  BY <1>0, <1>2 DEF AttachWhole, KeepWhole, WalkInv, Walks, EntryCalls
<1>3. CASE WithoutBlocks
  BY <1>3 DEF WithoutBlocks, Walks, EntryCalls
<1> QED BY <1>1, <1>2, <1>3

\* Every step keeps the directories and their entries in order.
LEMMA TreeStep ==
  ASSUME BuildInv, BuildInv', DirsInv, DirsInv', TreeInv, [MkfsNext]_mkfsVars
  PROVE  TreeInv'
<1>1. CASE Unreserved
  <2>1. Unreserved'
    BY <1>1, ForceKept
  <2> QED BY <2>1 DEF TreeInv
<1>2. CASE ~Unreserved
  <2>0. ~Unreserved'
    BY <1>2, ForceKept
  <2>1. CASE ReserveFirstInodes \/ CreateJournal \/ NoJournal \/ CreateResize \/ OutOfInodes \/ UpdateFree
    <3>1. pc' \notin Walks
      BY <2>1 DEF ReserveFirstInodes, CreateJournal, NoJournal, CreateResize, OutOfInodes, UpdateFree, Walks, EntryCalls
    <3> QED BY <3>1 DEF TreeInv
  <2>2. CASE MakeRoot
    BY <1>2, <2>0, <2>2, TreeRoot
  <2>3. CASE MakeDirectory \/ MakeLeaf
    BY <1>2, <2>0, <2>3, TreeMakes
  <2>4. CASE AttachInInode \/ AttachWithLeaf \/ AttachWhole \/ WithoutBlocks
    <3>1. CASE pc \in Walks
      BY <1>2, <2>0, <2>4, <3>1, TreeAttach
    <3>2. CASE pc \notin Walks
      <4>1. pc' \notin Walks
        BY <2>4, <3>2, NoWalkYet
      <4> QED BY <4>1 DEF TreeInv
    <3> QED BY <3>1, <3>2
  <2>5. CASE FinishPlain \/ FinishXattrTooBig \/ FinishXattrBlock
    BY <1>2, <2>0, <2>5, TreeFinish
  <2>6. CASE LeaveDirectory
    BY <1>2, <2>0, <2>6, TreeLeaves
  <2>7. CASE GatherRegion \/ UNCHANGED mkfsVars
    <3>1. /\ inodes' = inodes /\ pc' = pc /\ tree' = tree /\ stack' = stack /\ current' = current
          /\ inode_bitmap' = inode_bitmap
      BY <2>7 DEF GatherRegion, mkfsVars, mkfsOnly, inodeVars
    <3>2. CASE pc \in Walks
      <4>1. DirsStay(inodes, inodes')
        BY <3>1 DEF DirsStay
      <4> QED BY <1>2, <2>0, <3>1, <3>2, <4>1, TreeSame
    <3>3. CASE pc \notin Walks
      BY <3>1, <3>3 DEF TreeInv
    <3> QED BY <3>2, <3>3
  <2> QED BY <2>1, <2>2, <2>3, <2>4, <2>5, <2>6, <2>7 DEF MkfsNext, MkfsStep
<1> QED BY <1>1, <1>2

\* The tree is in order in every state of a build.
LEMMA TreeInvariance == MkfsSpec => [](BuildInv /\ TreeInv)
<1>1. MkfsInit => TreeInv
  BY DEF MkfsInit, TreeInv, Walks, EntryCalls
<1>2. BuildInv /\ DirsInv /\ BuildInv' /\ DirsInv' /\ TreeInv /\ [MkfsNext]_mkfsVars => TreeInv'
  BY TreeStep
<1> QED BY <1>1, <1>2, CountsInvariance, PTL DEF MkfsSpec

\* A directory has as many subdirectories as entries that are directories.
LEMMA SubdirsAre ==
  ASSUME NEW n \in DirInodes, NEW d, Like(inodes, n, d), \A j \in DOMAIN inodes[n].dents : inodes[n].dents[j] # 0,
         NEW D, D = {k \in DOMAIN inodes[n].dents : inodes[n].dents[k] \in DirInodes}
  PROVE  inodes[n].links = Cardinality(D) + 2
<1>1. \A k \in DOMAIN inodes[n].dents : EntriesOf(d)[k].type = "dir" <=> inodes[n].dents[k] \in DirInodes
  BY DEF Like, DirsIn, DirInodes, Numbers
<1>2. D = {k \in DOMAIN EntriesOf(d) : EntriesOf(d)[k].type = "dir"}
  BY <1>1 DEF Like
<1> QED BY <1>2 DEF Like, Subdirs

\* A build makes finitely many directories.
LEMMA DirsFinite ==
  ASSUME BuildInv, ~Unreserved
  PROVE  IsFiniteSet(DirInodes)
<1>1. DirInodes \subseteq 1 .. NumGroups * InodesPerGroup
  BY NumbersAre DEF BuildInv, DirInodes
<1>2. NumGroups * InodesPerGroup \in Int
  BY NumGroupsAssumption, InodesAssumption
<1>3. IsFiniteSet(1 .. NumGroups * InodesPerGroup)
  BY <1>2, FS_Interval
<1> QED BY <1>1, <1>3, FS_Subset

\* When the tree is done the directories name every inode in use past the
\* reserved ones once, have a link for every subdirectory and two of their
\* own, and parents that name them: what build_directory_structure and
\* make_directory promise together, whatever the tree, the groups and the
\* allocations that went before.
THEOREM TreeMatches == MkfsSpec => []TreeMatchesInodes
<1>1. BuildInv /\ TreeInv => TreeMatchesInodes
  <2> SUFFICES ASSUME BuildInv, TreeInv, pc = "update", ~Unreserved,
                      NEW named, named = UNION {{d} \X (DOMAIN inodes[d].dents) : d \in DirInodes}
               PROVE  /\ \A p, q \in named : inodes[p[1]].dents[p[2]] = inodes[q[1]].dents[q[2]] => p = q
                      /\ {inodes[p[1]].dents[p[2]] : p \in named} = InUseInodes \ 1 .. RESERVED_INODES
                      /\ \A n \in DirInodes :
                           /\ inodes[n].links = 2 + Cardinality({p \in named : p[1] = n
                                                       /\ inodes[p[1]].dents[p[2]] \in DirInodes})
                           /\ n # ROOT_INO => \E p \in named : p[1] = inodes[n].parent
                                                               /\ inodes[p[1]].dents[p[2]] = n
    BY DEF TreeMatchesInodes
  <2>1. TreeOf(inodes, stack, AtHand, Past) /\ stack = <<>> /\ AtHand = {}
    BY DEF TreeInv, Walks, EntryInHand, AtHand
  <2>2. Unnamed(stack) = {} /\ DOMAIN stack = {} /\ Len(stack) = 0 /\ DirsIn(inodes) = DirInodes
    <3>1. Len(stack) = 0 /\ DOMAIN stack = {} /\ 1 .. 0 - 1 = {}
      BY <2>1
    <3> QED BY <3>1 DEF Unnamed, DirsIn, DirInodes, Numbers
  <2>3. ASSUME NEW p PROVE p \in named <=> \E d \in DirInodes : \E k \in DOMAIN inodes[d].dents : p = <<d, k>>
    OBVIOUS
  <2>4. \A d \in DirInodes : /\ \A j \in DOMAIN inodes[d].dents : inodes[d].dents[j] # 0
                             /\ \E s : Like(inodes, d, s)
    BY <2>1, <2>2 DEF TreeOf, WalkedAll
  <2>5. \A d, k : (\E n : Names(inodes, d, k, n)) <=> <<d, k>> \in named
    <3>1. \A d, k : (\E n : Names(inodes, d, k, n)) <=> d \in DirInodes /\ k \in DOMAIN inodes[d].dents
      BY <2>2, <2>4 DEF Names
    <3>2. \A d, k : <<d, k>> \in named <=> d \in DirInodes /\ k \in DOMAIN inodes[d].dents
      OBVIOUS
    <3> QED BY <3>1, <3>2
  <2>6. ASSUME NEW p \in named
        PROVE  p = <<p[1], p[2]>> /\ Names(inodes, p[1], p[2], inodes[p[1]].dents[p[2]])
    <3>1. PICK d \in DirInodes : \E k \in DOMAIN inodes[d].dents : p = <<d, k>>
      BY <2>3
    <3>2. PICK k \in DOMAIN inodes[d].dents : p = <<d, k>>
      BY <3>1
    <3>3. p[1] = d /\ p[2] = k
      BY <3>2
    <3> QED BY <2>2, <2>4, <3>2, <3>3 DEF Names
  <2>7. ASSUME NEW p \in named, NEW q \in named, inodes[p[1]].dents[p[2]] = inodes[q[1]].dents[q[2]]
        PROVE  p = q
    <3>1. p[1] = q[1] /\ p[2] = q[2]
      BY <2>1, <2>6, <2>7 DEF TreeOf, NamedOnce
    <3> QED BY <2>6, <3>1
  <2>8. {inodes[p[1]].dents[p[2]] : p \in named} = Past
    <3>1. \A n : n \in Past <=> \E d, k : Names(inodes, d, k, n)
      BY <2>1, <2>2 DEF TreeOf, NamedOrOpen
    <3>2. ASSUME NEW n \in Past PROVE \E p \in named : n = inodes[p[1]].dents[p[2]]
      <4>1. PICK d, k : Names(inodes, d, k, n)
        BY <3>1
      <4>2. PICK p : p = <<d, k>>
        OBVIOUS
      <4>3. p \in named /\ p[1] = d /\ p[2] = k
        BY <2>5, <4>1, <4>2
      <4> QED BY <4>1, <4>3 DEF Names
    <3>3. ASSUME NEW p \in named PROVE inodes[p[1]].dents[p[2]] \in Past
      BY <2>6, <3>1
    <3> QED BY <3>2, <3>3
  <2>9. ASSUME NEW n \in DirInodes, NEW S, S = {p \in named : p[1] = n /\ inodes[p[1]].dents[p[2]] \in DirInodes}
        PROVE  inodes[n].links = 2 + Cardinality(S)
    <3>1. PICK D : D = {k \in DOMAIN inodes[n].dents : inodes[n].dents[k] \in DirInodes}
      OBVIOUS
    <3>2. PICK d : Like(inodes, n, d)
      BY <2>4
    <3>3. inodes[n].links = Cardinality(D) + 2
      BY <2>4, <3>1, <3>2, SubdirsAre
    <3>4. IsFiniteSet(D)
      <4>1. PICK f : f = [k \in D |-> inodes[n].dents[k]]
        OBVIOUS
      <4>2. \A k \in D : f[k] \in DirInodes
        BY <3>1, <4>1
      <4>3. \A j, k \in D : f[j] = f[k] => j = k
        <5>1. \A k \in D : Names(inodes, n, k, f[k])
          BY <2>2, <2>4, <3>1, <4>1 DEF Names
        <5> QED BY <2>1, <5>1 DEF TreeOf, NamedOnce
      <4>4. IsFiniteSet(DirInodes)
        BY DirsFinite
      <4>5. f \in [D -> DirInodes]
        BY <4>1, <4>2
      <4> QED BY <4>3, <4>4, <4>5, FS_Injection DEF Injection, IsInjective
    <3>5. PICK f : f = [k \in D |-> <<n, k>>]
      OBVIOUS
    <3>6. \A k \in D : f[k] \in S
      BY <2>3, <2>9, <3>1, <3>5
    <3>7. ASSUME NEW p \in S PROVE \E k \in D : f[k] = p
      BY <2>6, <2>9, <3>1, <3>5, <3>7 DEF Names
    <3>8. f \in [D -> S] /\ \A j, k \in D : f[j] = f[k] => j = k
      BY <3>5, <3>6
    <3>9. Cardinality(S) = Cardinality(D)
      BY <3>4, <3>7, <3>8, FS_Surjection DEF Surjection, Injection, IsInjective
    <3>10. Cardinality(D) \in Nat
      BY <3>4, FS_CardinalityType
    <3> QED BY <3>3, <3>9, <3>10
  <2>10. ASSUME NEW n \in DirInodes, n # ROOT_INO
         PROVE  \E p \in named : p[1] = inodes[n].parent /\ inodes[p[1]].dents[p[2]] = n
    <3>1. PICK k : Names(inodes, inodes[n].parent, k, n)
      <4>1. 1 .. Len(stack) - 1 = {}
        BY <2>2
      <4> QED BY <2>1, <2>2, <2>10, <4>1 DEF TreeOf, ParentsName
    <3>2. PICK p : p = <<inodes[n].parent, k>>
      OBVIOUS
    <3>3. p \in named /\ p[1] = inodes[n].parent /\ p[2] = k
      BY <2>5, <3>1, <3>2
    <3> QED BY <3>1, <3>3 DEF Names
  <2> QED BY <2>7, <2>8, <2>9, <2>10 DEF Past
<1> QED BY <1>1, TreeInvariance, PTL
=============================================================================

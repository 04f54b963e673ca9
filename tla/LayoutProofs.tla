---------------------------- MODULE LayoutProofs ----------------------------
(***************************************************************************)
(* The geometry of an image for all options: any length, block size, group *)
(* size, number and size of inodes.                                        *)
(***************************************************************************)
EXTENDS Layout, Arithmetic

Stages == {"options", "parameters", "groups", "resize", "queue", "written", "done", "refused",
           "failed", "crashed"}
Placed == stage \in {"groups", "resize", "queue", "written", "done", "refused"}
Computed == stage = "parameters" \/ Placed

Header(g) == HeaderSize(info, aux, HasSuper(g))
BgOf(g) ==
  [first_block |-> FirstBlock(g), header |-> Header(g),
   limit |-> LimitOf(Header(g), FirstBlock(g) + info.blocks_per_group - aux.len_blocks)]

\* The groups set up so far are the first ones.
Prefix(n) ==
  /\ bgs = [g \in 0 .. n - 1 |-> BgOf(g)]
  /\ \A g \in 0 .. n - 1 : Header(g) <= info.blocks_per_group

\* The options as compute_* complete them, and the geometry they lead to; an
\* image of less than a block has no group.
ParametersOf(Len) ==
  [len : Len, block_size : Nat \ {0}, blocks_per_group : Nat \ {0}, inodes : Nat,
   inode_size : Nat \ {0}, inodes_per_group : Nat, bg_desc_reserve_blocks : Nat]
Parameters == ParametersOf(Nat \ {0})
GeometryInv ==
  /\ stage \in Stages
  /\ stage = "options" => info \in [len : Nat, part : BOOLEAN, block_size : Nat \ {0},
                                    blocks_per_group : Nat, inodes : Nat, inode_size : Nat]
  /\ stage \in {"options", "parameters"} => bgs = [g \in {} |-> 0]
  /\ Computed => info \in ParametersOf(Nat)
  /\ Placed => aux = AuxOf(info) /\ aux.groups \in Nat /\ (aux.groups > 0 => info \in Parameters)
  /\ stage = "groups" => \E n \in 0 .. aux.groups : Prefix(n)
  /\ GroupsReady => aux.groups > 0 /\ Prefix(aux.groups)

-----------------------------------------------------------------------------
(* Division.                                                               *)

LEMMA CeilDivIs ==
  ASSUME NEW x \in Nat, NEW y \in Nat \ {0}, NEW q \in Nat, q * y >= x, q * y < x + y
  PROVE  CeilDiv(x, y) = q
<1> DEFINE r == x + y - 1 - q * y
<1>1. q * y \in Nat /\ r \in 0 .. y - 1 /\ x + y - 1 = q * y + r
  OBVIOUS
<1> HIDE DEF r
<1> QED BY <1>1, Division DEF CeilDiv

LEMMA CeilDivNat ==
  ASSUME NEW x \in Nat, NEW y \in Nat \ {0}
  PROVE  /\ CeilDiv(x, y) \in Nat
         /\ x > 0 => CeilDiv(x, y) > 0
         /\ x = 0 => CeilDiv(x, y) = 0
<1> DEFINE q == CeilDiv(x, y)
<1>1. q \in Nat /\ q * y <= x + y - 1 /\ x + y - 1 < q * y + y
  BY DEF CeilDiv
<1>2. q * y \in Nat
  BY <1>1
<1>3. x > 0 => q > 0
  BY <1>1, <1>2
<1>4. x = 0 => q = 0
  <2>1. SUFFICES ASSUME x = 0, q >= 1 PROVE FALSE
    BY <1>1
  <2>2. q * y >= y
    BY <1>1, <2>1
  <2> QED BY <1>1, <2>1, <2>2
<1> QED BY <1>1, <1>3, <1>4

LEMMA CeilDivBounds ==
  ASSUME NEW x \in Nat, NEW y \in Nat \ {0}
  PROVE  /\ CeilDiv(x, y) \in Nat
         /\ CeilDiv(x, y) * y >= x /\ CeilDiv(x, y) * y < x + y
<1> DEFINE q == CeilDiv(x, y)
<1>1. q \in Nat /\ q * y <= x + y - 1 /\ x + y - 1 < q * y + y
  BY DEF CeilDiv
<1>2. q * y \in Nat
  BY <1>1
<1> QED BY <1>1, <1>2

LEMMA CeilDivMonotone ==
  ASSUME NEW x \in Nat, NEW z \in Nat, x <= z, NEW y \in Nat \ {0}
  PROVE  CeilDiv(x, y) <= CeilDiv(z, y)
<1>1. PICK p \in Nat : p = CeilDiv(x, y) /\ p * y < x + y
  BY CeilDivBounds
<1>2. PICK q \in Nat : q = CeilDiv(z, y) /\ q * y >= z
  BY CeilDivBounds
<1>3. SUFFICES ASSUME q + 1 <= p PROVE FALSE
  BY <1>1, <1>2
<1>4. (q + 1) * y <= p * y
  BY <1>1, <1>2, <1>3
<1>5. (q + 1) * y = q * y + y /\ q * y \in Nat /\ p * y \in Nat
  BY <1>1, <1>2
<1> QED BY <1>1, <1>2, <1>4, <1>5

\* Groups behind each other do not overlap.
LEMMA Apart ==
  ASSUME NEW y \in Nat, NEW g \in Nat, NEW h \in Nat, g < h
  PROVE  g * y + y <= h * y /\ g * y \in Nat /\ h * y \in Nat
<1>1. (h - g) \in Nat \ {0} /\ (h - g) * y >= y
  OBVIOUS
<1>2. (h - g) * y = h * y - g * y /\ h * y \in Nat /\ g * y \in Nat
  OBVIOUS
<1> QED BY <1>1, <1>2

-----------------------------------------------------------------------------
(* The geometry.                                                           *)

\* The two ends ext4_init_fs_aux_info can come to.
LEMMA AuxIs ==
  ASSUME NEW f \in Parameters, NEW a, a = AuxOf(f)
  PROVE  LET groups == CeilDiv(f.len - a.first_data_block, f.blocks_per_group)
             last == f.len % f.blocks_per_group
             header(g) == HeaderSize(f, a, HasSuper(g))
         IN  /\ a.first_data_block = (IF f.block_size > 1024 THEN 0 ELSE 1)
             /\ a.inode_table_blocks \in Nat /\ a.bg_desc_blocks \in Nat /\ groups \in Nat
             /\ a.inode_table_blocks = CeilDiv(f.inodes_per_group * f.inode_size, f.block_size)
             /\ a.bg_desc_blocks = DescBlocks(groups, f.block_size)
             /\ a = [first_data_block |-> a.first_data_block, len_blocks |-> a.len_blocks,
                     groups |-> a.groups, inode_table_blocks |-> a.inode_table_blocks,
                     bg_desc_blocks |-> a.bg_desc_blocks]
             /\ \/ a.len_blocks = f.len /\ a.groups = groups /\ ~Drops(last, header(groups - 1))
                \/ /\ a.len_blocks = f.len - last /\ a.groups = groups - 1
                   /\ Drops(last, header(groups - 1))
<1> DEFINE first == IF f.block_size > 1024 THEN 0 ELSE 1
           groups == CeilDiv(f.len - first, f.blocks_per_group)
           table == CeilDiv(f.inodes_per_group * f.inode_size, f.block_size)
           all == [first_data_block |-> first, len_blocks |-> f.len, groups |-> groups,
                   inode_table_blocks |-> table,
                   bg_desc_blocks |-> DescBlocks(groups, f.block_size)]
           last == f.len % f.blocks_per_group
<1>1. /\ f.len \in Nat \ {0} /\ f.blocks_per_group \in Nat \ {0} /\ f.block_size \in Nat \ {0}
      /\ f.inodes_per_group \in Nat /\ f.inode_size \in Nat /\ f.bg_desc_reserve_blocks \in Nat
  BY DEF Parameters, ParametersOf
<1>2. f.len - first \in Nat /\ last \in Nat
  BY <1>1
<1>3. groups \in Nat
  BY <1>1, <1>2, CeilDivNat
<1>4. table \in Nat
  <2>1. f.inodes_per_group * f.inode_size \in Nat
    BY <1>1
  <2> QED BY <1>1, <2>1, CeilDivNat
<1>5. DescBlocks(groups, f.block_size) \in Nat
  <2>1. groups * DESC_SIZE \in Nat
    BY <1>3 DEF DESC_SIZE
  <2> QED BY <1>1, <2>1, CeilDivNat DEF DescBlocks
<1> HIDE DEF groups, table, last, first
<1>6. CASE ~Drops(last, HeaderSize(f, all, HasSuper(groups - 1)))
  <2>1. a = all
    BY <1>6 DEF AuxOf, groups, table, last, first
  <2>2. a.first_data_block = first /\ a.groups = groups /\ a.inode_table_blocks = table
        /\ a.bg_desc_blocks = DescBlocks(groups, f.block_size) /\ a.len_blocks = f.len
    BY <2>1
  <2> QED BY <1>3, <1>4, <1>5, <1>6, <2>1, <2>2 DEF groups, last, first, table
<1>7. CASE Drops(last, HeaderSize(f, all, HasSuper(groups - 1)))
  <2>1. a = [all EXCEPT !.groups = @ - 1, !.len_blocks = Remaining(@, last)]
    BY <1>7 DEF AuxOf, groups, table, last, first
  <2>2. a.first_data_block = first /\ a.groups = groups - 1 /\ a.inode_table_blocks = table
        /\ a.bg_desc_blocks = DescBlocks(groups, f.block_size) /\ a.len_blocks = f.len - last
    BY <2>1 DEF Remaining
  <2>3. HeaderSize(f, a, HasSuper(groups - 1)) = HeaderSize(f, all, HasSuper(groups - 1))
    BY <2>2 DEF HeaderSize
  <2>4. a = [first_data_block |-> first, len_blocks |-> f.len - last, groups |-> groups - 1,
             inode_table_blocks |-> table, bg_desc_blocks |-> DescBlocks(groups, f.block_size)]
    BY <2>1 DEF Remaining
  <2> QED BY <1>3, <1>4, <1>5, <1>7, <2>2, <2>3, <2>4 DEF groups, last, first, table
<1> QED BY <1>6, <1>7

\* Without a block there is no group.
LEMMA NoBlocksNoGroups ==
  ASSUME NEW f \in ParametersOf(Nat), f.len = 0, NEW a, a = AuxOf(f)
  PROVE  a.groups \in Int /\ a.groups <= 0
<1> DEFINE first == IF f.block_size > 1024 THEN 0 ELSE 1
           groups == CeilDiv(f.len - first, f.blocks_per_group)
<1>1. PICK y \in Nat \ {0} : y = f.blocks_per_group
  BY DEF ParametersOf
<1>2. groups \in Int /\ groups <= 0
  <2>1. (0 - 1 + y - 1) \div y \in Int /\ (0 + y - 1) \div y \in Int
    BY <1>1
  <2>2. (0 + y - 1) \div y = 0
    BY <1>1
  <2>3. (0 - 1 + y - 1) \div y <= 0
    BY <1>1
  <2> QED BY <1>1, <2>1, <2>2, <2>3 DEF CeilDiv
<1>3. f.len % f.blocks_per_group = 0
  BY <1>1
<1> HIDE DEF groups
<1>4. a.groups = groups
  BY <1>3 DEF AuxOf, Drops, groups
<1> QED BY <1>2, <1>4

LEMMA HeaderIs ==
  ASSUME info \in Parameters, aux = AuxOf(info), NEW g
  PROVE  /\ SuperSize \in Nat \ {0}
         /\ Header(g) = 2 + aux.inode_table_blocks + IF HasSuper(g) THEN SuperSize ELSE 0
         /\ Header(g) \in Nat /\ Header(g) >= 2
<1>1. aux.inode_table_blocks \in Nat /\ aux.bg_desc_blocks \in Nat
      /\ info.bg_desc_reserve_blocks \in Nat
  BY AuxIs DEF Parameters, ParametersOf
<1> QED BY <1>1 DEF Header, HeaderSize, SuperSize

THEOREM GeometryInvariance == LayoutSpec => []GeometryInv
<1>1. ASSUME LayoutInit PROVE GeometryInv
  <2>1. PICK o \in Options : info = [o EXCEPT !.block_size = IF @ = 0 THEN 4096 ELSE @]
    BY <1>1 DEF LayoutInit
  <2>2. info \in [len : Nat, part : BOOLEAN, block_size : Nat \ {0}, blocks_per_group : Nat,
                  inodes : Nat, inode_size : Nat]
    BY <2>1, OptionsAssumption
  <2> QED BY <1>1, <2>2 DEF LayoutInit, GeometryInv, Stages, Computed, Placed, GroupsReady
<1>2. ASSUME GeometryInv, [LayoutNext]_layoutVars PROVE GeometryInv'
  <2> USE <1>2
  <2>1. CASE ComputeParameters
    <3>1. CASE stage' = "crashed"
      BY <2>1, <3>1 DEF ComputeParameters, GeometryInv, Stages, Computed, Placed, GroupsReady
    <3>2. CASE stage' # "crashed"
      <4> DEFINE bs == info.block_size
                 bpg == IF info.blocks_per_group = 0 THEN bs * 8 ELSE info.blocks_per_group
                 blocks == info.len + IF info.part THEN 1 ELSE 0
                 inodes == IF info.inodes = 0 THEN blocks \div 4 ELSE info.inodes
                 size == IF info.inode_size = 0 THEN 256 ELSE info.inode_size
                 groups == CeilDiv(blocks, bpg)
                 align == bs \div size
                 ipg == align * CeilDiv(CeilDiv(inodes, groups), align)
                 reserve == CeilDiv(groups * 1024 * DESC_SIZE, bs) - DescBlocks(groups, bs)
      <4>1. /\ stage' = "parameters" /\ groups # 0 /\ align # 0
            /\ info' = [len |-> info.len, block_size |-> bs, blocks_per_group |-> bpg,
                  inodes |-> ipg * groups, inode_size |-> size, inodes_per_group |-> ipg,
                  bg_desc_reserve_blocks |-> Smaller(reserve, bs \div 4)]
            /\ UNCHANGED bgs
        BY <2>1, <3>2 DEF ComputeParameters
      <4>2. /\ info.len \in Nat /\ blocks \in Nat /\ bs \in Nat \ {0} /\ bpg \in Nat \ {0}
            /\ inodes \in Nat /\ size \in Nat \ {0}
        BY <2>1, SMTT(60) DEF ComputeParameters, GeometryInv
      <4>3. groups \in Nat \ {0} /\ align \in Nat \ {0} /\ bs \div 4 \in Nat
        <5> HIDE DEF blocks
        <5>1. groups \in Nat
          BY <4>2, CeilDivNat
        <5>2. align \in Nat /\ bs \div 4 \in Nat
          BY <4>2
        <5> QED BY <4>1, <5>1, <5>2
      <4>4. ipg \in Nat
        <5>1. CeilDiv(inodes, groups) \in Nat
          BY <4>2, <4>3, CeilDivNat
        <5>2. CeilDiv(CeilDiv(inodes, groups), align) \in Nat
          BY <4>3, <5>1, CeilDivNat
        <5> QED BY <4>3, <5>2
      <4>5. reserve \in Nat
        <5>1. groups * 1024 * DESC_SIZE \in Nat /\ groups * DESC_SIZE \in Nat
              /\ groups * DESC_SIZE <= groups * 1024 * DESC_SIZE
          BY <4>3 DEF DESC_SIZE
        <5> DEFINE x == groups * DESC_SIZE
                   z == groups * 1024 * DESC_SIZE
        <5> HIDE DEF x, z, groups
        <5>2. CeilDiv(x, bs) \in Nat /\ CeilDiv(z, bs) \in Nat
          BY <4>2, <5>1, CeilDivNat DEF x, z
        <5>3. CeilDiv(x, bs) <= CeilDiv(z, bs)
          BY <4>2, <5>1, CeilDivMonotone DEF x, z
        <5> QED BY <5>2, <5>3 DEF x, z, DescBlocks
      <4>6. ipg * groups \in Nat /\ Smaller(reserve, bs \div 4) \in Nat
        BY <4>3, <4>4, <4>5 DEF Smaller
      <4> HIDE DEF bpg, blocks, inodes, size, groups, align, ipg, reserve
      <4>7. info' \in ParametersOf(Nat)
        BY <4>1, <4>2, <4>3, <4>4, <4>6 DEF ParametersOf
      <4> QED BY <2>1, <4>1, <4>7 DEF ComputeParameters, GeometryInv, Stages, Computed, Placed, GroupsReady
    <3> QED BY <3>1, <3>2
  <2>2. CASE InitAux
    <3>1. /\ stage = "parameters" /\ UNCHANGED <<info, bgs>> /\ info \in ParametersOf(Nat)
          /\ bgs = [g \in {} |-> 0] /\ aux' = AuxOf(info)
          /\ stage' = IF aux'.groups < 0 THEN "failed"
                      ELSE IF info.block_size < 1024 THEN "crashed" ELSE "groups"
      BY <2>2 DEF InitAux, GeometryInv, Computed
    <3>2. aux'.groups \in Int /\ (aux'.groups > 0 => info \in Parameters)
      <4>1. PICK a : a = AuxOf(info)
        OBVIOUS
      <4>2. CASE info.len = 0
        <5>1. a.groups \in Int /\ a.groups <= 0
          BY <3>1, <4>1, <4>2, NoBlocksNoGroups
        <5> QED BY <3>1, <4>1, <5>1
      <4>3. CASE info.len # 0
        <5>1. info \in Parameters
          BY <3>1, <4>3 DEF ParametersOf, Parameters, ParametersOf
        <5>2. a.groups \in Int
          BY <4>1, <5>1, AuxIs
        <5> QED BY <3>1, <4>1, <5>1, <5>2
      <4> QED BY <4>2, <4>3
    <3>3. CASE stage' = "groups"
      <4>1. aux'.groups \in Nat
        BY <3>1, <3>2, <3>3
      <4>2. Prefix(0)'
        BY <3>1 DEF Prefix
      <4> QED BY <3>1, <3>2, <3>3, <4>1, <4>2 DEF GeometryInv, Stages, Computed, Placed, GroupsReady
    <3> QED BY <3>1, <3>3 DEF GeometryInv, Stages, Computed, Placed, GroupsReady
  <2>3. CASE InitBg
    <3>1. /\ stage = "groups" /\ UNCHANGED <<info, aux>> /\ info \in Parameters
          /\ aux = AuxOf(info) /\ aux.groups \in Nat
      BY <2>3 DEF InitBg, GeometryInv, Placed
    <3>2. PICK n \in 0 .. aux.groups : Prefix(n)
      BY <3>1 DEF GeometryInv
    <3>3. Cardinality(DOMAIN bgs) = n
      BY <3>2, FS_Interval DEF Prefix
    <3>4. CASE stage' = "failed"
      BY <3>1, <3>4 DEF GeometryInv, Stages, Computed, Placed, GroupsReady
    <3>5. CASE stage' # "failed"
      <4>1. /\ n \in 0 .. aux.groups - 1 /\ stage' = stage /\ Header(n) <= info.blocks_per_group
            /\ bgs' = [h \in DOMAIN bgs \cup {n} |-> IF h = n THEN BgOf(n) ELSE bgs[h]]
        <5>1. Header(n) \in Nat /\ info.blocks_per_group \in Nat
          BY <3>1, HeaderIs DEF Parameters, ParametersOf
        <5>2. n \in 0 .. aux.groups - 1
          BY <2>3, <3>3 DEF InitBg
        <5>3. IF Header(n) > info.blocks_per_group THEN stage' = "failed"
              ELSE /\ bgs' = [h \in DOMAIN bgs \cup {n} |-> IF h = n THEN BgOf(n) ELSE bgs[h]]
                   /\ stage' = stage
          BY <2>3, <3>3 DEF InitBg, BgOf, Header
        <5> QED BY <3>5, <5>1, <5>2, <5>3
      <4>2. DOMAIN bgs \cup {n} = 0 .. (n + 1) - 1
        BY <3>2, <4>1 DEF Prefix
      <4>3. \A g : BgOf(g)' = BgOf(g) /\ Header(g)' = Header(g)
        BY <3>1 DEF BgOf, Header, FirstBlock, LimitOf
      <4>4. Prefix(n + 1)'
        BY <3>2, <4>1, <4>2, <4>3, <3>1 DEF Prefix
      <4> QED BY <3>1, <3>2, <4>1, <4>4 DEF GeometryInv, Stages, Computed, Placed, GroupsReady
    <3> QED BY <3>4, <3>5
  <2>4. CASE FillInSb
    <3>1. stage = "groups" /\ UNCHANGED <<info, aux, bgs>> /\ Cardinality(DOMAIN bgs) = aux.groups
          /\ stage' = IF aux.groups = 0 THEN "crashed" ELSE "resize"
      BY <2>4 DEF FillInSb
    <3>2. aux = AuxOf(info) /\ aux.groups \in Nat
      BY <3>1 DEF GeometryInv, Placed
    <3>3. PICK n \in 0 .. aux.groups : Prefix(n)
      BY <3>1 DEF GeometryInv
    <3>4. n = aux.groups
      BY <3>1, <3>3, FS_Interval DEF Prefix
    <3>5. Prefix(n)'
      BY <3>1, <3>3 DEF Prefix, BgOf, Header, FirstBlock, LimitOf
    <3> QED BY <3>1, <3>2, <3>4, <3>5 DEF GeometryInv, Stages, Computed, Placed, GroupsReady
  <2>5. CASE CreateResize \/ QueueSb \/ ParseSb \/ UNCHANGED layoutVars
    <3>1. /\ UNCHANGED <<info, aux, bgs>>
          /\ stage' \in Stages /\ (stage' = stage \/ (GroupsReady /\ (stage' = "crashed" \/ GroupsReady')))
      BY <2>5 DEF CreateResize, QueueSb, ParseSb, layoutVars, GroupsReady, Stages, GeometryInv
    <3>2. \A n : Prefix(n) => Prefix(n)'
      BY <3>1 DEF Prefix, BgOf, Header, FirstBlock, LimitOf
    <3>3. CASE stage' = stage
      BY <3>1, <3>2, <3>3 DEF GeometryInv, Computed, Placed, GroupsReady
    <3>4. CASE GroupsReady /\ (stage' = "crashed" \/ GroupsReady')
      BY <3>1, <3>2, <3>4 DEF GeometryInv, Computed, Placed, GroupsReady
    <3> QED BY <3>1, <3>3, <3>4
  <2> QED BY <2>1, <2>2, <2>3, <2>4, <2>5 DEF LayoutNext
<1> QED BY <1>1, <1>2, PTL DEF LayoutSpec

\* The image ends in its last group, with a full group or in one that was not
\* dropped.
LEMMA LastGroup ==
  ASSUME info \in Parameters, aux = AuxOf(info), aux.groups \in Nat \ {0}, ~DropsFullGroup,
         info.blocks_per_group > 1,
         NEW n, n = aux.groups - 1, NEW y, y = info.blocks_per_group
  PROVE  \E m \in 1 .. y :
           /\ aux.len_blocks = n * y + m
           /\ m = y \/ (m = info.len % y /\ m >= Header(n) /\ LastHeader = Header(n))
<1> DEFINE L == info.len
           F == aux.first_data_block
           q == L \div y
           last == L % y
           N == CeilDiv(L - F, y)
<1>1. /\ L \in Nat \ {0} /\ y \in Nat \ {0} /\ y > 1 /\ F \in {0, 1}
      /\ q \in Nat /\ last \in 0 .. y - 1 /\ L = q * y + last /\ q * y \in Nat
  <2>1. L \in Nat \ {0} /\ y \in Nat \ {0} /\ y > 1
    BY DEF Parameters, ParametersOf
  <2>2. F \in {0, 1}
    BY AuxIs
  <2> HIDE DEF F, L
  <2> QED BY <2>1, <2>2, DivMod
<1>2. \/ aux.len_blocks = L /\ aux.groups = N /\ ~Drops(last, HeaderSize(info, aux, HasSuper(N - 1)))
      \/ aux.len_blocks = L - last /\ aux.groups = N - 1 /\ Drops(last, HeaderSize(info, aux, HasSuper(N - 1)))
  BY AuxIs
<1>3. L - F \in Nat /\ ~(F = 1 /\ last = 1)
  <2>1. ~(F = 1 /\ last = 1)
    BY DEF DropsFullGroup
  <2> HIDE DEF L, F, last, q
  <2> QED BY <1>1, <2>1
<1>4. aux.groups = N => LastHeader = Header(n)
  BY DEF Header, LastHeader
<1>5. Header(n) \in Nat /\ (aux.groups = N => HeaderSize(info, aux, HasSuper(N - 1)) = Header(n))
  BY HeaderIs DEF Header
<1>6. N = CeilDiv(L - F, y)
  OBVIOUS
<1> HIDE DEF L, F, q, last, N
<1>7. CASE last = 0
  <2>1. q * y >= L - F /\ q * y < (L - F) + y
    BY <1>1, <1>7
  <2>2. N = q
    BY <1>1, <1>3, <1>6, <2>1, CeilDivIs
  <2>3. aux.len_blocks = L /\ aux.groups = q
    BY <1>2, <1>7, <2>2 DEF Drops
  <2>4. n = q - 1 /\ n * y = q * y - y
    BY <1>1, <2>3
  <2>5. aux.len_blocks = n * y + y
    BY <1>1, <1>7, <2>3, <2>4
  <2> QED BY <1>1, <2>5
<1>8. CASE last > 0
  <2>1. (q + 1) * y = q * y + y
    BY <1>1
  <2>2. q + 1 \in Nat /\ (q + 1) * y >= L - F /\ (q + 1) * y < (L - F) + y
    BY <1>1, <1>3, <1>8, <2>1
  <2>3. N = q + 1
    BY <1>1, <1>3, <1>6, <2>2, CeilDivIs
  <2>4. CASE aux.groups = N - 1 /\ aux.len_blocks = L - last
    <3>1. n = q - 1 /\ n * y = q * y - y
      BY <1>1, <2>3, <2>4
    <3>2. aux.len_blocks = n * y + y
      BY <1>1, <2>4, <3>1
    <3> QED BY <1>1, <3>2
  <2>5. CASE aux.len_blocks = L /\ aux.groups = N /\ ~Drops(last, HeaderSize(info, aux, HasSuper(N - 1)))
    <3>1. n = q
      BY <1>1, <2>3, <2>5
    <3>2. aux.len_blocks = n * y + last
      BY <1>1, <2>5, <3>1
    <3>3. last >= Header(n)
      BY <1>1, <1>5, <1>8, <2>5 DEF Drops
    <3> QED BY <1>1, <1>4, <1>8, <2>5, <3>2, <3>3 DEF last, L
  <2> QED BY <1>2, <2>4, <2>5
<1> QED BY <1>1, <1>7, <1>8

\* What block_allocator_init takes for granted of the geometry holds for all
\* options, but where the first group starts at block 1 and OffByOne names the
\* remainder.
THEOREM GroupsAlwaysFit == LayoutSpec => []GroupsFitImage
<1>1. ASSUME GeometryInv PROVE GroupsFitImage
  <2> DEFINE y == info.blocks_per_group
             n == aux.groups - 1
             F == aux.first_data_block
  <2> SUFFICES ASSUME GroupsReady, ~OffByOne
               PROVE  /\ \A g \in DOMAIN bgs :
                           /\ bgs[g].header <= bgs[g].limit
                           /\ bgs[g].first_block + bgs[g].limit <= aux.len_blocks
                      /\ FirstBlock(aux.groups) >= aux.len_blocks
    BY DEF GroupsFitImage
  <2>1. /\ info \in Parameters /\ aux = AuxOf(info) /\ aux.groups \in Nat \ {0}
        /\ Prefix(aux.groups) /\ ~DropsFullGroup
    BY <1>1 DEF GeometryInv, GroupsReady, Computed, Placed, OffByOne
  <2>2. y \in Nat \ {0} /\ F \in {0, 1}
    BY <2>1, AuxIs DEF Parameters, ParametersOf
  <2>3. /\ n \in 0 .. aux.groups - 1 /\ n \in Nat
        /\ \A g \in 0 .. n : Header(g) \in Nat /\ 2 <= Header(g) /\ Header(g) <= y
    BY <2>1, HeaderIs DEF Prefix
  <2>4. y > 1
    BY <2>2, <2>3
  <2>5. PICK m \in 1 .. y :
           /\ aux.len_blocks = n * y + m
           /\ m = y \/ (m = info.len % y /\ m >= Header(n) /\ LastHeader = Header(n))
    BY <2>1, <2>4, LastGroup
  <2>6. n * y \in Nat /\ m \in Nat
    BY <2>2, <2>3
  <2>7. F = 1 => Header(n) # y /\ (m = info.len % y => m # LastHeader)
    BY <2>1, <2>3 DEF OffByOne, Prefix, BgOf
  <2>8. ASSUME NEW g \in DOMAIN bgs
        PROVE  /\ bgs[g].header <= bgs[g].limit
               /\ bgs[g].first_block + bgs[g].limit <= aux.len_blocks
    <3>1. g \in 0 .. n /\ bgs[g] = BgOf(g)
      BY <2>1 DEF Prefix
    <3>2. PICK h : h = Header(g)
      OBVIOUS
    <3>3. PICK at \in Nat : at = g * y
      BY <2>2, <3>1
    <3>4. h \in Nat /\ h <= y
      BY <2>3, <3>1, <3>2
    <3>5. /\ bgs[g].first_block = F + at /\ bgs[g].header = h
          /\ bgs[g].limit = LimitOf(h, F + at + y - aux.len_blocks)
      BY <3>1, <3>2, <3>3 DEF BgOf, FirstBlock
    <3>6. CASE g = n
      <4>1. aux.len_blocks = at + m
        BY <2>5, <3>3, <3>6
      <4> HIDE DEF F, y, n
      <4>2. F + at + y - aux.len_blocks = F + y - m
        BY <2>2, <2>6, <3>3, <4>1
      <4>3. CASE m = y
        <5>1. F = 1 => h < y
          BY <2>7, <3>2, <3>4, <3>6, <2>2
        <5>2. LimitOf(h, F) = IF F = 1 THEN y - 1 ELSE y
          BY <2>2, <3>4, <5>1 DEF LimitOf, y
        <5>3. bgs[g].limit = y - F
          BY <2>2, <3>5, <4>2, <4>3, <5>2
        <5> QED BY <2>2, <3>3, <3>4, <3>5, <4>1, <4>3, <5>1, <5>3
      <4>4. CASE m < y /\ m >= h /\ (F = 1 => m # h)
        BY <2>2, <2>6, <3>3, <3>4, <3>5, <4>1, <4>2, <4>4 DEF LimitOf, y
      <4> QED BY <2>2, <2>5, <2>6, <2>7, <3>2, <3>6, <4>3, <4>4
    <3>7. CASE g # n
      <4>1. at + y <= n * y
        BY <2>2, <2>3, <3>1, <3>3, <3>7, Apart
      <4>2. F + at + y - aux.len_blocks <= 0
        BY <2>2, <2>5, <2>6, <3>3, <4>1
      <4>3. bgs[g].limit = y
        BY <2>2, <2>5, <2>6, <3>3, <3>5, <4>2 DEF LimitOf
      <4> QED BY <2>2, <2>5, <2>6, <3>3, <3>4, <3>5, <4>1, <4>3
    <3> QED BY <3>6, <3>7
  <2>9. FirstBlock(aux.groups) >= aux.len_blocks
    <3>1. aux.groups * y = n * y + y
      BY <2>1, <2>2
    <3> QED BY <2>2, <2>5, <2>6, <3>1 DEF FirstBlock
  <2> QED BY <2>8, <2>9
<1> QED BY <1>1, GeometryInvariance, PTL

\* The shifts of 1 double, as the function that defines them does.
Doubled(k, f) == f \in [0 .. k -> Nat \ {0}] /\ f[0] = 1 /\ \A n \in 1 .. k : f[n] = 2 * f[n - 1]

LEMMA DoubledExists ==
  ASSUME NEW k \in Nat
  PROVE  \E f : Doubled(k, f) /\ \A j \in 0 .. k : Shifted(j) = f[j]
<1> DEFINE next == [nx \in (1 .. k) \X (Nat \ {0}) |-> 2 * nx[2]]
<1>1. ASSUME NEW n \in 1 .. k, NEW x \in Nat \ {0}
      PROVE  next[<<n, x>>] = 2 * x /\ 2 * x \in Nat \ {0}
  OBVIOUS
<1>2. Steps(k, Nat \ {0}, next) /\ 1 \in Nat \ {0}
  BY <1>1 DEF Steps
<1> HIDE DEF next
<1>3. PICK f : Recursion(k, Nat \ {0}, 1, next, f)
  BY <1>2, RecursionExists
<1>4. Doubled(k, f)
  <2>1. ASSUME NEW n \in 1 .. k PROVE f[n] = 2 * f[n - 1]
    <3>1. f[n - 1] \in Nat \ {0} /\ f[n] = next[<<n, f[n - 1]>>]
      BY <1>3 DEF Recursion
    <3> QED BY <1>1, <3>1
  <2> QED BY <1>3, <2>1 DEF Recursion, Doubled
<1>5. ASSUME NEW j \in 0 .. k PROVE Shifted(j) = f[j]
  <2> DEFINE Eq(u) == u = [n \in 0 .. j |-> IF n = 0 THEN 1 ELSE 2 * u[n - 1]]
             shl == CHOOSE u : Eq(u)
  <2>1. Shifted(j) = shl[j]
    BY DEF Shifted
  <2>2. \E u : Eq(u)
    <3>1. PICK u : u = [n \in 0 .. j |-> f[n]]
      OBVIOUS
    <3>2. u \in [0 .. j -> Nat \ {0}] /\ \A n \in 0 .. j : u[n] = IF n = 0 THEN 1 ELSE 2 * u[n - 1]
      BY <1>4, <3>1 DEF Doubled
    <3>3. u = [n \in 0 .. j |-> IF n = 0 THEN 1 ELSE 2 * u[n - 1]]
      BY <3>1, <3>2
    <3> QED BY <3>3
  <2>3. Eq(shl)
    <3> HIDE DEF Eq
    <3> QED BY <2>2
  <2>4. \A n \in 0 .. j : shl[n] = IF n = 0 THEN 1 ELSE 2 * shl[n - 1]
    BY <2>3
  <2> HIDE DEF shl
  <2> DEFINE T == {n \in 0 .. j : shl[n] = f[n]}
  <2>5. 0 \in T
    BY <1>4, <2>4 DEF Doubled
  <2>6. ASSUME NEW n \in 0 .. j - 1, n \in T PROVE n + 1 \in T
    <3>1. n + 1 \in 1 .. k /\ (n + 1) - 1 = n /\ n + 1 \in 0 .. j /\ n + 1 # 0
      OBVIOUS
    <3>2. f[n + 1] = 2 * f[n] /\ shl[n + 1] = 2 * shl[n]
      BY <1>4, <2>4, <3>1 DEF Doubled
    <3> QED BY <2>6, <3>1, <3>2
  <2>7. 0 .. j \subseteq T
    <3> HIDE DEF T
    <3> QED BY <2>5, <2>6, NatSetInduction
  <2> QED BY <2>1, <2>7
<1> QED BY <1>4, <1>5

\* What doubles is above its index, and at least doubles up to a later one.
LEMMA DoubledGrows ==
  ASSUME NEW m \in Nat, NEW f, Doubled(m, f)
  PROVE  \A j \in 0 .. m : f[j] > j /\ \A i \in 0 .. j - 1 : 2 * f[i] <= f[j]
<1> DEFINE Grown(j) == f[j] > j /\ \A i \in 0 .. j - 1 : 2 * f[i] <= f[j]
           T == {j \in 0 .. m : Grown(j)}
<1>1. 0 \in T
  BY DEF Doubled
<1>2. ASSUME NEW j \in 0 .. m - 1, j \in T PROVE j + 1 \in T
  <2>1. j + 1 \in 1 .. m /\ (j + 1) - 1 = j /\ j \in 0 .. m
    OBVIOUS
  <2>2. f[j + 1] = 2 * f[j] /\ f[j] \in Nat /\ f[j] > j
    BY <1>2, <2>1 DEF Doubled
  <2>3. ASSUME NEW i \in 0 .. j PROVE 2 * f[i] <= f[j + 1]
    <3>1. f[i] \in Nat
      BY <2>3 DEF Doubled
    <3>2. i = j \/ 2 * f[i] <= f[j]
      BY <1>2
    <3> QED BY <2>2, <3>1, <3>2
  <2> QED BY <2>1, <2>2, <2>3
<1>3. 0 .. m \subseteq T
  <2> HIDE DEF T
  <2> QED BY <1>1, <1>2, NatSetInduction
<1> QED BY <1>3

\* log_2 finds the number of shifts.
LEMMA LogOfShifted ==
  ASSUME NEW k \in Nat
  PROVE  Shifted(k) \in Nat \ {0} /\ Log2(Shifted(k)) = k
<1>1. Shifted(k) \in Nat \ {0} /\ Shifted(k) > k
  <2>1. PICK f : Doubled(k, f) /\ \A j \in 0 .. k : Shifted(j) = f[j]
    BY DoubledExists
  <2>2. f[k] \in Nat \ {0} /\ Shifted(k) = f[k]
    BY <2>1 DEF Doubled
  <2> QED BY <2>1, <2>2, DoubledGrows
<1>2. PICK s \in Nat \ {0} : s = Shifted(k) /\ k \in 0 .. s
  BY <1>1
<1>3. PICK f : Doubled(s, f) /\ \A j \in 0 .. s : Shifted(j) = f[j]
  BY <1>2, DoubledExists
<1>4. \A j \in 0 .. s : f[j] \in Nat \ {0} /\ \A i \in 0 .. j - 1 : 2 * f[i] <= f[j]
  BY <1>3, DoubledGrows DEF Doubled
<1> DEFINE Is(j) == Shifted(j) <= s /\ s < 2 * Shifted(j)
<1>5. Is(k)
  BY <1>2
<1>6. ASSUME NEW j \in 0 .. s, Is(j) PROVE j = k
  <2>1. Shifted(j) = f[j] /\ s = f[k]
    BY <1>2, <1>3
  <2>2. ~(j < k)
    BY <1>2, <1>4, <1>6, <2>1
  <2>3. ~(k < j)
    <3>1. SUFFICES ASSUME k < j PROVE FALSE
      OBVIOUS
    <3>2. k \in 0 .. j - 1 /\ 2 * f[k] <= f[j]
      BY <1>2, <1>4, <3>1
    <3> QED BY <1>2, <1>4, <1>6, <2>1, <3>2
  <2> QED BY <1>2, <2>2, <2>3
<1>7. Log2(s) = CHOOSE j \in 0 .. s : Is(j)
  BY DEF Log2
<1> HIDE DEF Is
<1> QED BY <1>2, <1>5, <1>6, <1>7

\* Whoever reads the superblock arrives at the geometry the image was made
\* with: for all options the fields of the superblock can hold.
THEOREM ReaderArrivesAtGeometry == LayoutSpec => []ReaderAgrees
<1> DEFINE Matches == reader.first_data_block = aux.first_data_block
           Read == /\ stage \in {"done", "refused"} => reader = AuxOf(ParsedInfo)
                   /\ stage = "refused" => ~Matches
<1>1. LayoutInit => Read
  BY DEF LayoutInit
<1>2. ASSUME Read, [LayoutNext]_layoutVars PROVE Read'
  <2>1. CASE ParseSb
    <3>1. ParsedInfo' = ParsedInfo
      BY <2>1 DEF ParseSb, ParsedInfo
    <3>2. /\ reader' = AuxOf(ParsedInfo) /\ aux' = aux
          /\ stage' = "refused" => reader'.first_data_block # aux.first_data_block
      BY <2>1 DEF ParseSb
    <3> QED BY <3>1, <3>2
  <2>2. CASE UNCHANGED layoutVars
    <3>1. ParsedInfo' = ParsedInfo
      BY <2>2 DEF layoutVars, ParsedInfo
    <3>2. reader' = reader /\ stage' = stage /\ aux' = aux
      BY <2>2 DEF layoutVars
    <3> QED BY <1>2, <3>1, <3>2
  <2>3. CASE ComputeParameters \/ InitAux \/ InitBg \/ FillInSb \/ CreateResize \/ QueueSb
    <3>1. stage' \in {"crashed", "failed", "parameters", "groups", "resize", "queue", "written"}
      BY <2>3, ZenonT(60) DEF ComputeParameters, InitAux, InitBg, FillInSb, CreateResize, QueueSb
    <3> QED BY <3>1
  <2> QED BY <1>2, <2>1, <2>2, <2>3 DEF LayoutNext, LayoutEnded
<1>3. ASSUME GeometryInv, Read PROVE ReaderAgrees
  <2> DEFINE f == ParsedInfo
             y == info.blocks_per_group
             n == aux.groups - 1
  <2> SUFFICES ASSUME stage \in {"done", "refused"}, Storable, ~DropsFullGroup,
                      aux.bg_desc_blocks = DescBlocks(aux.groups, info.block_size)
               PROVE  AuxOf(f) = aux
    BY <1>3 DEF ReaderAgrees
  <2>1. /\ info \in Parameters /\ aux = AuxOf(info) /\ aux.groups \in Nat \ {0} /\ Prefix(aux.groups)
    BY <1>3 DEF GeometryInv, GroupsReady, Computed, Placed
  <2>2. y \in Nat /\ 1 < y
    BY <2>1, HeaderIs, SMTT(60) DEF Parameters, ParametersOf, Prefix
  <2>3. PICK m \in 1 .. y : aux.len_blocks = n * y + m /\ m > 1
    <3>1. Header(n) \in Nat /\ Header(n) >= 2
      BY <2>1, HeaderIs
    <3>2. PICK m \in 1 .. y : aux.len_blocks = n * y + m /\ (m = y \/ m >= Header(n))
      BY <2>1, <2>2, LastGroup
    <3> QED BY <2>2, <3>1, <3>2
  <2>4. /\ f \in Parameters /\ f.len = aux.len_blocks /\ f.block_size = info.block_size
        /\ f.blocks_per_group = y /\ f.inodes_per_group = info.inodes_per_group
        /\ f.inode_size = info.inode_size /\ f.bg_desc_reserve_blocks = info.bg_desc_reserve_blocks
    <3>1. n * y + m \in Nat \ {0} /\ info.inodes_per_group * aux.groups \in Nat
      BY <2>1, <2>2 DEF Parameters, ParametersOf
    <3>2. U16(info.inode_size) = info.inode_size
          /\ U16(info.bg_desc_reserve_blocks) = info.bg_desc_reserve_blocks
      BY <2>1 DEF Storable, U16, Parameters, ParametersOf
    <3>3. ReadBack(info.block_size) = info.block_size
      <4>1. PICK k \in Nat : info.block_size = 1024 * Shifted(k)
        BY DEF Storable
      <4>2. PICK s \in Nat : s = Shifted(k) /\ Log2(s) = k
        BY LogOfShifted
      <4>3. info.block_size \div 1024 = s /\ info.block_size = 1024 * s
        BY <4>1, <4>2
      <4>4. PICK d : d = info.block_size \div 1024
        OBVIOUS
      <4>5. Log2(d) = k
        BY <4>2, <4>3, <4>4
      <4>6. 1024 * Shifted(Log2(d)) = info.block_size
        BY <4>2, <4>3, <4>5
      <4> QED BY <4>4, <4>6 DEF ReadBack
    <3> QED BY <2>1, <2>3, <3>1, <3>2, <3>3 DEF ParsedInfo, Parameters, ParametersOf
  <2>5. aux.first_data_block = (IF info.block_size > 1024 THEN 0 ELSE 1)
    BY <2>1, AuxIs
  <2>6. PICK c \in Parameters :
           /\ c = f /\ c.len = aux.len_blocks /\ c.block_size = info.block_size
           /\ c.blocks_per_group = y /\ c.inodes_per_group = info.inodes_per_group
           /\ c.inode_size = info.inode_size
           /\ c.bg_desc_reserve_blocks = info.bg_desc_reserve_blocks
    BY <2>4
  <2> HIDE DEF f
  <2>12. PICK b : b = AuxOf(c)
    OBVIOUS
  <2>7. b.first_data_block = aux.first_data_block /\ b.inode_table_blocks = aux.inode_table_blocks
    BY <2>1, <2>5, <2>6, <2>12, AuxIs
  <2>13. PICK k : k = CeilDiv(c.len - b.first_data_block, c.blocks_per_group)
    OBVIOUS
  <2>14. PICK rest : rest = c.len % c.blocks_per_group
    OBVIOUS
  <2>15. /\ b.bg_desc_blocks = DescBlocks(k, c.block_size)
         /\ \/ /\ b.len_blocks = c.len /\ b.groups = k
               /\ ~Drops(rest, HeaderSize(c, b, HasSuper(k - 1)))
            \/ Drops(rest, HeaderSize(c, b, HasSuper(k - 1)))
    BY <2>12, <2>13, <2>14, AuxIs
  <2>8. ASSUME aux.len_blocks = info.len
        PROVE  b.len_blocks = aux.len_blocks /\ b.groups = aux.groups /\ b.bg_desc_blocks = aux.bg_desc_blocks
    <3> DEFINE N == CeilDiv(info.len - aux.first_data_block, y)
               last == info.len % y
    <3>1. k = N /\ rest = last
      BY <2>6, <2>7, <2>8, <2>13, <2>14
    <3>2. info.len \in Nat /\ last \in Nat
      BY <2>1, <2>2 DEF Parameters, ParametersOf
    <3> HIDE DEF N, last
    <3>3. aux.bg_desc_blocks = DescBlocks(N, info.block_size)
      BY <2>1, AuxIs DEF N
    <3>4. aux.groups = N /\ ~Drops(last, HeaderSize(info, aux, HasSuper(N - 1)))
      <4>1. \/ aux.groups = N /\ ~Drops(last, HeaderSize(info, aux, HasSuper(N - 1)))
            \/ aux.len_blocks = info.len - last /\ Drops(last, HeaderSize(info, aux, HasSuper(N - 1)))
        BY <2>1, AuxIs DEF N, last
      <4> QED BY <2>8, <3>2, <4>1 DEF Drops
    <3>5. b.bg_desc_blocks = aux.bg_desc_blocks
      BY <2>6, <2>15, <3>1, <3>3
    <3>6. HeaderSize(c, b, HasSuper(N - 1)) = HeaderSize(info, aux, HasSuper(N - 1))
      BY <2>6, <2>7, <3>5 DEF HeaderSize
    <3>7. b.len_blocks = aux.len_blocks /\ b.groups = aux.groups
      BY <2>6, <2>8, <2>15, <3>1, <3>4, <3>6
    <3> QED BY <3>5, <3>7
  <2>9. ASSUME aux.len_blocks # info.len
        PROVE  b.len_blocks = aux.len_blocks /\ b.groups = aux.groups /\ b.bg_desc_blocks = aux.bg_desc_blocks
    <3>1. aux.len_blocks = info.len - (info.len % y) /\ info.len \in Nat /\ y \in Nat \ {0}
      BY <2>1, <2>9, AuxIs DEF Parameters, ParametersOf
    <3>2. c.len % y = 0
      <4>1. PICK q \in Nat : info.len = q * y + (info.len % y) /\ q * y \in Nat
        BY <3>1, DivMod
      <4>2. 0 \in 0 .. y - 1 /\ q * y + 0 = q * y
        <5>1. PICK z \in Nat \ {0} : z = y
          BY <3>1
        <5> HIDE DEF y
        <5> QED BY <5>1
      <4>3. (q * y) % y = 0
        BY <3>1, <4>2, Division
      <4>4. info.len % y \in Nat
        BY <3>1
      <4>5. aux.len_blocks = q * y
        BY <3>1, <4>1, <4>4
      <4> QED BY <2>6, <4>3, <4>5
    <3>3. CeilDiv(c.len - aux.first_data_block, y) = aux.groups
      <4>1. PICK p \in Nat : p = n * y
        BY <2>1, <2>2
      <4>2. aux.groups * y = p + y /\ aux.first_data_block \in {0, 1}
        BY <2>1, <2>2, <2>5, <4>1
      <4>3. c.len = p + m
        BY <2>3, <2>6, <4>1
      <4>4. PICK x : x = c.len - aux.first_data_block
        OBVIOUS
      <4>5. PICK G \in Nat : G = aux.groups
        BY <2>1
      <4>6. PICK z \in Nat : z = y /\ 1 < z
        BY <2>2
      <4>9. m \in 1 .. z /\ m > 1
        BY <2>3, <4>6
      <4> HIDE DEF y, n
      <4>7. x \in Nat /\ G * z >= x /\ G * z < x + z
        <5>1. G * z = p + z
          BY <4>2, <4>5, <4>6
        <5>2. x \in {p + m, p + m - 1} /\ m \in Nat /\ 1 < m /\ m <= z
          BY <4>2, <4>3, <4>4, <4>6, <4>9
        <5>3. PICK w : w = G * z
          OBVIOUS
        <5>4. x \in Nat /\ w >= x /\ w < x + z
          BY <4>6, <5>1, <5>2, <5>3
        <5> QED BY <5>3, <5>4
      <4>8. CeilDiv(x, z) = G
        BY <4>6, <4>7, CeilDivIs
      <4> QED BY <4>4, <4>5, <4>6, <4>8
    <3>4. b.groups = aux.groups /\ b.len_blocks = aux.len_blocks
      <4>1. k = aux.groups
        BY <2>6, <2>7, <2>13, <3>3
      <4>2. rest = 0
        BY <2>6, <2>14, <3>2
      <4>3. ~Drops(rest, HeaderSize(c, b, HasSuper(k - 1)))
        BY <4>2 DEF Drops
      <4> QED BY <2>6, <2>15, <4>1, <4>3
    <3>5. b.bg_desc_blocks = aux.bg_desc_blocks
      BY <2>6, <2>7, <2>13, <2>15, <3>3
    <3> QED BY <3>4, <3>5
  <2>10. b.len_blocks = aux.len_blocks /\ b.groups = aux.groups /\ b.bg_desc_blocks = aux.bg_desc_blocks
    BY <2>8, <2>9
  <2>11. /\ aux = [first_data_block |-> aux.first_data_block, len_blocks |-> aux.len_blocks,
                   groups |-> aux.groups, inode_table_blocks |-> aux.inode_table_blocks,
                   bg_desc_blocks |-> aux.bg_desc_blocks]
         /\ b = [first_data_block |-> b.first_data_block, len_blocks |-> b.len_blocks,
                 groups |-> b.groups, inode_table_blocks |-> b.inode_table_blocks,
                 bg_desc_blocks |-> b.bg_desc_blocks]
    BY <2>1, <2>6, <2>12, AuxIs
  <2> QED BY <2>6, <2>7, <2>10, <2>11, <2>12
<1> QED BY <1>1, <1>2, <1>3, GeometryInvariance, PTL DEF LayoutSpec

-----------------------------------------------------------------------------
(* The parts of the headers.                                               *)

\* Where a part begins, counted from the first block of its group.
Behind(g) == IF HasSuper(g) THEN SuperSize ELSE 0
PartOf(what, g) ==
  CASE what \in {"superblock", "backup"} -> [at |-> 0, len |-> 1]
    [] what = "descriptors" -> [at |-> 1, len |-> aux.bg_desc_blocks]
    [] what = "reserved"    -> [at |-> 1 + aux.bg_desc_blocks, len |-> info.bg_desc_reserve_blocks]
    [] what = "bitmaps"     -> [at |-> Behind(g), len |-> 2]
    [] what = "inode_table" -> [at |-> Behind(g) + 2, len |-> aux.inode_table_blocks]
Part(what, g) == Piece(what, g, FirstBlock(g) + PartOf(what, g).at, PartOf(what, g).len)

Bitmaps == {Part("bitmaps", g) : g \in DOMAIN bgs}
SuperParts ==
  {Part("superblock", 0), Part("reserved", 0)}
    \cup {Part("descriptors", g) : g \in {g \in DOMAIN bgs : HasSuper(g)}}
    \cup {Part("backup", g) : g \in {g \in DOMAIN bgs : HasSuper(g) /\ g # 0}}
Descriptors ==
  [g \in DOMAIN bgs |-> [bg_block_bitmap |-> FirstBlock(g) + Behind(g),
                         bg_inode_bitmap |-> FirstBlock(g) + Behind(g) + 1,
                         bg_inode_table  |-> FirstBlock(g) + Behind(g) + 2]]

\* Only parts of the headers are queued; bitmaps as their groups are set up,
\* all that goes with a superblock later.
PiecesInv ==
  /\ stage \in {"options", "parameters"} => pieces = {}
  /\ stage = "groups" => pieces = Bitmaps
  /\ GroupsReady => /\ Bitmaps \subseteq pieces /\ pieces \subseteq Bitmaps \cup SuperParts
                    /\ bg_desc = Descriptors

\* How many superblocks are in front of a group tells the groups apart.
Rank(S, g) == Cardinality({h \in S : h < g})
LEMMA Ranks ==
  ASSUME NEW n \in Nat, NEW S \in SUBSET (0 .. n), NEW g \in S
  PROVE  /\ Rank(S, g) \in Nat /\ Rank(S, g) < Cardinality(S)
         /\ g > 0 /\ 0 \in S => Rank(S, g) > 0
         /\ \A h \in S : Rank(S, h) = Rank(S, g) => h = g
<1>1. IsFiniteSet(S) /\ \A h \in S : h \in Nat
  <2>1. IsFiniteSet(0 .. n)
    BY FS_Interval
  <2>2. IsFiniteSet(S)
    BY <2>1, FS_Subset
  <2>3. \A h \in S : h \in Nat
    OBVIOUS
  <2> QED BY <2>2, <2>3
<1> DEFINE B(h) == {k \in S : k < h}
<1>2. \A h \in S : IsFiniteSet(B(h)) /\ Cardinality(B(h)) \in Nat
  BY <1>1, FS_Subset, FS_CardinalityType
<1>3. ASSUME NEW h \in S, NEW k \in S, h < k
      PROVE  Cardinality(B(h)) < Cardinality(B(k))
  <2>1. B(h) \subseteq B(k) /\ h \in B(k) /\ h \notin B(h)
    <3>1. h \in Nat /\ k \in Nat /\ ~(h < h)
      BY <1>1
    <3>2. \A i \in S : i < h => i < k
      BY <1>1, <1>3, <3>1
    <3> QED BY <1>3, <3>1, <3>2
  <2>2. B(h) # B(k)
    BY <2>1
  <2> HIDE DEF B
  <2> QED BY <1>2, <2>1, <2>2, FS_Subset
<1>4. Cardinality(B(g)) < Cardinality(S)
  <2>1. B(g) \subseteq S /\ g \notin B(g)
    BY <1>1
  <2>2. B(g) # S
    BY <2>1
  <2>3. Cardinality(S) \in Nat
    BY <1>1, FS_CardinalityType
  <2> HIDE DEF B
  <2> QED BY <1>1, <1>2, <2>1, <2>2, <2>3, FS_Subset
<1>5. g > 0 /\ 0 \in S => Cardinality(B(g)) > 0
  <2>1. SUFFICES ASSUME g > 0, 0 \in S PROVE Cardinality(B(g)) # 0
    BY <1>2
  <2>2. 0 \in B(g)
    BY <1>1, <2>1
  <2> HIDE DEF B
  <2> QED BY <1>2, <2>2, FS_EmptySet
<1>6. ASSUME NEW h \in S, Cardinality(B(h)) = Cardinality(B(g)) PROVE h = g
  <2>1. h \in Nat /\ g \in Nat
    BY <1>1
  <2>2. ~(h < g) /\ ~(g < h)
    BY <1>2, <1>3, <1>6
  <2> QED BY <2>1, <2>2
<1> QED BY <1>2, <1>4, <1>5, <1>6 DEF Rank

\* The superblocks in their order.
LEMMA NthSuperIs ==
  ASSUME aux.groups \in Nat \ {0}
  PROVE  /\ \A g \in SuperGroups :
              /\ NthSuper(Rank(SuperGroups, g)) = g
              /\ Rank(SuperGroups, g) \in 0 .. Cardinality(SuperGroups) - 1
              /\ g # 0 => Rank(SuperGroups, g) > 0
         /\ 0 \in SuperGroups /\ NthSuper(0) = 0 /\ Cardinality(SuperGroups) \in Nat
<1> DEFINE S == SuperGroups
<1>1. S \in SUBSET (0 .. aux.groups - 1) /\ aux.groups - 1 \in Nat /\ 0 \in S
  BY DEF SuperGroups, HasSuper
<1>2. IsFiniteSet(S) /\ Cardinality(S) \in Nat
  <2>1. PICK n \in Nat : n = aux.groups - 1
    BY <1>1
  <2>2. S \in SUBSET (0 .. n)
    BY <1>1, <2>1
  <2>3. IsFiniteSet(0 .. n)
    BY FS_Interval
  <2> HIDE DEF S
  <2> QED BY <2>2, <2>3, FS_Subset, FS_CardinalityType
<1>3. \A n : NthSuper(n) = CHOOSE g \in S : Rank(S, g) = n
  BY DEF NthSuper, Rank
<1> HIDE DEF S
<1>4. ASSUME NEW g \in S
      PROVE  /\ NthSuper(Rank(S, g)) = g /\ Rank(S, g) \in 0 .. Cardinality(S) - 1
             /\ g # 0 => Rank(S, g) > 0
  <2>1. /\ Rank(S, g) \in Nat /\ Rank(S, g) < Cardinality(S) /\ (g > 0 => Rank(S, g) > 0)
        /\ \A h \in S : Rank(S, h) = Rank(S, g) => h = g
    BY <1>1, Ranks
  <2>2. g \in Nat
    BY <1>1
  <2>3. PICK n : n = Rank(S, g)
    OBVIOUS
  <2>4. NthSuper(n) = g
    <3>1. g \in S /\ Rank(S, g) = n /\ \A h \in S : Rank(S, h) = n => h = g
      BY <2>1, <2>3
    <3>2. NthSuper(n) = CHOOSE h \in S : Rank(S, h) = n
      BY <1>3
    <3> QED BY <3>1, <3>2
  <2> QED BY <1>2, <2>1, <2>2, <2>3, <2>4
<1>5. Rank(S, 0) = 0
  <2>1. \A h \in S : ~(h < 0)
    BY <1>1
  <2>2. {h \in S : h < 0} = {}
    BY <2>1
  <2> QED BY <2>2, FS_EmptySet DEF Rank
<1> QED BY <1>1, <1>2, <1>4, <1>5 DEF S

\* The first reserved block is that behind the descriptors of group 0, and the
\* others follow it.
LEMMA GetBlockIs ==
  ASSUME aux.groups \in Nat \ {0}, info.bg_desc_reserve_blocks \in Nat \ {0},
         NEW r \in 0 .. info.bg_desc_reserve_blocks - 1
  PROVE  /\ GetBlock(r) = ReservedAt(0) + r
         /\ \A j \in Nat : GetBlock(j * info.bg_desc_reserve_blocks + r) = ReservedAt(NthSuper(j)) + r
<1> DEFINE R == info.bg_desc_reserve_blocks
<1>1. ASSUME NEW j \in Nat PROVE GetBlock(j * R + r) = ReservedAt(NthSuper(j)) + r
  <2>1. (j * R + r) \div R = j /\ (j * R + r) % R = r
    <3>1. j \in Int /\ R \in Nat \ {0}
      OBVIOUS
    <3> HIDE DEF R
    <3> QED BY <3>1, Division DEF R
  <2> QED BY <2>1 DEF GetBlock
<1>2. 0 * R + r = r
  OBVIOUS
<1>3. GetBlock(r) = ReservedAt(NthSuper(0)) + r
  BY <1>1, <1>2
<1> QED BY <1>1, <1>3, NthSuperIs

LEMMA PiecesInvariance == LayoutSpec => []PiecesInv
<1>1. LayoutInit => PiecesInv
  BY DEF LayoutInit, PiecesInv, GroupsReady
<1>2. ASSUME GeometryInv, PiecesInv, [LayoutNext]_layoutVars PROVE PiecesInv'
  <2>1. CASE ComputeParameters
    BY <1>2, <2>1 DEF ComputeParameters, PiecesInv, GroupsReady
  <2>2. CASE InitAux
    <3>1. pieces = {} /\ pieces' = {} /\ stage' \in {"failed", "crashed", "groups"}
          /\ bgs' = bgs /\ bgs = [g \in {} |-> 0]
      BY <1>2, <2>2 DEF InitAux, PiecesInv, GeometryInv
    <3>2. DOMAIN bgs' = {}
      BY <3>1
    <3>3. Bitmaps' = {}
      BY <3>2 DEF Bitmaps
    <3> QED BY <3>1, <3>3 DEF PiecesInv, GroupsReady
  <2>3. CASE InitBg
    <3>1. stage = "groups" /\ UNCHANGED <<info, aux, bg_desc>> /\ pieces = Bitmaps
          /\ stage' \in {"groups", "failed"}
      BY <1>2, <2>3 DEF InitBg, PiecesInv
    <3>2. \A g : Part("bitmaps", g)' = Part("bitmaps", g)
      BY <3>1 DEF Part, PartOf, Behind, FirstBlock, SuperSize, Piece
    <3>3. ASSUME stage' = "groups"
          PROVE  \E g : DOMAIN bgs' = DOMAIN bgs \cup {g} /\ pieces' = pieces \cup {Part("bitmaps", g)}
      <4>1. PICK g : /\ DOMAIN bgs' = DOMAIN bgs \cup {g}
                     /\ pieces' = pieces \cup {Piece("bitmaps", g, BitmapsAt(g), 2)}
        BY <2>3, <3>1, <3>3 DEF InitBg
      <4>2. Part("bitmaps", g) = Piece("bitmaps", g, BitmapsAt(g), 2)
        BY DEF Part, PartOf, Behind, BitmapsAt
      <4> QED BY <4>1, <4>2
    <3>4. stage' = "groups" => pieces' = Bitmaps'
      BY <3>1, <3>2, <3>3 DEF Bitmaps
    <3> QED BY <3>1, <3>4 DEF PiecesInv, GroupsReady
  <2>4. CASE FillInSb
    <3>1. stage = "groups" /\ UNCHANGED <<info, aux, bgs>> /\ pieces = Bitmaps
          /\ stage' \in {"resize", "crashed"}
      BY <1>2, <2>4 DEF FillInSb, PiecesInv
    <3>2. /\ \A what, g : Part(what, g)' = Part(what, g)
          /\ \A g : Behind(g)' = Behind(g) /\ FirstBlock(g)' = FirstBlock(g)
      BY <3>1 DEF Part, PartOf, Behind, FirstBlock, SuperSize, Piece
    <3>3. Bitmaps' = Bitmaps /\ SuperParts' = SuperParts
      BY <3>1, <3>2 DEF Bitmaps, SuperParts
    <3>4. pieces' = pieces \cup UNION {Backups(g) : g \in {g \in DOMAIN bgs : HasSuper(g)}}
      BY <2>4 DEF FillInSb
    <3>5. ASSUME NEW g \in DOMAIN bgs, HasSuper(g) PROVE Backups(g) \subseteq SuperParts
      <4>1. Part("descriptors", g) = Piece("descriptors", g, FirstBlock(g) + 1, aux.bg_desc_blocks)
        BY DEF Part, PartOf
      <4>2. Part("backup", g) = Piece("backup", g, FirstBlock(g) + 0, 1)
        BY DEF Part, PartOf
      <4>3. FirstBlock(g) + 0 = FirstBlock(g)
        <5>1. DOMAIN bgs \subseteq Nat /\ aux.first_data_block \in Nat /\ info.blocks_per_group \in Nat
          <6>1. info \in Parameters /\ aux = AuxOf(info) /\ \E n \in 0 .. aux.groups : Prefix(n)
            <7>1. /\ aux = AuxOf(info) /\ aux.groups \in Nat /\ \E n \in 0 .. aux.groups : Prefix(n)
                  /\ aux.groups > 0 => info \in Parameters
              BY <1>2, <3>1 DEF GeometryInv, Placed
            <7>2. aux.groups > 0
              BY <3>5, <7>1 DEF Prefix
            <7> QED BY <7>1, <7>2
          <6>2. aux.first_data_block \in Nat
            BY <6>1, AuxIs
          <6> QED BY <6>1, <6>2 DEF Parameters, ParametersOf, Prefix
        <5>2. g * info.blocks_per_group \in Nat
          BY <5>1
        <5> QED BY <5>1, <5>2 DEF FirstBlock
      <4> QED BY <3>5, <4>1, <4>2, <4>3 DEF Backups, SuperParts
    <3>6. /\ Bitmaps' \subseteq pieces' /\ pieces' \subseteq Bitmaps' \cup SuperParts'
      BY <3>1, <3>3, <3>4, <3>5
    <3>7. bg_desc' = Descriptors'
      BY <2>4, <3>1, <3>2 DEF FillInSb, Descriptors, Behind
    <3> QED BY <3>1, <3>6, <3>7 DEF PiecesInv, GroupsReady
  <2>5. CASE CreateResize \/ QueueSb \/ ParseSb \/ UNCHANGED layoutVars
    <3>1. /\ UNCHANGED <<info, aux, bgs, bg_desc>>
          /\ (stage' = stage /\ pieces' = pieces) \/ GroupsReady
      BY <2>5 DEF CreateResize, QueueSb, ParseSb, layoutVars, GroupsReady
    <3>2. /\ \A what, g : Part(what, g)' = Part(what, g)
          /\ \A g : Behind(g)' = Behind(g) /\ FirstBlock(g)' = FirstBlock(g)
      BY <3>1 DEF Part, PartOf, Behind, FirstBlock, SuperSize, Piece
    <3>3. Bitmaps' = Bitmaps /\ SuperParts' = SuperParts /\ Descriptors' = Descriptors
      BY <3>1, <3>2 DEF Bitmaps, SuperParts, Descriptors
    <3>4. CASE stage' = stage /\ pieces' = pieces
      BY <1>2, <3>1, <3>3, <3>4 DEF PiecesInv, GroupsReady
    <3>5. CASE GroupsReady
      <4>1. pieces' \subseteq pieces \cup SuperParts /\ pieces \subseteq pieces'
        <5>1. aux.groups \in Nat \ {0} /\ info \in Parameters /\ aux = AuxOf(info)
          BY <1>2, <3>5 DEF GeometryInv, GroupsReady, Computed, Placed
        <5>2. CASE CreateResize
          <6>1. CASE pieces' = pieces
            BY <6>1
          <6>2. CASE info.bg_desc_reserve_blocks # 0
            <7>1. /\ info.bg_desc_reserve_blocks \in Nat \ {0}
                  /\ pieces' = pieces \cup {Piece("reserved", 0, GetBlock(0), info.bg_desc_reserve_blocks)}
              BY <5>1, <5>2, <6>2 DEF CreateResize, Parameters, ParametersOf
            <7>2. 0 \in 0 .. info.bg_desc_reserve_blocks - 1
              BY <7>1
            <7>3. GetBlock(0) = ReservedAt(0) + 0
              BY <5>1, <7>1, <7>2, GetBlockIs
            <7>4. aux.bg_desc_blocks \in Nat /\ FirstBlock(0) \in Nat
              BY <5>1, AuxIs DEF FirstBlock, Parameters, ParametersOf
            <7>5. GetBlock(0) = FirstBlock(0) + (1 + aux.bg_desc_blocks)
              BY <7>3, <7>4 DEF ReservedAt
            <7>6. Part("reserved", 0) = Piece("reserved", 0, GetBlock(0), info.bg_desc_reserve_blocks)
              BY <7>5 DEF Part, PartOf
            <7> QED BY <7>1, <7>6 DEF SuperParts
          <6> QED BY <5>2, <6>1, <6>2 DEF CreateResize
        <5>3. CASE QueueSb
          <6>1. FirstBlock(0) + 0 = IF info.block_size > 1024 THEN 0 ELSE 1
            BY <5>1, AuxIs DEF FirstBlock, Parameters, ParametersOf
          <6>2. Part("superblock", 0) = Piece("superblock", 0, IF info.block_size > 1024 THEN 0 ELSE 1, 1)
            BY <6>1 DEF Part, PartOf
          <6> QED BY <5>3, <6>2 DEF QueueSb, SuperParts
        <5> QED BY <2>5, <5>2, <5>3 DEF ParseSb, layoutVars
      <4>2. stage' \notin {"options", "parameters", "groups"}
        BY <2>5, <3>5 DEF CreateResize, QueueSb, ParseSb, layoutVars, GroupsReady
      <4>3. Bitmaps \subseteq pieces /\ pieces \subseteq Bitmaps \cup SuperParts /\ bg_desc = Descriptors
        BY <1>2, <3>5 DEF PiecesInv
      <4> QED BY <3>1, <3>3, <4>1, <4>2, <4>3 DEF PiecesInv
    <3> QED BY <3>1, <3>4, <3>5
  <2> QED BY <1>2, <2>1, <2>2, <2>3, <2>4, <2>5 DEF LayoutNext
<1> QED BY <1>1, <1>2, GeometryInvariance, PTL DEF LayoutSpec

Whats == {"superblock", "backup", "descriptors", "reserved", "bitmaps", "inode_table"}
WithSuper == {"superblock", "backup", "descriptors", "reserved"}

\* The parts that go into one header do not overlap, and end with it.
LEMMA PartsApart ==
  ASSUME info \in Parameters, aux = AuxOf(info), NEW g, NEW w \in Whats, w \in WithSuper => HasSuper(g)
  PROVE  /\ PartOf(w, g).at \in Nat /\ PartOf(w, g).len \in Nat
         /\ PartOf(w, g).at + PartOf(w, g).len <= Header(g)
         /\ \A v \in Whats : (v \in WithSuper => HasSuper(g)) =>
              \/ v = w \/ (v = "superblock" /\ w = "backup") \/ (v = "backup" /\ w = "superblock")
              \/ PartOf(w, g).at + PartOf(w, g).len <= PartOf(v, g).at
              \/ PartOf(v, g).at + PartOf(v, g).len <= PartOf(w, g).at
<1> DEFINE d == aux.bg_desc_blocks
           r == info.bg_desc_reserve_blocks
           t == aux.inode_table_blocks
           b == Behind(g)
<1>1. d \in Nat /\ r \in Nat /\ t \in Nat
  BY AuxIs DEF Parameters, ParametersOf
<1>2. b = (IF HasSuper(g) THEN 1 + d + r ELSE 0) /\ Header(g) = 2 + t + b
  BY HeaderIs DEF Behind, SuperSize
<1> DEFINE Is(v, at, len) ==
             \/ HasSuper(g) /\ b = 1 + d + r
                /\ \/ v \in {"superblock", "backup"} /\ at = 0 /\ len = 1
                   \/ v = "descriptors" /\ at = 1 /\ len = d
                   \/ v = "reserved" /\ at = 1 + d /\ len = r
             \/ v = "bitmaps" /\ at = b /\ len = 2
             \/ v = "inode_table" /\ at = b + 2 /\ len = t
<1>3. ASSUME NEW v \in Whats, v \in WithSuper => HasSuper(g)
      PROVE  Is(v, PartOf(v, g).at, PartOf(v, g).len)
  <2>1. CASE v \in WithSuper
    <3>1. HasSuper(g) /\ b = 1 + d + r
      BY <1>2, <1>3, <2>1
    <3> QED BY <2>1, <3>1 DEF PartOf, WithSuper
  <2>2. CASE v \in {"bitmaps", "inode_table"}
    BY <2>2 DEF PartOf
  <2> QED BY <1>3, <2>1, <2>2 DEF Whats, WithSuper
<1>4. b \in Nat /\ Header(g) = 2 + t + b
  BY <1>1, <1>2
<1> HIDE DEF d, r, t, b
<1>5. ASSUME NEW v, NEW at, NEW len, Is(v, at, len)
      PROVE  at \in Nat /\ len \in Nat /\ at + len <= Header(g)
  BY <1>1, <1>4, <1>5
<1>6. ASSUME NEW v, NEW at, NEW len, Is(v, at, len), NEW u, NEW bt, NEW ben, Is(u, bt, ben)
      PROVE  \/ v = u \/ (v = "superblock" /\ u = "backup") \/ (v = "backup" /\ u = "superblock")
             \/ bt + ben <= at \/ at + len <= bt
  BY <1>1, <1>4, <1>6
<1> HIDE DEF Is
<1>7. Is(w, PartOf(w, g).at, PartOf(w, g).len)
  BY <1>3
<1>8. ASSUME NEW v \in Whats, v \in WithSuper => HasSuper(g)
      PROVE  \/ v = w \/ (v = "superblock" /\ w = "backup") \/ (v = "backup" /\ w = "superblock")
             \/ PartOf(w, g).at + PartOf(w, g).len <= PartOf(v, g).at
             \/ PartOf(v, g).at + PartOf(v, g).len <= PartOf(w, g).at
  <2>1. Is(v, PartOf(v, g).at, PartOf(v, g).len)
    BY <1>3, <1>8
  <2> QED BY <1>6, <1>7, <2>1
<1>9. /\ PartOf(w, g).at \in Nat /\ PartOf(w, g).len \in Nat
      /\ PartOf(w, g).at + PartOf(w, g).len <= Header(g)
  BY <1>5, <1>7
<1> QED BY <1>8, <1>9

\* What four functions queue for the headers never overlaps, whatever the
\* options.
THEOREM HeadersNeverOverlap == LayoutSpec => []HeadersApart
<1>1. ASSUME GeometryInv, PiecesInv PROVE HeadersApart
  <2> DEFINE all == pieces \cup {TablePiece(g) : g \in DOMAIN bgs}
             y == info.blocks_per_group
  <2> SUFFICES ASSUME GroupsReady
               PROVE  /\ \A p, q \in all : p = q \/ p.start + p.len <= q.start \/ q.start + q.len <= p.start
                      /\ \A p \in all : p.what # "superblock" =>
                           /\ bgs[p.group].first_block <= p.start
                           /\ p.start + p.len <= bgs[p.group].first_block + bgs[p.group].header
                      /\ \A g \in DOMAIN bgs :
                           /\ Piece("bitmaps", g, bg_desc[g].bg_block_bitmap, 2) \in pieces
                           /\ bg_desc[g].bg_inode_bitmap = bg_desc[g].bg_block_bitmap + 1
                           /\ bg_desc[g].bg_inode_table = TablePiece(g).start
    BY DEF HeadersApart
  <2>1. /\ info \in Parameters /\ aux = AuxOf(info) /\ aux.groups \in Nat \ {0} /\ Prefix(aux.groups)
        /\ Bitmaps \subseteq pieces /\ pieces \subseteq Bitmaps \cup SuperParts /\ bg_desc = Descriptors
    BY <1>1 DEF GeometryInv, PiecesInv, GroupsReady, Computed, Placed
  <2>2. /\ y \in Nat /\ aux.first_data_block \in Nat /\ DOMAIN bgs = 0 .. aux.groups - 1
        /\ \A g \in DOMAIN bgs : /\ bgs[g].first_block = FirstBlock(g) /\ bgs[g].header = Header(g)
                                 /\ Header(g) \in Nat /\ Header(g) <= y
    BY <2>1, AuxIs, HeaderIs, SMTT(60) DEF Prefix, BgOf, Parameters, ParametersOf
  <2>3. ASSUME NEW g \in DOMAIN bgs
        PROVE  FirstBlock(g) \in Nat /\ Behind(g) \in Nat /\ TablePiece(g) = Part("inode_table", g)
    <3>1. g * y \in Nat
      BY <2>2
    <3>2. FirstBlock(g) \in Nat
      BY <2>2, <3>1 DEF FirstBlock
    <3>3. Behind(g) \in Nat
      BY <2>1, HeaderIs DEF Behind
    <3>4. FirstBlock(g) + 2 + Behind(g) = FirstBlock(g) + (Behind(g) + 2)
      BY <3>2, <3>3
    <3>5. TablePiece(g) = Piece("inode_table", g, FirstBlock(g) + 2 + Behind(g), aux.inode_table_blocks)
      BY DEF TablePiece, Behind
    <3>6. Part("inode_table", g) = Piece("inode_table", g, FirstBlock(g) + (Behind(g) + 2), aux.inode_table_blocks)
      BY DEF Part, PartOf
    <3> QED BY <3>2, <3>3, <3>4, <3>5, <3>6
  <2>4. ASSUME NEW p \in all
        PROVE  \E w \in Whats, g \in DOMAIN bgs :
                 /\ p = Part(w, g) /\ (w \in WithSuper => HasSuper(g))
                 /\ (w = "superblock" => g = 0) /\ (w = "backup" => g # 0)
    <3>1. 0 \in DOMAIN bgs /\ HasSuper(0)
      BY <2>1, <2>2 DEF HasSuper
    <3>2. p \in Bitmaps \/ p \in SuperParts \/ \E g \in DOMAIN bgs : p = Part("inode_table", g)
      BY <2>1, <2>3
    <3> QED BY <3>1, <3>2 DEF Bitmaps, SuperParts, Whats, WithSuper
  <2>5. ASSUME NEW w \in Whats, NEW g \in DOMAIN bgs, w \in WithSuper => HasSuper(g)
        PROVE  /\ Part(w, g).start = FirstBlock(g) + PartOf(w, g).at /\ Part(w, g).len = PartOf(w, g).len
               /\ Part(w, g).group = g
               /\ PartOf(w, g).at \in Nat /\ PartOf(w, g).len \in Nat
               /\ PartOf(w, g).at + PartOf(w, g).len <= Header(g)
    <3>1. /\ Part(w, g).start = FirstBlock(g) + PartOf(w, g).at /\ Part(w, g).len = PartOf(w, g).len
          /\ Part(w, g).group = g
      BY DEF Part, Piece
    <3> QED BY <2>1, <2>5, <3>1, PartsApart
  <2>6. ASSUME NEW p \in all, NEW q \in all
        PROVE  p = q \/ p.start + p.len <= q.start \/ q.start + q.len <= p.start
    <3>1. PICK v \in Whats, g \in DOMAIN bgs :
             /\ p = Part(v, g) /\ (v \in WithSuper => HasSuper(g))
             /\ (v = "superblock" => g = 0) /\ (v = "backup" => g # 0)
      BY <2>4
    <3>2. PICK w \in Whats, h \in DOMAIN bgs :
             /\ q = Part(w, h) /\ (w \in WithSuper => HasSuper(h))
             /\ (w = "superblock" => h = 0) /\ (w = "backup" => h # 0)
      BY <2>4
    <3>3. FirstBlock(g) \in Nat /\ FirstBlock(h) \in Nat
      BY <2>3
    <3> DEFINE at == PartOf(v, g).at
               len == PartOf(v, g).len
               bt == PartOf(w, h).at
               ben == PartOf(w, h).len
    <3>4. /\ p.start = FirstBlock(g) + at /\ p.len = len /\ at \in Nat /\ len \in Nat
          /\ at + len <= Header(g)
      BY <2>5, <3>1
    <3>5. /\ q.start = FirstBlock(h) + bt /\ q.len = ben /\ bt \in Nat /\ ben \in Nat
          /\ bt + ben <= Header(h)
      BY <2>5, <3>2
    <3>6. Header(g) \in Nat /\ Header(g) <= y /\ Header(h) \in Nat /\ Header(h) <= y
      BY <2>2
    <3>7. CASE g = h
      <4>1. v = w \/ (v = "superblock" /\ w = "backup") \/ (v = "backup" /\ w = "superblock")
            \/ at + len <= bt \/ bt + ben <= at
        BY <2>1, <3>1, <3>2, <3>7, PartsApart
      <4>2. ~(v = "superblock" /\ w = "backup") /\ ~(v = "backup" /\ w = "superblock")
        BY <3>1, <3>2, <3>7
      <4> HIDE DEF at, len, bt, ben
      <4>3. at + len <= bt => p.start + p.len <= q.start
        BY <3>3, <3>4, <3>5, <3>7
      <4>4. bt + ben <= at => q.start + q.len <= p.start
        BY <3>3, <3>4, <3>5, <3>7
      <4> QED BY <3>1, <3>2, <3>7, <4>1, <4>2, <4>3, <4>4
    <3> HIDE DEF at, len, bt, ben
    <3>8. CASE g < h
      <4>1. FirstBlock(g) + y <= FirstBlock(h)
        <5>1. g \in Nat /\ h \in Nat
          BY <2>2
        <5>2. g * y + y <= h * y /\ g * y \in Nat /\ h * y \in Nat
          BY <2>2, <3>8, <5>1, Apart
        <5> QED BY <2>2, <5>2, SMTT(60) DEF FirstBlock
      <4>2. p.start + p.len <= FirstBlock(g) + y
        BY <2>2, <3>3, <3>4, <3>6
      <4>3. p.start + p.len \in Nat /\ q.start >= FirstBlock(h) /\ q.start \in Nat
        BY <3>3, <3>4, <3>5
      <4> QED BY <2>2, <3>3, <4>1, <4>2, <4>3
    <3>9. CASE h < g
      <4>1. FirstBlock(h) + y <= FirstBlock(g)
        <5>1. g \in Nat /\ h \in Nat
          BY <2>2
        <5>2. h * y + y <= g * y /\ g * y \in Nat /\ h * y \in Nat
          BY <2>2, <3>9, <5>1, Apart
        <5> QED BY <2>2, <5>2, SMTT(60) DEF FirstBlock
      <4>2. q.start + q.len <= FirstBlock(h) + y
        BY <2>2, <3>3, <3>5, <3>6
      <4>3. q.start + q.len \in Nat /\ p.start >= FirstBlock(g) /\ p.start \in Nat
        BY <3>3, <3>4, <3>5
      <4> QED BY <2>2, <3>3, <4>1, <4>2, <4>3
    <3> QED BY <2>2, <3>7, <3>8, <3>9
  <2>7. ASSUME NEW p \in all
        PROVE  /\ bgs[p.group].first_block <= p.start
               /\ p.start + p.len <= bgs[p.group].first_block + bgs[p.group].header
    <3>1. PICK v \in Whats, g \in DOMAIN bgs : p = Part(v, g) /\ (v \in WithSuper => HasSuper(g))
      BY <2>4
    <3>2. p.group = g /\ FirstBlock(g) \in Nat
      BY <2>3, <2>5, <3>1
    <3>3. p.start = FirstBlock(g) + PartOf(v, g).at /\ p.len = PartOf(v, g).len
      BY <2>5, <3>1
    <3>4. PartOf(v, g).at \in Nat /\ PartOf(v, g).len \in Nat /\ PartOf(v, g).at + PartOf(v, g).len <= Header(g)
      BY <2>5, <3>1
    <3>5. /\ FirstBlock(g) <= p.start /\ p.start + p.len <= FirstBlock(g) + Header(g)
      <4>1. Header(g) \in Nat
        BY <2>2
      <4> QED BY <3>2, <3>3, <3>4, <4>1
    <3> QED BY <2>2, <3>2, <3>5
  <2>8. ASSUME NEW g \in DOMAIN bgs
        PROVE  /\ Piece("bitmaps", g, bg_desc[g].bg_block_bitmap, 2) \in pieces
               /\ bg_desc[g].bg_inode_bitmap = bg_desc[g].bg_block_bitmap + 1
               /\ bg_desc[g].bg_inode_table = TablePiece(g).start
    <3>1. /\ bg_desc[g].bg_block_bitmap = FirstBlock(g) + Behind(g)
          /\ bg_desc[g].bg_inode_bitmap = FirstBlock(g) + Behind(g) + 1
          /\ bg_desc[g].bg_inode_table = FirstBlock(g) + Behind(g) + 2
      BY <2>1 DEF Descriptors
    <3>2. Part("bitmaps", g) = Piece("bitmaps", g, FirstBlock(g) + Behind(g), 2)
      BY DEF Part, PartOf
    <3>3. TablePiece(g).start = FirstBlock(g) + 2 + Behind(g)
      BY DEF TablePiece, Piece, Behind
    <3>4. Part("bitmaps", g) \in pieces
      BY <2>1 DEF Bitmaps
    <3>5. FirstBlock(g) \in Nat /\ Behind(g) \in Nat
      BY <2>3
    <3> QED BY <3>1, <3>2, <3>3, <3>4, <3>5
  <2> QED BY <2>6, <2>7, <2>8
<1> QED BY <1>1, GeometryInvariance, PiecesInvariance, PTL

-----------------------------------------------------------------------------
(* The resize inode.                                                       *)

\* What inode_attach_resize lists, and that it does so with blocks reserved.
Slots == 0 .. info.bg_desc_reserve_blocks - 1
Listed ==
  [dind |-> [i \in Slots |-> GetBlock(SlotBlock(i))],
   ind |-> [r \in Slots |->
     IF r \in {SlotBlock(i) : i \in Slots}
     THEN [j \in 1 .. Cardinality(SuperGroups) - 1 |-> GetBlock(j * info.bg_desc_reserve_blocks + r)]
     ELSE <<>>]]
ResizeInv ==
  stage \in {"queue", "written", "done", "refused"} =>
    resize = Listed /\ info.bg_desc_reserve_blocks \in Nat \ {0}

LEMMA ResizeInvariance == LayoutSpec => []ResizeInv
<1>1. LayoutInit => ResizeInv
  BY DEF LayoutInit, ResizeInv
<1>2. ASSUME GeometryInv, ResizeInv, [LayoutNext]_layoutVars PROVE ResizeInv'
  <2>1. CASE CreateResize
    <3>1. /\ UNCHANGED <<info, aux>> /\ stage' \in {"crashed", "queue"}
          /\ stage' = "queue" => resize' = Listed /\ info.bg_desc_reserve_blocks # 0
      BY <2>1 DEF CreateResize, Listed, Slots
    <3>2. Listed' = Listed
      BY <3>1 DEF Listed, Slots, GetBlock, SlotBlock, SuperGroups, ReservedAt, FirstBlock, NthSuper
    <3>3. info.bg_desc_reserve_blocks \in Nat
      BY <1>2, <2>1 DEF GeometryInv, Computed, Placed, Parameters, ParametersOf, CreateResize
    <3> QED BY <3>1, <3>2, <3>3 DEF ResizeInv
  <2>2. CASE QueueSb \/ ParseSb \/ UNCHANGED layoutVars
    <3>1. /\ UNCHANGED <<info, aux, resize>>
          /\ stage' \in {"queue", "written", "done", "refused"} =>
               stage \in {"queue", "written", "done", "refused"}
      BY <2>2 DEF QueueSb, ParseSb, layoutVars
    <3>2. Listed' = Listed
      BY <3>1 DEF Listed, Slots, GetBlock, SlotBlock, SuperGroups, ReservedAt, FirstBlock, NthSuper
    <3> QED BY <1>2, <3>1, <3>2 DEF ResizeInv
  <2>3. CASE ComputeParameters \/ InitAux \/ InitBg \/ FillInSb
    <3>1. stage' \in {"crashed", "failed", "parameters", "groups", "resize"}
      BY <2>3, ZenonT(60) DEF ComputeParameters, InitAux, InitBg, FillInSb
    <3> QED BY <3>1 DEF ResizeInv
  <2> QED BY <1>2, <2>1, <2>2, <2>3 DEF LayoutNext
<1> QED BY <1>1, <1>2, GeometryInvariance, PTL DEF LayoutSpec

\* A slot holds one of the reserved blocks: where the difference does not wrap
\* the one that far behind the descriptors, and every one of them in some slot
\* when their number divides 2^32.
LEMMA SlotBlockIs ==
  ASSUME info.bg_desc_reserve_blocks \in Nat \ {0}, aux.bg_desc_blocks \in Nat
  PROVE  /\ \A i \in Slots : /\ SlotBlock(i) \in Slots
                             /\ i >= aux.bg_desc_blocks => SlotBlock(i) = i - aux.bg_desc_blocks
         /\ Mod2To32(info.bg_desc_reserve_blocks) = 0 => {SlotBlock(i) : i \in Slots} = Slots
<1>1. PICK n \in Nat \ {0} : n = info.bg_desc_reserve_blocks
  OBVIOUS
<1>2. PICK d \in Nat : d = aux.bg_desc_blocks
  OBVIOUS
<1>3. PICK w \in Nat : w = Mod2To32(n)
  <2>1. 65536 % n \in Nat
    BY <1>1
  <2>2. PICK k \in Nat : k = (65536 % n) * (65536 % n)
    BY <2>1
  <2>3. k % n \in Nat
    BY <1>1, <2>2
  <2> QED BY <2>2, <2>3 DEF Mod2To32
<1>4. Slots = 0 .. n - 1
  BY <1>1 DEF Slots
<1>5. \A i : SlotBlock(i) = IF i >= d THEN (i - d) % n ELSE (w + i - d) % n
  BY <1>1, <1>2, <1>3 DEF SlotBlock
<1>6. ASSUME NEW i \in 0 .. n - 1
      PROVE  SlotBlock(i) \in 0 .. n - 1 /\ (i >= d => SlotBlock(i) = i - d)
  <2>1. CASE i >= d
    <3>1. PICK k \in 0 .. n - 1 : k = i - d
      BY <1>1, <1>2, <2>1
    <3>2. (0 * n + k) % n = k /\ 0 * n + k = k
      <4>1. PICK z \in Int : z = 0
        OBVIOUS
      <4>2. (z * n + k) % n = k
        BY Division
      <4> QED BY <4>1, <4>2
    <3> QED BY <1>5, <2>1, <3>1, <3>2
  <2>2. CASE ~(i >= d)
    BY <1>1, <1>2, <1>3, <1>5, <2>2
  <2> QED BY <2>1, <2>2
<1>7. ASSUME w = 0, NEW r \in 0 .. n - 1
      PROVE  \E i \in 0 .. n - 1 : SlotBlock(i) = r
  <2>1. PICK q \in Nat, i \in 0 .. n - 1 : r + d = q * n + i
    <3>1. r + d \in Nat
      BY <1>2, <1>7
    <3>2. (r + d) \div n \in Nat /\ (r + d) % n \in 0 .. n - 1 /\ r + d = ((r + d) \div n) * n + ((r + d) % n)
      BY <1>1, <3>1, DivMod
    <3> QED BY <3>2
  <2>2. i - d = (-q) * n + r /\ -q \in Int
    <3>1. PICK p \in Nat : p = q * n
      BY <1>1, <2>1
    <3>2. (-q) * n = -p
      BY <3>1
    <3>3. r + d = p + i
      BY <2>1, <3>1
    <3> QED BY <3>2, <3>3
  <2>3. (i - d) % n = r
    BY <1>1, <2>2, Division
  <2>4. w + i - d = i - d
    BY <1>2, <1>7, <2>1
  <2> QED BY <1>5, <2>1, <2>3, <2>4
<1> QED BY <1>1, <1>2, <1>3, <1>4, <1>6, <1>7

\* The resize inode lists what is reserved, whatever the options.
THEOREM ReservedAreListed == LayoutSpec => []ResizeListsReserved
<1>1. ASSUME GeometryInv, ResizeInv PROVE ResizeListsReserved
  <2> DEFINE R == info.bg_desc_reserve_blocks
             d == aux.bg_desc_blocks
  <2> SUFFICES ASSUME stage \in {"queue", "written", "done", "refused"}
               PROVE  /\ \A i \in Slots : i >= d => resize.dind[i] = FirstBlock(0) + 1 + i
                      /\ Mod2To32(R) = 0 =>
                           /\ {resize.dind[i] : i \in Slots} = ReservedAt(0) .. ReservedAt(0) + R - 1
                           /\ \A r \in Slots : \A g \in SuperGroups \ {0} :
                                ReservedAt(g) + r \in {resize.ind[r][j] : j \in DOMAIN resize.ind[r]}
    BY DEF ResizeListsReserved, Slots
  <2>1. /\ info \in Parameters /\ aux = AuxOf(info) /\ aux.groups \in Nat \ {0}
        /\ R \in Nat \ {0} /\ resize = Listed
    BY <1>1 DEF GeometryInv, ResizeInv, GroupsReady, Computed, Placed
  <2>2. d \in Nat /\ FirstBlock(0) \in Nat /\ ReservedAt(0) = FirstBlock(0) + 1 + d
    BY <2>1, AuxIs DEF FirstBlock, ReservedAt, Parameters, ParametersOf
  <2>3. \A i \in Slots : /\ SlotBlock(i) \in Slots
                         /\ i >= d => SlotBlock(i) = i - d
    BY <2>1, <2>2, SlotBlockIs
  <2>4. \A i \in Slots : resize.dind[i] = ReservedAt(0) + SlotBlock(i)
    <3>1. \A r \in Slots : GetBlock(r) = ReservedAt(0) + r
      BY <2>1, GetBlockIs DEF Slots
    <3> QED BY <2>1, <2>3, <3>1 DEF Listed
  <2>5. ASSUME NEW i \in Slots, i >= d PROVE resize.dind[i] = FirstBlock(0) + 1 + i
    <3>1. resize.dind[i] = ReservedAt(0) + (i - d) /\ i \in Nat
      BY <2>3, <2>4, <2>5 DEF Slots
    <3> QED BY <2>2, <3>1
  <2>6. ASSUME Mod2To32(R) = 0
        PROVE  {resize.dind[i] : i \in Slots} = ReservedAt(0) .. ReservedAt(0) + R - 1
    <3>1. {SlotBlock(i) : i \in Slots} = Slots
      BY <2>1, <2>2, <2>6, SlotBlockIs
    <3>2. PICK a \in Nat : a = ReservedAt(0)
      BY <2>2
    <3>3. PICK n \in Nat \ {0} : n = R
      BY <2>1
    <3>4. ASSUME NEW x \in a .. a + n - 1 PROVE \E i \in Slots : x = a + SlotBlock(i)
      <4>1. x - a \in Slots
        BY <3>2, <3>3 DEF Slots
      <4>2. PICK i \in Slots : SlotBlock(i) = x - a
        BY <3>1, <4>1
      <4> QED BY <4>2
    <3>5. ASSUME NEW i \in Slots PROVE a + SlotBlock(i) \in a .. a + n - 1
      <4>1. SlotBlock(i) \in 0 .. n - 1
        BY <2>3, <3>3 DEF Slots
      <4> QED BY <4>1
    <3> QED BY <2>4, <3>2, <3>3, <3>4, <3>5
  <2>7. ASSUME Mod2To32(R) = 0, NEW r \in Slots, NEW g \in SuperGroups \ {0}
        PROVE  ReservedAt(g) + r \in {resize.ind[r][j] : j \in DOMAIN resize.ind[r]}
    <3>1. r \in {SlotBlock(i) : i \in Slots}
      BY <2>1, <2>2, <2>7, SlotBlockIs
    <3>2. PICK j : j = Rank(SuperGroups, g)
      OBVIOUS
    <3>3. NthSuper(j) = g /\ j \in 0 .. Cardinality(SuperGroups) - 1 /\ j > 0
      BY <2>1, <3>2, NthSuperIs
    <3>4. resize.ind[r] = [k \in 1 .. Cardinality(SuperGroups) - 1 |-> GetBlock(k * R + r)]
      BY <2>1, <3>1 DEF Listed
    <3>5. j \in 1 .. Cardinality(SuperGroups) - 1 /\ j \in Nat
      <4>1. Cardinality(SuperGroups) \in Int
        BY <2>1, NthSuperIs
      <4> QED BY <3>3, <4>1
    <3>6. GetBlock(j * R + r) = ReservedAt(g) + r
      BY <2>1, <3>3, <3>5, GetBlockIs DEF Slots
    <3> QED BY <3>4, <3>5, <3>6
  <2> QED BY <2>5, <2>6, <2>7
<1> QED BY <1>1, GeometryInvariance, ResizeInvariance, PTL
=============================================================================

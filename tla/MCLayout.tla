------------------------------ MODULE MCLayout ------------------------------
(* Image sizes around the points where a group appears or is dropped.      *)
EXTENDS Layout, Bitwise

Given(lens, bs, bpg, inodes, size) ==
  {[len |-> n, part |-> FALSE, block_size |-> bs, blocks_per_group |-> bpg, inodes |-> inodes,
    inode_size |-> size] : n \in lens}

\* A length of n bytes, rounded as make_ext4fs_internal does.
Bytes(n, bs, bpg, inodes, size) ==
  LET rest == n - (n & (bs - 1))
  IN  {[len |-> rest \div bs, part |-> rest % bs > 0, block_size |-> bs, blocks_per_group |-> bpg,
        inodes |-> inodes, inode_size |-> size]}

\* Default options: nothing, less than a header, one group, a second group
\* around the size of its header, full groups.
MCDefault ==
  Given((0 .. 30) \cup {32767, 32768, 65536} \cup (32769 .. 32771) \cup (32768 + 270 .. 32768 + 280), 0, 0, 0, 0)

\* 1 KiB blocks in groups of 512: up to nine groups, and a last one of any size
\* up to a little over its header.
MCSmall ==
  UNION {Given(512 * k .. 512 * k + 48, 1024, 512, 512, 0) : k \in {0, 1, 2, 7}}
    \cup UNION {Given(512 * k .. 512 * k + 300, 1024, 512, 512, 128) : k \in {3, 9}}

\* 33 groups of 1 KiB blocks take two blocks of descriptors; the reserve is a
\* power of two.
MCMany == Given((32 * 1024 - 1 .. 32 * 1024 + 3) \cup (32 * 1024 + 8 .. 32 * 1024 + 14)
                \cup {33 * 1024}, 1024, 1024, 1056, 256)

\* A group of 39 blocks that are all header: alone, and with one behind it
\* that is dropped.
MCFull == Given({39}, 1024, 39, 16, 256) \cup Given({71 + 3}, 1024, 71, 32, 256)

\* Blocks so large that nothing is reserved, groups too small for a header,
\* inodes larger than a block.
MCOdd ==
  Given({50, 500}, 65536, 0, 0, 0) \cup Given({300}, 32768, 0, 0, 0)
    \cup Given({300}, 1024, 16, 64, 0) \cup Given({300}, 1024, 0, 0, 2048)

\* Block sizes that are no power of two times 1024, which no option refuses:
\* read back as 2048, as 1024 and with another first block, and below the size
\* of a superblock.  An inode of 64 KiB, of which 16 bits are 0.
MCUnstorable ==
  UNION {Bytes(n, 3000, 0, 0, 0) : n \in {1000000, 1536000}} \cup Bytes(2000000, 1500, 0, 0, 0)
    \cup Bytes(100000, 512, 0, 0, 0) \cup Given({350}, 65536, 100, 4, 65536)

MCOptions == MCDefault \cup MCUnstorable \cup MCSmall \cup MCFull \cup MCMany \cup MCOdd
=============================================================================

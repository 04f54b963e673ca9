-------------------------- MODULE MCBlockAllocator --------------------------
(* Geometries of a few blocks for the block allocator.                     *)
EXTENDS BlockAllocator

\* A superblock in groups 0 and 1, a short last group.
MCHeader == [g \in Groups |-> IF g <= 1 THEN 2 ELSE 1]
MCLimit == [g \in Groups |-> IF g = NumGroups - 1 THEN BlocksPerGroup - 1 ELSE BlocksPerGroup]
=============================================================================

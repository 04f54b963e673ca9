---------------------------- MODULE MCSparseFile ----------------------------
(* Pieces for an image of four blocks of two units: memory of a block, less *)
(* than a block and more than a block, fills of one and of two blocks, and  *)
(* two adjacent stretches of a descriptor.                                  *)
EXTENDS SparseFile

At(block, type, len, src, off) ==
  [type |-> type, block |-> block, len |-> len, src |-> src, off |-> off]

Buffer == <<"m0", "m1", "m2", "m3">>

MCPieces ==
  {At(b, "data", 1, Buffer[b + 1], 0) : b \in 0 .. 3}
    \cup {At(b, "data", 3, Buffer[b + 1], 0) : b \in {0, 2}}
    \cup {At(2, "file", 2, "name", 0)}
    \cup {At(b, "fill", 2, "v", 0) : b \in 0 .. 3} \cup {At(1, "fill", 4, "v", 0)}
    \cup {At(1, "fd", 2, "fd", 0), At(2, "fd", 2, "fd", 2), At(3, "fd", 2, "fd", 2)}
=============================================================================

----------------------------- MODULE MCResparse -----------------------------
(* Pieces for an image of ten blocks of four units: memory of one, four and *)
(* nine blocks, a file of three and a half, short fills and a long one.     *)
EXTENDS Resparse

At(block, type, len, src) == [type |-> type, block |-> block, len |-> len, src |-> src, off |-> 0]

MCPieces ==
  {At(0, "data", 4, "m0"), At(2, "data", 4, "m2"), At(4, "data", 16, "m4"), At(9, "data", 4, "m9")}
    \cup {At(1, "data", 36, "long"), At(4, "file", 14, "name"), At(8, "file", 4, "name")}
    \cup {At(1, "fill", 4, "v"), At(3, "fill", 4, "v"), At(4, "fill", 20, "w")}

\* Less than the overhead of 20, less than a block above it, and then enough
\* for one block, for some, and for eight.
MCMaxLens == {16, 22, 24, 27, 29, 35, 38, 43, 53}
=============================================================================

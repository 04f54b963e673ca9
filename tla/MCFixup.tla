------------------------------ MODULE MCFixup ------------------------------
(* A small image for Fixup: three inodes per group that should be four.  A  *)
(* directory of two blocks, one below it whose last block holds a deleted   *)
(* entry only, and one below that whose entry has no file type.  Number 5   *)
(* names one inode before and another after.                                *)
EXTENDS Fixup

E(slot, block) == [slot |-> slot, dot |-> FALSE, dir |-> FALSE, typed |-> TRUE,
                   live |-> TRUE, block |-> block]
Dot(slot) == [E(slot, 1) EXCEPT !.dot = TRUE, !.dir = TRUE]
Sub(slot, block) == [E(slot, block) EXCEPT !.dir = TRUE]
Untyped(e) == [e EXCEPT !.typed = FALSE]
Deleted(e) == [e EXCEPT !.live = FALSE]

MCDirs == {"root", "a", "b"}
MCHome == [d \in MCDirs |-> CASE d = "root" -> <<0, 1>> [] d = "a" -> <<1, 0>> [] d = "b" -> <<1, 1>>]
MCEntries == [d \in MCDirs |->
  CASE d = "root" -> <<Dot(<<0, 1>>), Dot(<<0, 1>>), Sub(<<1, 0>>, 1), E(<<0, 2>>, 2), Untyped(E(<<1, 2>>, 2))>>
    [] d = "a" -> <<Dot(<<1, 0>>), Dot(<<0, 1>>), Untyped(Sub(<<1, 1>>, 1)), Deleted(E(<<2, 1>>, 2))>>
    [] d = "b" -> <<Dot(<<1, 1>>), Dot(<<1, 0>>), E(<<2, 2>>, 2)>>]

\* The last block of group 0 holds the first block of "a".
MCLastBlock == [g \in 0 .. NumGroups - 1 |-> IF g = 0 THEN {<<"a", 1>>} ELSE {}]

MCFreeInodes == [g \in 0 .. NumGroups - 1 |-> g]
=============================================================================

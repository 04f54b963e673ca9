------------------------------- MODULE MCMkfs -------------------------------
(* Source trees and small images for Mkfs.  Inode numbers are the real ones. *)
EXTENDS Mkfs, MCBlockAllocator

E(type, blocks) == [type |-> type, dir |-> "", blocks |-> blocks, caps |-> FALSE]
WithCaps(e) == [e EXCEPT !.caps = TRUE]
D(d) == [type |-> "dir", dir |-> d, blocks |-> 0, caps |-> FALSE]
Dir(blocks, entries) == [blocks |-> blocks, entries |-> entries]

Leaves == {E("file", 0), WithCaps(E("file", 3)), E("file", 6), E("link", 1), E("special", 0)}
Tree(root, a, b) ==
  [d \in {"root", "lost+found", "a", "b"} |->
     CASE d = "root" -> Dir(1, root) [] d = "lost+found" -> Dir(1, <<>>)
       [] d = "a" -> Dir(2, a) [] d = "b" -> Dir(1, b)]

\* More files than an image of six small groups has inodes.
Crowd == Tree([k \in 1 .. 70 |-> E("special", 0)], <<>>, <<>>)

\* A directory between two leaves, with a leaf or another directory in it;
\* lost+found added or given; no source directory at all; too many files.
MCTrees ==
  {Tree(<<x, D("a"), y>>, <<z>>, <<>>) : x \in Leaves, y \in Leaves, z \in Leaves}
    \cup {Tree(<<D("a"), D("lost+found"), x>>, <<y, D("b")>>, <<z>>) :
            x \in Leaves, y \in Leaves, z \in Leaves}
    \cup {Tree(<<>>, <<>>, <<>>), Crowd}

\* A last group that holds its header and nothing else, and a short one before.
MCLimitNoRoom ==
  [g \in Groups |-> IF g = NumGroups - 1 THEN 1
                    ELSE IF g = NumGroups - 2 THEN BlocksPerGroup - 1 ELSE BlocksPerGroup]

\* One file that fills an image of many small groups.
MCBigFile == {Tree(<<E("file", 94)>>, <<>>, <<>>)}

MCBigLimit == [g \in Groups |-> IF g < 2 THEN 10 ELSE 2]
=============================================================================

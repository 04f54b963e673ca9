---------------------------- MODULE MCDirectory ----------------------------
(* Names whose records are of 12, 248, 252 and 264 bytes: up to five of     *)
(* them in blocks of 1024 bytes, where two of 248 and two of 252 fill the   *)
(* first block exactly, and after 247 of 264 bytes in a block of 65536.     *)
(* Names that cannot be read, the last and others, with and without -f, a   *)
(* root that has, loses or gets its lost+found, and an inode with a block   *)
(* that holds no records.                                                   *)
EXTENDS Directory

Name(n) == [len |-> n, lost_found |-> FALSE, readable |-> TRUE]
Lengths == {4, 240, 243, 255}
Tails(n) == UNION {[1 .. k -> {Name(l) : l \in Lengths}] : k \in 0 .. n}

Small == [block_size : {1024}, root : BOOLEAN, force : {FALSE}, beside : {0}, names : Tails(5)]
Large == [block_size : {65536}, root : {FALSE}, force : {FALSE}, beside : {0},
          names : {[k \in 1 .. 247 |-> Name(255)] \o t : t \in Tails(2)}]
Unread(name) == [name EXCEPT !.readable = FALSE]
Plain == {Name(4), Unread(Name(4))}
Found == [Name(LostFound) EXCEPT !.lost_found = TRUE]
Broken == [block_size : {1024}, root : {TRUE}, force : BOOLEAN, beside : 0 .. 1,
           names : {<<m, n>> : m \in Plain, n \in Plain \cup {Found, Unread(Found)}} \cup {<<m>> : m \in Plain}]

MCDirectories == Small \cup Large \cup Broken
=============================================================================

---------------------------- MODULE BackedBlocks ----------------------------
(***************************************************************************)
(* backed_block.c: the list of pieces an image is made of, sorted by the   *)
(* block each starts at.  Lengths and offsets are in units, BlockSize of   *)
(* them to a block.  A piece names what stands behind it and does not hold *)
(* it; unit u of a piece is the cell <<src, off + u>> of its buffer, file  *)
(* or descriptor src, and any unit of a fill is <<src, 0>>, its value.     *)
(***************************************************************************)
EXTENDS Integers, Sequences

CONSTANT BlockSize
ASSUME BlockSizeAssumption == BlockSize \in Nat \ {0}

PieceTypes == {"data", "file", "fd", "fill"}
IsPiece(p) ==
  /\ p = [type |-> p.type, block |-> p.block, len |-> p.len, src |-> p.src, off |-> p.off]
  /\ p.type \in PieceTypes
  /\ p.block \in Nat /\ p.len \in Nat \ {0} /\ p.off \in Nat

BlocksIn(len) == (len + BlockSize - 1) \div BlockSize
EndOf(p) == p.block + BlocksIn(p.len)

Zero == <<"zero", 0>>
CellOf(p, u) ==
  CASE p.type = "fill" -> <<p.src, 0>>
    [] p.type # "fill" /\ u < p.len -> <<p.src, p.off + u>>
    [] OTHER -> Zero

\* last_used: nothing, the piece that starts at a block, or memory that
\* merge_bb has freed.
Unset == -1
Freed == -2

\* Mutant: the offsets of the two pieces are not compared.
MergeableAnywhere(a, b) ==
  /\ a.type = b.type /\ a.block + a.len \div BlockSize = b.block
  /\ a.type \in {"fill", "fd"} /\ a.src = b.src
\* merge_bb: two adjacent fills of one value, or two adjacent stretches of one
\* descriptor.  Memory is never merged, and neither are files: each piece has
\* a copy of the name and the pointers are compared.
Mergeable(a, b) ==
  /\ a.type = b.type /\ a.block + a.len \div BlockSize = b.block
  /\ \/ a.type = "fill" /\ a.src = b.src
     \/ a.type = "fd" /\ a.src = b.src /\ a.off + a.len = b.off

MergeAt(l, k) ==
  IF k \in 1 .. Len(l) - 1 /\ Mergeable(l[k], l[k + 1])
  THEN SubSeq(l, 1, k - 1) \o <<[l[k] EXCEPT !.len = @ + l[k + 1].len]>> \o SubSeq(l, k + 2, Len(l))
  ELSE l

\* Where the search from position start stops: p goes behind that piece.
InsertAfter(l, start, p) ==
  CHOOSE k \in start .. Len(l) :
    /\ \A j \in start + 1 .. k : l[j].block < p.block
    /\ k = Len(l) \/ l[k + 1].block >= p.block

\* The search starts at last_used when p lies behind it.
Start(l, last, p) ==
  IF last \notin {Unset, Freed} /\ p.block > last
  THEN CHOOSE k \in DOMAIN l : l[k].block = last
  ELSE 1

\* queue_bb reads last_used.
ReadsLastUsed(l, p) == l # <<>> /\ l[1].block <= p.block

\* queue_bb on the list l: the list and last_used afterwards.
Queued(l, last, p) ==
  IF l = <<>> THEN [list |-> <<p>>, last |-> last]
  ELSE IF l[1].block > p.block THEN [list |-> <<p>> \o l, last |-> last]
  ELSE LET k == InsertAfter(l, Start(l, last, p), p)
           with == SubSeq(l, 1, k) \o <<p>> \o SubSeq(l, k + 1, Len(l))
           joined == MergeAt(MergeAt(with, k + 1), k)
           freed == \A j \in DOMAIN joined : joined[j].block # p.block
       IN  [list |-> joined, last |-> IF freed THEN Freed ELSE p.block]

\* Mutant: the second half reads from where the first one reads.
SplitInPlace(l, k, max_len) ==
  LET m == (max_len \div BlockSize) * BlockSize
      rest == [l[k] EXCEPT !.len = @ - m, !.block = @ + m \div BlockSize]
  IN  IF l[k].len <= m THEN l
      ELSE SubSeq(l, 1, k - 1) \o <<[l[k] EXCEPT !.len = m], rest>> \o SubSeq(l, k + 1, Len(l))
\* backed_block_split of piece k: max_len in whole blocks, maybe none, stay in
\* the first half.
Split(l, k, max_len) ==
  LET m == (max_len \div BlockSize) * BlockSize
      rest == [l[k] EXCEPT !.len = @ - m, !.block = @ + m \div BlockSize,
                           !.off = IF l[k].type = "fill" THEN @ ELSE @ + m]
  IN  IF l[k].len <= m THEN l
      ELSE SubSeq(l, 1, k - 1) \o <<[l[k] EXCEPT !.len = m], rest>> \o SubSeq(l, k + 1, Len(l))

\* Mutant: the search for the place stops at the head.
MovedBehindHead(to, run) == IF to = <<>> THEN run ELSE <<Head(to)>> \o run \o Tail(to)
\* backed_block_list_move: the list to when run, pieces of another list, was
\* moved to it.  The place is never before the head of to.
Moved(to, run) ==
  IF run = <<>> THEN to
  ELSE IF to = <<>> THEN run
  ELSE LET k == CHOOSE k \in DOMAIN to :
                  /\ k = Len(to) \/ to[k + 1].block > run[1].block
                  /\ \A j \in 2 .. k : to[j].block <= run[1].block
       IN  SubSeq(to, 1, k) \o run \o SubSeq(to, k + 1, Len(to))
=============================================================================

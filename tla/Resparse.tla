------------------------------ MODULE Resparse ------------------------------
(***************************************************************************)
(* sparse_file_resparse: the pieces of a file are dealt out to files that  *)
(* are to stay below max_len each.  What a file takes is counted with an   *)
(* output that writes nothing.  A unit is four bytes.                      *)
(***************************************************************************)
EXTENDS BackedBlocks, FiniteSets

CONSTANTS
  Pieces,       \* what the program may queue
  MaxPieces,    \* bound: pieces it queues
  ImageBlocks,  \* s->len in blocks
  MaxLens,      \* arguments max_len, in units
  MaxOut,       \* bound: out_s_count
  MaxFiles      \* bound: rounds

ASSUME ResparseAssumption ==
  /\ MaxPieces \in Nat /\ ImageBlocks \in Nat
  /\ MaxLens \subseteq 0 .. 2^30 - 1      \* an unsigned int, of bytes
  /\ MaxOut \in Nat /\ MaxFiles \in Nat
  /\ \A p \in Pieces :
       /\ IsPiece(p) /\ EndOf(p) <= ImageBlocks
       /\ p.src # "hole"                   \* a name the model uses itself

VARIABLES
  in_s, last_used,       \* the list of the file, and where its next search starts
  added, want,           \* bound: pieces queued; history: the cells asked for
  pc,                    \* where the program is
  max_len, out_s_count,  \* the arguments
  at, last_bb, file_len, \* move_chunks_up_to_len: bb, the piece before, the sum
  more,                  \* it returned a piece
  s, out_s, tmp, c,      \* the round's file, the files, the surplus, rounds
  failed                 \* history: a write to the counting output failed

args == <<max_len, out_s_count>>
counting == <<at, last_bb, file_len>>
files == <<out_s, tmp, c>>
resparseVars == <<in_s, last_used, added, want, pc, args, counting, more, s, files, failed>>

Units == 0 .. ImageBlocks * BlockSize - 1
Hole == <<"hole", 0>>
UnitsOf(p) == p.block * BlockSize .. EndOf(p) * BlockSize - 1
None == 0

ResparseInit ==
  /\ in_s = <<>> /\ last_used = Unset /\ added = 0 /\ want = [u \in Units |-> Hole]
  /\ pc = "queue" /\ max_len = 0 /\ out_s_count = 0
  /\ at = 1 /\ last_bb = None /\ file_len = 0 /\ more = FALSE
  /\ s = <<>> /\ out_s = <<>> /\ tmp = <<>> /\ c = 0 /\ failed = FALSE

\* The program queues pieces, before and, when nothing failed, after.  (A
\* search from freed memory is in SparseFile.)
Queue(p) ==
  /\ pc \in {"queue", "done"} /\ ~failed /\ added < MaxPieces
  /\ \A u \in UnitsOf(p) : want[u] = Hole
  /\ ~(ReadsLastUsed(in_s, p) /\ last_used = Freed)
  /\ LET q == Queued(in_s, last_used, p) IN in_s' = q.list /\ last_used' = q.last
  /\ want' = [u \in Units |-> IF u \in UnitsOf(p) THEN CellOf(p, u - p.block * BlockSize) ELSE want[u]]
  /\ added' = added + 1
  /\ UNCHANGED <<pc, args, counting, more, s, files, failed>>

BeginRound == at' = 1 /\ last_bb' = None /\ file_len' = 0

Call ==
  /\ pc = "queue" /\ pc' = "count"
  /\ max_len' \in MaxLens /\ out_s_count' \in 0 .. MaxOut
  /\ BeginRound
  /\ UNCHANGED <<in_s, last_used, added, want, more, s, files, failed>>

-----------------------------------------------------------------------------
(* move_chunks_up_to_len.                                                  *)

SPARSE_HEADER == 7
CHUNK_HEADER == 3
\* Mutant: the skip at the end is forgotten.
OverheadShort == SPARSE_HEADER + 3 * CHUNK_HEADER + 1
\* The header, a skip in front, a split chunk, a skip at the end, a checksum.
Overhead == SPARSE_HEADER + 4 * CHUNK_HEADER + 1

\* An unsigned int, of bytes.
Room == (max_len - Overhead) % 2^30

\* What writing a piece adds to a sparse file.
CountOf(p) == CHUNK_HEADER + IF p.type = "fill" THEN 1 ELSE BlocksIn(p.len) * BlockSize

Fits == file_len + CountOf(in_s[at]) <= Room

CountPiece ==
  /\ pc = "count" /\ at <= Len(in_s) /\ Fits
  /\ file_len' = file_len + CountOf(in_s[at]) /\ last_bb' = at /\ at' = at + 1
  /\ UNCHANGED <<in_s, last_used, added, want, pc, args, more, s, files, failed>>

\* The first k pieces of list l become the file of the round.
Take(l, k) ==
  /\ s' = Moved(<<>>, SubSeq(l, 1, k)) /\ in_s' = SubSeq(l, k + 1, Len(l))
  /\ last_used' = IF k = 0 THEN last_used ELSE Unset
  /\ pc' = "store"
  /\ UNCHANGED <<added, want, args, counting, files>>

\* More than an eighth of the size is left; bytes are divided.
Splits == last_bb = None \/ 4 * (Room - file_len) > (4 * Room) \div 8

\* Mutant: the split chunk's header is taken off again.
SplitLenTwice == Room - file_len - CHUNK_HEADER
SplitLen == Room - file_len

Overflow ==
  /\ pc = "count" /\ at <= Len(in_s) /\ ~Fits
  /\ IF Splits THEN Take(Split(in_s, at, SplitLen), at) ELSE Take(in_s, last_bb)
  /\ more' = TRUE /\ UNCHANGED failed

EndOfList ==
  /\ pc = "count" /\ at > Len(in_s)
  /\ Take(in_s, Len(in_s))
  /\ more' = FALSE /\ UNCHANGED failed

\* The file of a piece cannot be opened or mapped: nothing is moved.
CounterFails ==
  /\ pc = "count" /\ at <= Len(in_s) /\ in_s[at].type \in {"file", "fd"}
  /\ pc' = "store" /\ more' = FALSE /\ failed' = TRUE
  /\ UNCHANGED <<in_s, last_used, added, want, args, counting, s, files>>

-----------------------------------------------------------------------------
(* sparse_file_resparse.                                                   *)

\* A file beyond the array is emptied into tmp.
Store ==
  /\ pc = "store" /\ c < MaxFiles
  /\ IF c < out_s_count THEN out_s' = Append(out_s, s) /\ UNCHANGED tmp
     ELSE tmp' = Moved(tmp, s) /\ UNCHANGED out_s
  /\ s' = <<>> /\ c' = c + 1
  /\ pc' = (IF more THEN "count" ELSE "return") /\ BeginRound
  /\ UNCHANGED <<in_s, last_used, added, want, args, more, failed>>

Return ==
  /\ pc = "return" /\ pc' = "done"
  /\ in_s' = Moved(in_s, tmp) /\ tmp' = <<>>
  /\ last_used' = IF tmp = <<>> THEN last_used ELSE Unset
  /\ UNCHANGED <<added, want, args, counting, more, s, out_s, c, failed>>

ResparseStep == CountPiece \/ Overflow \/ EndOfList \/ CounterFails \/ Store \/ Return
ResparseNext == (\E p \in Pieces : Queue(p)) \/ Call \/ ResparseStep
ResparseSpec == ResparseInit /\ [][ResparseNext]_resparseVars
\* One thread: it goes on while it can.
FairResparseSpec == ResparseSpec /\ WF_resparseVars(ResparseStep)

-----------------------------------------------------------------------------
(* Properties.                                                             *)

Lists == <<in_s, s, tmp>> \o out_s
PieceAt(u) ==
  UNION {{<<i, k>> : k \in {k \in DOMAIN Lists[i] : u \in UnitsOf(Lists[i][k])}} : i \in DOMAIN Lists}
Sorted(l) == \A k \in 1 .. Len(l) - 1 : EndOf(l[k]) <= l[k + 1].block

\* At every moment each cell the program queued is in one piece of one list,
\* with what it held, also when the counting output failed.
NothingLost ==
  \A u \in Units :
    /\ Cardinality(PieceAt(u)) = IF want[u] = Hole THEN 0 ELSE 1
    /\ \A ik \in PieceAt(u) :
         LET p == Lists[ik[1]][ik[2]] IN CellOf(p, u - p.block * BlockSize) = want[u]

\* Every list is sorted, and the next search in in_s starts at a piece that is
\* still there.  (After a failure pieces of tmp land behind the head of in_s.)
ListsUsable ==
  /\ ~failed => \A i \in DOMAIN Lists : Sorted(Lists[i])
  /\ last_used \in {Unset, Freed} \cup {in_s[k].block : k \in DOMAIN in_s}

\* sparse_file_len of a list that is a file of its own, with a checksum.
GapsIn(l) == {k \in DOMAIN l : k > 1 /\ l[k].block > EndOf(l[k - 1])}
SumOf(l) ==
  LET upto[k \in 0 .. Len(l)] == IF k = 0 THEN 0 ELSE upto[k - 1] + CountOf(l[k])
  IN  upto[Len(l)]
SizeOf(l) ==
  LET ends == IF l = <<>> THEN 1
              ELSE (IF l[1].block > 0 THEN 1 ELSE 0) + IF EndOf(l[Len(l)]) < ImageBlocks THEN 1 ELSE 0
  IN  SPARSE_HEADER + SumOf(l) + CHUNK_HEADER * (Cardinality(GapsIn(l)) + ends) + CHUNK_HEADER + 1

\* A max_len that holds a block.
LargeEnough == max_len >= Overhead + BlockSize

\* A file exceeds max_len by no more than its inner gaps, which the sum leaves
\* out; one that is followed by another falls short of it by no more than an
\* eighth or what does not make a block; and where an eighth is a block, no
\* split leaves a piece of no length, which could not be mapped.
FilesFit ==
  LargeEnough => \A i \in DOMAIN out_s :
    LET l == out_s[i]
    IN  /\ SizeOf(l) <= max_len + CHUNK_HEADER * Cardinality(GapsIn(l))
        /\ i < c => 8 * SumOf(l) >= 7 * Room \/ SumOf(l) > Room - BlockSize
        /\ Room >= 8 * BlockSize => \A k \in DOMAIN l : l[k].len > 0

\* Dealing out ends, unless max_len holds the overhead and less than a block:
\* one that does not hold the overhead wraps and is no limit at all.
ResparseEnds == pc = "count" /\ (LargeEnough \/ max_len < Overhead) ~> pc = "done"

-----------------------------------------------------------------------------
(* What a comment says and the code does not do.                           *)

\* "Splits chunks of an existing sparse file into smaller sparse files such
\* that each sparse file is less than max_len" (sparse.h); one that is as
\* long is allowed here, and so is any max_len too small for a block.
FilesBelowMaxLen == LargeEnough => \A i \in DOMAIN out_s : SizeOf(out_s[i]) <= max_len
=============================================================================

--------------------------- MODULE ResparseProofs ---------------------------
(***************************************************************************)
(* Proofs about Resparse, for every block size, image, set of pieces and   *)
(* max_len.                                                                *)
(***************************************************************************)
EXTENDS Resparse, BackedBlocksProofs

\* What a piece, whole, joined or split, can be.
Sources == {p.src : p \in Pieces}
Parts ==
  {r \in [type : PieceTypes, block : Nat, len : Nat, src : Sources, off : Nat] : EndOf(r) <= ImageBlocks}
Pieced == {r \in Parts : r.len # 0}

\* Every piece begins in a block that the program asked for.
Asked(w, u) == u \in Units /\ w[u] # Hole
Anchored(l, w) == \A k \in 1 .. Len(l) : Asked(w, l[k].block * BlockSize)
Sound(l, w) == l \in Seq(Parts) /\ Single(l) /\ Anchored(l, w)

\* The lists a, b, d and those of o share no unit and hold the cells of w.
Disjoint(a, b, d, o) ==
  /\ Clear(a, b) /\ Clear(a, d) /\ Clear(b, d)
  /\ \A i \in 1 .. Len(o) : Clear(a, o[i]) /\ Clear(b, o[i]) /\ Clear(d, o[i])
  /\ \A i, j \in 1 .. Len(o) : i # j => Clear(o[i], o[j])
Somewhere(a, b, d, o, u, v) ==
  Has(a, u, v) \/ Has(b, u, v) \/ Has(d, u, v) \/ \E i \in 1 .. Len(o) : Has(o[i], u, v)
Dealt(a, b, d, o, w) ==
  /\ Sound(a, w) /\ Sound(b, w) /\ Sound(d, w) /\ \A i \in 1 .. Len(o) : Sound(o[i], w)
  /\ Disjoint(a, b, d, o)
  /\ \A u, v : Somewhere(a, b, d, o, u, v) <=> u \in Units /\ v = w[u] /\ v # Hole

\* Sorted lists, what is in files lying before what is still to be dealt out.
InOrder(a, b, d, o) ==
  /\ Ordered(a) /\ Ordered(b) /\ Ordered(d) /\ \A i \in 1 .. Len(o) : Ordered(o[i])
  /\ Before(d, b) /\ Before(d, a) /\ Before(b, a)

\* The variables that are no lists, and what is empty where.
StateInv ==
  /\ pc \in {"queue", "count", "store", "return", "done"}
  /\ max_len \in 0 .. 2^30 - 1 /\ out_s_count \in Nat /\ c \in Nat
  /\ more \in BOOLEAN /\ failed \in BOOLEAN
  /\ out_s \in Seq(Seq(Parts))
  /\ Len(out_s) = IF c <= out_s_count THEN c ELSE out_s_count
  /\ pc # "store" => s = <<>>
  /\ pc \in {"queue", "done"} => tmp = <<>>
  /\ pc = "queue" => c = 0 /\ ~failed
  /\ pc = "count" => ~failed
  /\ failed => ~more

OrderInv ==
  /\ last_used \in Blocks(in_s) \cup {Unset, Freed}
  /\ ~failed =>
       /\ InOrder(in_s, s, tmp, out_s)
       /\ pc = "return" \/ (pc = "store" /\ ~more) => in_s = <<>>

\* The sum is that of the pieces in front of at, and fits.
CountInv ==
  pc = "count" =>
    /\ at \in 1 .. Len(in_s) + 1 /\ last_bb = at - 1
    /\ file_len = SumOf(SubSeq(in_s, 1, at - 1)) /\ file_len \in 0 .. Room

\* What is in a file is not too much, and not too little before the last one.
NotTooLong(l, room) == SumOf(l) <= room + CHUNK_HEADER
Filled(l, room) == 8 * SumOf(l) >= 7 * room \/ SumOf(l) > room - BlockSize
FilesInv ==
  LargeEnough =>
    /\ \A i \in 1 .. Len(out_s) :
         /\ NotTooLong(out_s[i], Room)
         /\ i < c \/ pc \in {"count", "store"} => Filled(out_s[i], Room)
    /\ pc = "store" => NotTooLong(s, Room) /\ (more => Filled(s, Room))

\* No split leaves a piece of no length where an eighth of a file is a block.
LengthInv ==
  pc = "queue" \/ (LargeEnough /\ Room >= 8 * BlockSize) =>
    /\ in_s \in Seq(Pieced) /\ s \in Seq(Pieced) /\ tmp \in Seq(Pieced)
    /\ \A i \in 1 .. Len(out_s) : out_s[i] \in Seq(Pieced)

CellsInv == Dealt(in_s, s, tmp, out_s, want)

ResparseInv == StateInv /\ CellsInv /\ OrderInv /\ CountInv /\ FilesInv /\ LengthInv

-----------------------------------------------------------------------------
(* Parts of pieces.                                                        *)

\* What a part holds is in the image, and something.
LEMMA PartHolds ==
  ASSUME NEW p \in Parts, NEW u, NEW v, Holds(p, u, v)
  PROVE  u \in Units /\ v # Hole
<1>1. BlockSize \in Nat \ {0} /\ ImageBlocks \in Nat
  BY BlockSizeAssumption, ResparseAssumption
<1>2. IsPart(p) /\ p.src \in Sources /\ p.off \in Nat /\ EndOf(p) <= ImageBlocks
  BY DEF Parts, IsPart
<1>3. p.block \in Nat /\ EndOf(p) \in Nat /\ p.block <= EndOf(p)
  BY <1>2, PartEnds
<1>4. PICK st \in Nat, e \in Nat, i \in Nat : st = p.block * BlockSize /\ e = EndOf(p) * BlockSize /\ i = ImageBlocks * BlockSize
  BY <1>1, <1>3, UnitOrder
<1>5. e <= i
  BY <1>1, <1>2, <1>3, <1>4, UnitOrder
<1>6. u \in st .. e - 1 /\ v = CellOf(p, u - st)
  BY <1>4 DEF Holds
<1>7. u \in Units
  BY <1>4, <1>5, <1>6 DEF Units
<1>8. u - st \in Nat /\ p.off + (u - st) \in Nat
  BY <1>2, <1>4, <1>6
<1>9. v \in Sources \X Nat \cup {Zero}
  BY <1>2, <1>6, <1>8 DEF CellOf
<1>10. "hole" \notin Sources
  BY ResparseAssumption DEF Sources
<1> QED BY <1>7, <1>9, <1>10 DEF Zero, Hole

LEMMA PartsClosed ==
  /\ MergeClosed(Parts) /\ SplitClosed(Parts) /\ MergeClosed(Pieced)
  /\ Pieces \subseteq Pieced /\ Pieced \subseteq Parts
<1>1. ASSUME NEW p \in Parts PROVE IsPart(p) /\ p.src \in Sources /\ EndOf(p) <= ImageBlocks
  BY DEF Parts, IsPart
<1>2. ASSUME NEW p, IsPart(p), p.src \in Sources, EndOf(p) <= ImageBlocks PROVE p \in Parts
  BY <1>2 DEF Parts, IsPart
<1>3. SplitClosed(Parts)
  <2>1. ASSUME NEW p \in Parts, NEW q, IsPart(q), EndOf(q) <= EndOf(p), q.src = p.src PROVE q \in Parts
    <3>1. EndOf(p) \in Nat /\ EndOf(q) \in Nat /\ ImageBlocks \in Nat
      BY <1>1, <2>1, PartEnds, ResparseAssumption
    <3>2. EndOf(q) <= ImageBlocks
      BY <1>1, <2>1, <3>1
    <3> QED BY <1>1, <1>2, <2>1, <3>2
  <2> QED BY <1>1, <2>1 DEF SplitClosed
<1>4. ASSUME NEW a \in Parts, NEW b \in Parts, Mergeable(a, b), EndOf(a) <= b.block
      PROVE  Join(a, b) \in Parts /\ Join(a, b).len = a.len + b.len
  BY <1>1, <1>2, <1>4, JoinIs
<1>5. MergeClosed(Parts)
  BY <1>1, <1>4 DEF MergeClosed
<1>6. MergeClosed(Pieced)
  <2>1. ASSUME NEW a \in Pieced, NEW b \in Pieced, Mergeable(a, b), EndOf(a) <= b.block PROVE Join(a, b) \in Pieced
    <3>1. a \in Parts /\ b \in Parts /\ a.len \in Nat \ {0} /\ b.len \in Nat \ {0}
      BY DEF Pieced, Parts
    <3>2. Join(a, b) \in Parts /\ Join(a, b).len = a.len + b.len
      BY <1>4, <2>1, <3>1
    <3> QED BY <3>1, <3>2 DEF Pieced
  <2> QED BY <1>1, <2>1 DEF MergeClosed, Pieced
<1>7. Pieces \subseteq Pieced
  <2>1. ASSUME NEW p \in Pieces PROVE p \in Pieced
    <3>1. IsPiece(p) /\ EndOf(p) <= ImageBlocks /\ p.src \in Sources
      BY ResparseAssumption DEF Sources
    <3> QED BY <1>2, <3>1, PieceIsPart DEF Pieced
  <2> QED BY <2>1
<1> QED BY <1>3, <1>5, <1>6, <1>7 DEF Pieced

\* The units a part covers are those it holds something in.
LEMMA HoldsOne ==
  ASSUME NEW p, NEW u
  PROVE  u \in UnitsOf(p) <=> \E v : Holds(p, u, v)
BY DEF Holds, UnitsOf

\* A part that begins where something was asked for, and covers nothing else,
\* lies beside a piece for which nothing was asked for yet.
LEMMA NewIsBeside ==
  ASSUME NEW q \in Parts, NEW p \in Pieces, NEW w, Asked(w, q.block * BlockSize),
         \A u \in UnitsOf(q) : Asked(w, u), \A u \in UnitsOf(p) : w[u] = Hole
  PROVE  Beside(q, p)
<1>1. q.block \in Nat /\ EndOf(q) \in Nat /\ p.block \in Nat /\ EndOf(p) \in Nat /\ p.block < EndOf(p)
  <2>1. IsPart(q) /\ IsPiece(p)
    BY PartsClosed, ResparseAssumption DEF MergeClosed
  <2> QED BY <2>1, PartEnds, EndIsBehind
<1>2. BlockSize \in Nat \ {0}
  BY BlockSizeAssumption
<1>3. ASSUME NEW b \in Nat, p.block <= b, b < EndOf(p) PROVE b * BlockSize \in UnitsOf(p)
  <2>1. PICK st \in Nat, e \in Nat, t \in Nat : st = p.block * BlockSize /\ e = EndOf(p) * BlockSize /\ t = b * BlockSize
    BY <1>1, UnitOrder
  <2>2. st <= t /\ t + BlockSize <= e
    BY <1>1, <1>3, <2>1, UnitOrder
  <2>3. t \in st .. e - 1
    BY <1>2, <2>1, <2>2
  <2> QED BY <2>1, <2>3 DEF UnitsOf
<1>4. ASSUME NEW b \in Nat, q.block <= b, b < EndOf(q) PROVE b * BlockSize \in UnitsOf(q)
  <2>1. PICK st \in Nat, e \in Nat, t \in Nat : st = q.block * BlockSize /\ e = EndOf(q) * BlockSize /\ t = b * BlockSize
    BY <1>1, UnitOrder
  <2>2. st <= t /\ t + BlockSize <= e
    BY <1>1, <1>4, <2>1, UnitOrder
  <2>3. t \in st .. e - 1
    BY <1>2, <2>1, <2>2
  <2> QED BY <2>1, <2>3 DEF UnitsOf
<1>5. ~(p.block <= q.block /\ q.block < EndOf(p))
  BY <1>1, <1>3 DEF Asked
<1>6. ~(q.block <= p.block /\ p.block < EndOf(q))
  <2>1. p.block * BlockSize \in UnitsOf(p)
    BY <1>1, <1>3
  <2> QED BY <1>1, <1>4, <2>1 DEF Asked
<1> QED BY <1>1, <1>5, <1>6 DEF Beside

-----------------------------------------------------------------------------
(* How lists change.                                                       *)

LEMMA EmptyList ==
  ASSUME NEW w
  PROVE  /\ Sound(<<>>, w) /\ Ordered(<<>>) /\ \A u, v : ~Has(<<>>, u, v)
         /\ \A l : Clear(<<>>, l) /\ Clear(l, <<>>) /\ Before(<<>>, l) /\ Before(l, <<>>)
<1>1. PICK e : e = <<>>
  OBVIOUS
<1>2. e \in Seq(Parts) /\ Len(e) = 0
  BY <1>1
<1>3. 1 .. 0 = {}
  OBVIOUS
<1> QED BY <1>1, <1>2, <1>3 DEF Sound, Single, Anchored, Ordered, Has, Clear, Before

\* The list of a program that queues one more piece.
LEMMA QueueDeals ==
  ASSUME NEW a, NEW b, NEW d, NEW o, NEW w, Dealt(a, b, d, o, w),
         Ordered(a), NEW p \in Pieces, \A u \in UnitsOf(p) : w[u] = Hole,
         NEW last \in Blocks(a) \cup {Unset, Freed},
         NEW w2, w2 = [u \in Units |-> IF u \in UnitsOf(p) THEN CellOf(p, u - p.block * BlockSize) ELSE w[u]]
  PROVE  LET q == Queued(a, last, p)
         IN  /\ Dealt(q.list, b, d, o, w2) /\ Ordered(q.list)
             /\ q.last \in Blocks(q.list) \cup {Unset, Freed}
             /\ a \in Seq(Pieced) => q.list \in Seq(Pieced)
<1> DEFINE q == Queued(a, last, p)
<1>1. p \in Parts /\ p \in Pieced /\ MergeClosed(Parts) /\ MergeClosed(Pieced) /\ a \in Seq(Parts)
  BY PartsClosed DEF Dealt, Sound
<1>2. ASSUME NEW k \in 1 .. Len(a) PROVE Beside(a[k], p)
  <2>1. a[k] \in Parts /\ Asked(w, a[k].block * BlockSize)
    BY <1>1 DEF Dealt, Sound, Anchored
  <2>2. ASSUME NEW u \in UnitsOf(a[k]) PROVE Asked(w, u)
    <3>1. PICK v : Has(a, u, v)
      BY HoldsOne DEF Has
    <3> QED BY <3>1 DEF Dealt, Somewhere, Asked
  <2> QED BY <2>1, <2>2, NewIsBeside
<1>3. /\ q.list \in Seq(Parts) /\ Ordered(q.list)
      /\ q.last \in Blocks(q.list) \cup {Unset, Freed}
      /\ Blocks(q.list) \subseteq Blocks(a) \cup {p.block}
      /\ \A u, v : Has(q.list, u, v) <=> Has(a, u, v) \/ Holds(p, u, v)
  BY <1>1, <1>2, QueuedKeeps
<1>4. a \in Seq(Pieced) => q.list \in Seq(Pieced)
  BY <1>1, <1>2, QueuedKeeps
<1> PICK l : l = q.list
  OBVIOUS
<1> HIDE DEF q
<1>5. ASSUME NEW u \in UnitsOf(p)
      PROVE  u \in Units /\ w2[u] = CellOf(p, u - p.block * BlockSize) /\ w2[u] # Hole /\ Holds(p, u, w2[u])
  <2>1. PICK v : Holds(p, u, v)
    BY HoldsOne
  <2>2. u \in Units /\ v # Hole /\ v = CellOf(p, u - p.block * BlockSize)
    BY <1>1, <2>1, PartHolds DEF Holds
  <2> QED BY <2>1, <2>2
<1>6. \A u : Asked(w, u) => Asked(w2, u)
  BY <1>5 DEF Asked
<1>7. \A r : Sound(r, w) => Sound(r, w2)
  BY <1>6 DEF Sound, Anchored
<1>8. Sound(l, w2)
  <2>1. Single(l)
    BY <1>1, <1>3, OrderedSingle DEF MergeClosed
  <2>2. Asked(w2, p.block * BlockSize)
    <3>1. IsPiece(p)
      BY ResparseAssumption
    <3>2. p.block \in Nat /\ EndOf(p) \in Nat /\ p.block < EndOf(p) /\ BlockSize \in Nat \ {0}
      BY <3>1, EndIsBehind, BlockSizeAssumption
    <3>3. PICK st \in Nat, e \in Nat : st = p.block * BlockSize /\ e = EndOf(p) * BlockSize
      BY <3>2, UnitOrder
    <3>4. st + BlockSize <= e
      BY <3>2, <3>3, UnitOrder
    <3>5. st \in st .. e - 1
      BY <3>2, <3>3, <3>4
    <3> QED BY <1>5, <3>3, <3>5 DEF UnitsOf, Asked
  <2>3. ASSUME NEW k \in 1 .. Len(l) PROVE Asked(w2, l[k].block * BlockSize)
    <3>1. l[k].block \in Blocks(a) \cup {p.block}
      BY <1>3 DEF Blocks
    <3>2. CASE l[k].block \in Blocks(a)
      BY <1>6, <3>2 DEF Blocks, Dealt, Sound, Anchored
    <3> QED BY <2>2, <3>1, <3>2
  <2> QED BY <1>3, <2>1, <2>3 DEF Sound, Anchored
<1>9. ASSUME NEW u, NEW v, Holds(p, u, v)
      PROVE  \A x : ~Has(a, u, x) /\ ~Has(b, u, x) /\ ~Has(d, u, x) /\ \A i \in 1 .. Len(o) : ~Has(o[i], u, x)
  <2>1. u \in UnitsOf(p)
    BY <1>9, HoldsOne
  <2>2. w[u] = Hole
    BY <2>1
  <2> QED BY <2>2 DEF Dealt, Somewhere
<1>10. /\ Clear(l, b) /\ Clear(l, d)
       /\ \A i \in 1 .. Len(o) : Clear(l, o[i])
  <2>1. ASSUME NEW u, NEW v, Has(l, u, v) PROVE Has(a, u, v) \/ Holds(p, u, v)
    BY <1>3, <2>1
  <2> QED BY <1>9, <2>1 DEF Clear, Dealt, Disjoint
<1>11. Disjoint(l, b, d, o)
  BY <1>10 DEF Dealt, Disjoint
<1>12. ASSUME NEW u, NEW v
       PROVE  Somewhere(l, b, d, o, u, v) <=> u \in Units /\ v = w2[u] /\ v # Hole
  <2>1. Somewhere(l, b, d, o, u, v) <=> Somewhere(a, b, d, o, u, v) \/ Holds(p, u, v)
    BY <1>3 DEF Somewhere
  <2>2. Somewhere(a, b, d, o, u, v) <=> u \in Units /\ v = w[u] /\ v # Hole
    BY DEF Dealt
  <2>3. CASE u \in UnitsOf(p)
    <3>1. Holds(p, u, v) <=> v = w2[u]
      BY <1>5, <2>3 DEF Holds, UnitsOf
    <3>2. w[u] = Hole /\ u \in Units /\ w2[u] # Hole
      BY <1>5, <2>3
    <3> QED BY <2>1, <2>2, <3>1, <3>2
  <2>4. CASE u \notin UnitsOf(p)
    <3>1. ~Holds(p, u, v)
      BY <2>4, HoldsOne
    <3>2. u \in Units => w2[u] = w[u]
      BY <2>4
    <3> QED BY <2>1, <2>2, <3>1, <3>2
  <2> QED BY <2>3, <2>4
<1>13. Dealt(l, b, d, o, w2)
  <2>1. Sound(b, w2) /\ Sound(d, w2) /\ \A i \in 1 .. Len(o) : Sound(o[i], w2)
    BY <1>7 DEF Dealt
  <2> QED BY <1>8, <1>11, <1>12, <2>1 DEF Dealt
<1> QED BY <1>3, <1>4, <1>13 DEF q

\* The list is replaced by one that holds the same.
LEMMA SameDeals ==
  ASSUME NEW a, NEW b, NEW d, NEW o, NEW w, Dealt(a, b, d, o, w), NEW l, Sound(l, w),
         \A u, v : Has(l, u, v) <=> Has(a, u, v)
  PROVE  Dealt(l, b, d, o, w)
BY DEF Dealt, Disjoint, Somewhere, Clear

\* The list is cut, the round's file being empty.
LEMMA CutDeals ==
  ASSUME NEW a, NEW d, NEW o, NEW w, Dealt(a, <<>>, d, o, w), NEW k \in 0 .. Len(a)
  PROVE  Dealt(SubSeq(a, k + 1, Len(a)), SubSeq(a, 1, k), d, o, w)
<1> PICK x : x = SubSeq(a, 1, k)
  OBVIOUS
<1> PICK y : y = SubSeq(a, k + 1, Len(a))
  OBVIOUS
<1>1. a \in Seq(Parts) /\ Single(a) /\ Anchored(a, w)
  BY DEF Dealt, Sound
<1>2. /\ x \in Seq(Parts) /\ Len(x) = k /\ \A i \in 1 .. k : x[i] = a[i]
      /\ y \in Seq(Parts) /\ Len(y) = Len(a) - k /\ \A i \in 1 .. Len(a) - k : y[i] = a[k + i]
      /\ \A u, v : Has(a, u, v) <=> Has(x, u, v) \/ Has(y, u, v)
      /\ Single(x) /\ Single(y) /\ Clear(x, y)
  BY <1>1, CutIs
<1>3. Sound(x, w) /\ Sound(y, w)
  <2>1. \A i \in 1 .. k : i \in 1 .. Len(a)
    OBVIOUS
  <2>2. \A i \in 1 .. Len(a) - k : k + i \in 1 .. Len(a)
    OBVIOUS
  <2>3. Anchored(x, w)
    BY <1>1, <1>2, <2>1 DEF Anchored
  <2>4. Anchored(y, w)
    BY <1>1, <1>2, <2>2 DEF Anchored
  <2> QED BY <1>2, <2>3, <2>4 DEF Sound
<1>4. \A u, v : ~Has(<<>>, u, v)
  BY EmptyList
<1>5. Disjoint(y, x, d, o)
  BY <1>2 DEF Dealt, Disjoint, Clear
<1>6. \A u, v : Somewhere(y, x, d, o, u, v) <=> Somewhere(a, <<>>, d, o, u, v)
  BY <1>2, <1>4 DEF Somewhere
<1> QED BY <1>3, <1>5, <1>6 DEF Dealt

\* The round's file goes into the array.
LEMMA AppendDeals ==
  ASSUME NEW a, NEW b, NEW d, NEW o \in Seq(Seq(Parts)), NEW w, Dealt(a, b, d, o, w)
  PROVE  Dealt(a, <<>>, d, Append(o, b), w)
<1> PICK n \in Nat : n = Len(o)
  OBVIOUS
<1> PICK z : z = Append(o, b)
  OBVIOUS
<1>1. Len(z) = n + 1 /\ z[n + 1] = b /\ \A i \in 1 .. n : z[i] = o[i]
  OBVIOUS
<1>2. \A i : i \in 1 .. n + 1 <=> i \in 1 .. n \/ i = n + 1
  OBVIOUS
<1>3. \A i \in 1 .. Len(z) : Sound(z[i], w)
  BY <1>1, <1>2 DEF Dealt
<1>4. Disjoint(a, <<>>, d, z)
  <2>1. \A x, y : Clear(x, y) => Clear(y, x)
    BY DEF Clear
  <2>2. n + 1 \notin 1 .. n
    OBVIOUS
  <2>3. \A i \in 1 .. Len(z) : Clear(a, z[i]) /\ Clear(d, z[i])
    BY <1>1, <1>2, <2>1 DEF Dealt, Disjoint
  <2>4. \A i, j \in 1 .. Len(z) : i # j => Clear(z[i], z[j])
    BY <1>1, <1>2, <2>1, <2>2 DEF Dealt, Disjoint
  <2> QED BY <2>3, <2>4, EmptyList DEF Dealt, Disjoint
<1>5. \A u, v : Somewhere(a, <<>>, d, z, u, v) <=> Somewhere(a, b, d, o, u, v)
  <2>1. \A u, v : (\E i \in 1 .. Len(z) : Has(z[i], u, v)) <=> Has(b, u, v) \/ \E i \in 1 .. Len(o) : Has(o[i], u, v)
    BY <1>1, <1>2
  <2>2. \A u, v : ~Has(<<>>, u, v)
    BY EmptyList
  <2> QED BY <2>1, <2>2 DEF Somewhere
<1> QED BY <1>3, <1>4, <1>5, EmptyList DEF Dealt

LEMMA MovedSound ==
  ASSUME NEW to, NEW run, NEW w, Sound(to, w), Sound(run, w), Clear(to, run)
  PROVE  Sound(Moved(to, run), w) /\ \A u, v : Has(Moved(to, run), u, v) <=> Has(to, u, v) \/ Has(run, u, v)
<1> PICK m : m = Moved(to, run)
  OBVIOUS
<1>1. to \in Seq(Parts) /\ run \in Seq(Parts) /\ Single(to) /\ Single(run) /\ \A p \in Parts : IsPart(p)
  BY PartsClosed DEF Sound, MergeClosed
<1>2. /\ m \in Seq(Parts)
      /\ \A j \in 1 .. Len(m) : \/ \E i \in 1 .. Len(to) : m[j] = to[i]
                               \/ \E i \in 1 .. Len(run) : m[j] = run[i]
      /\ \A u, v : Has(m, u, v) <=> Has(to, u, v) \/ Has(run, u, v)
      /\ Single(m)
  BY <1>1, MovedKeeps
<1>3. Anchored(m, w)
  BY <1>2 DEF Anchored, Sound
<1> QED BY <1>2, <1>3 DEF Sound

\* It goes into the surplus.
LEMMA SurplusDeals ==
  ASSUME NEW a, NEW b, NEW d, NEW o, NEW w, Dealt(a, b, d, o, w)
  PROVE  Dealt(a, <<>>, Moved(d, b), o, w)
<1> PICK m : m = Moved(d, b)
  OBVIOUS
<1>1. Sound(d, w) /\ Sound(b, w) /\ Clear(d, b)
  BY DEF Dealt, Disjoint, Clear
<1>2. Sound(m, w) /\ \A u, v : Has(m, u, v) <=> Has(d, u, v) \/ Has(b, u, v)
  BY <1>1, MovedSound
<1>3. Disjoint(a, <<>>, m, o)
  <2>1. Clear(a, m) /\ \A i \in 1 .. Len(o) : Clear(m, o[i])
    BY <1>2 DEF Dealt, Disjoint, Clear
  <2> QED BY <2>1, EmptyList DEF Dealt, Disjoint
<1>4. \A u, v : Somewhere(a, <<>>, m, o, u, v) <=> Somewhere(a, b, d, o, u, v)
  BY <1>2, EmptyList DEF Somewhere
<1> QED BY <1>2, <1>3, <1>4, EmptyList DEF Dealt

\* The surplus goes back.
LEMMA ReturnDeals ==
  ASSUME NEW a, NEW b, NEW d, NEW o, NEW w, Dealt(a, b, d, o, w)
  PROVE  Dealt(Moved(a, d), b, <<>>, o, w)
<1> PICK m : m = Moved(a, d)
  OBVIOUS
<1>1. Sound(a, w) /\ Sound(d, w) /\ Clear(a, d)
  BY DEF Dealt, Disjoint
<1>2. Sound(m, w) /\ \A u, v : Has(m, u, v) <=> Has(a, u, v) \/ Has(d, u, v)
  BY <1>1, MovedSound
<1>3. Disjoint(m, b, <<>>, o)
  <2>1. Clear(m, b) /\ \A i \in 1 .. Len(o) : Clear(m, o[i])
    BY <1>2 DEF Dealt, Disjoint, Clear
  <2> QED BY <2>1, EmptyList DEF Dealt, Disjoint
<1>4. \A u, v : Somewhere(m, b, <<>>, o, u, v) <=> Somewhere(a, b, d, o, u, v)
  BY <1>2, EmptyList DEF Somewhere
<1> QED BY <1>2, <1>3, <1>4, EmptyList DEF Dealt

\* backed_block_split in the list.
LEMMA SplitDeals ==
  ASSUME NEW a, NEW b, NEW d, NEW o, NEW w, Dealt(a, b, d, o, w), NEW k \in 1 .. Len(a), NEW max_len_ \in Nat
  PROVE  LET t == Split(a, k, max_len_)
             m == (max_len_ \div BlockSize) * BlockSize
         IN  /\ Dealt(t, b, d, o, w) /\ k \in 1 .. Len(t)
             /\ \A i \in 1 .. k - 1 : t[i] = a[i]
             /\ m \in Nat /\ m <= max_len_ /\ max_len_ < m + BlockSize
             /\ \/ a[k].len <= m /\ t = a
                \/ /\ a[k].len > m /\ t[k].type = a[k].type /\ t[k].len = m
                   /\ \A i \in k + 1 .. Len(t) : t[i].len = a[k].len - m \/ \E j \in 1 .. Len(a) : t[i] = a[j]
             /\ \A x : Ordered(a) /\ Before(x, a) => Ordered(t) /\ (x \in Seq(Parts) => Before(x, t))
<1> DEFINE m == (max_len_ \div BlockSize) * BlockSize
<1> PICK t : t = Split(a, k, max_len_)
  OBVIOUS
<1>1. a \in Seq(Parts) /\ Single(a) /\ Anchored(a, w) /\ \A r \in Parts : IsPart(r)
  BY PartsClosed DEF Dealt, Sound, MergeClosed
<1>2. /\ t \in Seq(Parts) /\ k \in 1 .. Len(t) /\ m \in Nat /\ m <= max_len_ /\ max_len_ < m + BlockSize
      /\ IF a[k].len <= m THEN t = a
         ELSE /\ Len(t) = Len(a) + 1 /\ t[k] = FirstHalf(a[k], m) /\ t[k + 1] = SecondHalf(a[k], m)
              /\ \A i \in 1 .. k - 1 : t[i] = a[i]
              /\ \A i \in k + 1 .. Len(a) : t[i + 1] = a[i]
      /\ \A u, v : Has(t, u, v) <=> Has(a, u, v)
      /\ Single(t)
      /\ Ordered(a) => Ordered(t)
  <2>1. SplitClosed(Parts)
    BY PartsClosed
  <2>2. LET u == Split(a, k, max_len_)
            n == (max_len_ \div BlockSize) * BlockSize
        IN  /\ u \in Seq(Parts) /\ k \in 1 .. Len(u) /\ n \in Nat /\ n <= max_len_ /\ max_len_ < n + BlockSize
            /\ IF a[k].len <= n THEN u = a
               ELSE /\ Len(u) = Len(a) + 1 /\ u[k] = FirstHalf(a[k], n) /\ u[k + 1] = SecondHalf(a[k], n)
                    /\ \A i \in 1 .. k - 1 : u[i] = a[i]
                    /\ \A i \in k + 1 .. Len(a) : u[i + 1] = a[i]
            /\ \A u_, c_ : Has(u, u_, c_) <=> Has(a, u_, c_)
            /\ Single(a) => Single(u)
            /\ Ordered(a) => Ordered(u)
    BY <1>1, <2>1, SplitKeeps
  <2> QED BY <1>1, <2>2
<1>3. CASE a[k].len <= m
  <2>1. t = a
    BY <1>2, <1>3
  <2>2. Dealt(t, b, d, o, w) /\ \A i \in 1 .. k - 1 : t[i] = a[i]
    BY <2>1
  <2> HIDE DEF m
  <2> QED BY <1>2, <1>3, <2>1, <2>2 DEF m
<1>4. CASE ~(a[k].len <= m)
  <2>1. PICK p \in Parts : p = a[k] /\ IsPart(p) /\ p.len \in Nat /\ p.len > m
    <3>1. a[k] \in Parts /\ IsPart(a[k])
      BY <1>1
    <3> HIDE DEF m
    <3>2. a[k].len \in Nat
      BY <3>1 DEF IsPart
    <3> QED BY <1>2, <1>4, <3>1, <3>2
  <2>2. PICK bl \in Nat : m = bl * BlockSize
    <3>1. max_len_ \div BlockSize \in Nat
      BY BlockSizeAssumption, DivMod
    <3> QED BY <3>1
  <2> HIDE DEF m
  <2>3. PICK first : first = FirstHalf(p, m)
    OBVIOUS
  <2>4. PICK rest : rest = SecondHalf(p, m)
    OBVIOUS
  <2>5. /\ IsPart(first) /\ IsPart(rest)
        /\ first.type = p.type /\ first.block = p.block /\ first.len = m
        /\ rest.len = p.len - m /\ rest.len \in Nat \ {0}
        /\ EndOf(first) = rest.block /\ EndOf(rest) = EndOf(p)
        /\ \A u, v : Holds(p, u, v) <=> Holds(first, u, v) \/ Holds(rest, u, v)
    BY <2>1, <2>2, <2>3, <2>4, HalvesAre
  <2>6. /\ Len(t) = Len(a) + 1 /\ t[k] = first /\ t[k + 1] = rest
        /\ \A i \in 1 .. k - 1 : t[i] = a[i]
        /\ \A i \in k + 1 .. Len(a) : t[i + 1] = a[i]
    BY <1>2, <1>4, <2>1, <2>3, <2>4
  <2>7. ASSUME NEW i \in 1 .. Len(t)
        PROVE  \/ i = k
               \/ i = k + 1
               \/ i < k /\ i \in 1 .. Len(a) /\ t[i] = a[i]
               \/ i > k + 1 /\ \E j \in 1 .. Len(a) : t[i] = a[j]
    <3>1. CASE i < k
      BY <2>6, <3>1
    <3>2. CASE i > k + 1
      <4>1. i - 1 \in k + 1 .. Len(a) /\ (i - 1) + 1 = i /\ i - 1 \in 1 .. Len(a)
        BY <2>6, <3>2
      <4> QED BY <2>6, <3>2, <4>1
    <3> QED BY <3>1, <3>2
  <2>8. Asked(w, rest.block * BlockSize)
    <3>1. rest.block \in Nat /\ EndOf(rest) \in Nat /\ BlockSize \in Nat \ {0} /\ rest.block < EndOf(rest)
      <4>1. IsPiece(rest)
        BY <2>5, PieceIsPart
      <4> QED BY <4>1, EndIsBehind, BlockSizeAssumption
    <3>2. PICK x \in Nat, e \in Nat : x = rest.block * BlockSize /\ e = EndOf(rest) * BlockSize
      BY <3>1, UnitOrder
    <3>3. x + BlockSize <= e
      BY <3>1, <3>2, UnitOrder
    <3>4. x \in x .. e - 1
      BY <3>1, <3>2, <3>3, SMTT(60)
    <3>5. PICK v : Holds(rest, x, v)
      BY <3>2, <3>4 DEF Holds
    <3>6. Has(a, x, v)
      BY <2>1, <2>5, <3>5 DEF Has
    <3> QED BY <3>2, <3>6 DEF Dealt, Somewhere, Asked
  <2>9. Sound(t, w)
    <3>1. ASSUME NEW i \in 1 .. Len(t) PROVE Asked(w, t[i].block * BlockSize)
      BY <1>1, <2>1, <2>5, <2>6, <2>7, <2>8 DEF Anchored
    <3> QED BY <1>2, <3>1 DEF Sound, Anchored
  <2>10. Dealt(t, b, d, o, w)
    BY <1>2, <2>9, SameDeals
  <2>11. ASSUME NEW x, Before(x, a), x \in Seq(Parts) PROVE Before(x, t)
    <3>1. ASSUME NEW i \in 1 .. Len(x) PROVE EndOf(x[i]) <= rest.block
      <4>1. EndOf(x[i]) <= p.block
        BY <2>1, <2>11 DEF Before
      <4>2. p.block <= rest.block /\ p.block \in Nat /\ rest.block \in Nat
        BY <2>5, PartEnds
      <4>3. EndOf(x[i]) \in Nat
        <5>1. x[i] \in Parts
          BY <2>11
        <5> QED BY <1>1, <5>1, PartEnds
      <4> QED BY <4>1, <4>2, <4>3
    <3>2. ASSUME NEW i \in 1 .. Len(x), NEW j \in 1 .. Len(t) PROVE EndOf(x[i]) <= t[j].block
      <4>1. CASE j = k
        BY <2>1, <2>5, <2>6, <2>11, <4>1 DEF Before
      <4>2. CASE j = k + 1
        BY <2>6, <3>1, <4>2
      <4>3. CASE j # k /\ j # k + 1
        <5>1. PICK h \in 1 .. Len(a) : t[j] = a[h]
          BY <2>7, <4>3
        <5> QED BY <2>11, <5>1 DEF Before
      <4> QED BY <4>1, <4>2, <4>3
    <3> QED BY <3>2 DEF Before
  <2>12. \A i \in k + 1 .. Len(t) : t[i].len = p.len - m \/ \E j \in 1 .. Len(a) : t[i] = a[j]
    <3>1. ASSUME NEW i \in k + 1 .. Len(t) PROVE t[i].len = p.len - m \/ \E j \in 1 .. Len(a) : t[i] = a[j]
      <4>1. i \in 1 .. Len(t) /\ i # k /\ ~(i < k)
        OBVIOUS
      <4> QED BY <2>5, <2>6, <2>7, <4>1
    <3> QED BY <3>1
  <2> QED BY <1>2, <2>1, <2>5, <2>6, <2>10, <2>11, <2>12 DEF m
<1> QED BY <1>3, <1>4

\* The same changes leave the lists in order.
LEMMA CutOrder ==
  ASSUME NEW a \in Seq(Parts), NEW d, NEW o, InOrder(a, <<>>, d, o), NEW k \in 0 .. Len(a)
  PROVE  InOrder(SubSeq(a, k + 1, Len(a)), SubSeq(a, 1, k), d, o)
<1> PICK x : x = SubSeq(a, 1, k)
  OBVIOUS
<1> PICK y : y = SubSeq(a, k + 1, Len(a))
  OBVIOUS
<1>1. /\ Len(x) = k /\ \A i \in 1 .. k : x[i] = a[i]
      /\ Len(y) = Len(a) - k /\ \A i \in 1 .. Len(a) - k : y[i] = a[k + i]
      /\ Ordered(x) /\ Ordered(y) /\ Before(x, y)
  BY CutIs DEF InOrder
<1>2. \A i \in 1 .. k : i \in 1 .. Len(a)
  OBVIOUS
<1>3. \A i \in 1 .. Len(a) - k : k + i \in 1 .. Len(a)
  OBVIOUS
<1>4. Before(d, x)
  BY <1>1, <1>2 DEF InOrder, Before
<1>5. Before(d, y)
  BY <1>1, <1>3 DEF InOrder, Before
<1> QED BY <1>1, <1>4, <1>5 DEF InOrder

LEMMA AppendOrder ==
  ASSUME NEW a, NEW b, NEW d, NEW o \in Seq(Seq(Parts)), InOrder(a, b, d, o)
  PROVE  InOrder(a, <<>>, d, Append(o, b))
<1> PICK n \in Nat : n = Len(o)
  OBVIOUS
<1> PICK z : z = Append(o, b)
  OBVIOUS
<1>1. Len(z) = n + 1 /\ z[n + 1] = b /\ \A i \in 1 .. n : z[i] = o[i]
  OBVIOUS
<1>2. \A i : i \in 1 .. n + 1 <=> i \in 1 .. n \/ i = n + 1
  OBVIOUS
<1>3. \A i \in 1 .. Len(z) : Ordered(z[i])
  BY <1>1, <1>2 DEF InOrder
<1> QED BY <1>3, EmptyList DEF InOrder

LEMMA SurplusOrder ==
  ASSUME NEW a, NEW b \in Seq(Parts), NEW d \in Seq(Parts), NEW o, InOrder(a, b, d, o)
  PROVE  InOrder(a, <<>>, Moved(d, b), o)
<1> PICK m : m = Moved(d, b)
  OBVIOUS
<1>1. \A p \in Parts : IsPart(p)
  BY PartsClosed DEF MergeClosed
<1>2. /\ \A j \in 1 .. Len(m) : \/ \E i \in 1 .. Len(d) : m[j] = d[i]
                               \/ \E i \in 1 .. Len(b) : m[j] = b[i]
      /\ Ordered(m)
  BY <1>1, MovedKeeps DEF InOrder
<1>3. Before(m, a)
  BY <1>2 DEF InOrder, Before
<1> QED BY <1>2, <1>3, EmptyList DEF InOrder

LEMMA ReturnOrder ==
  ASSUME NEW d \in Seq(Parts), NEW o, InOrder(<<>>, <<>>, d, o)
  PROVE  InOrder(Moved(<<>>, d), <<>>, <<>>, o)
<1>1. Moved(<<>>, d) = d
  BY DEF Moved
<1> QED BY <1>1, EmptyList DEF InOrder

-----------------------------------------------------------------------------
(* What writing a list adds to a file.                                     *)

LEMMA CountIs ==
  ASSUME NEW p \in Parts
  PROVE  /\ CountOf(p) \in Nat
         /\ p.type = "fill" => CountOf(p) = 4
         /\ p.type # "fill" => CountOf(p) = 3 + BlocksIn(p.len) * BlockSize
         /\ BlocksIn(p.len) \in Nat /\ BlocksIn(p.len) * BlockSize \in Nat
<1>1. BlocksIn(p.len) \in Nat
  BY BlocksInBounds DEF Parts
<1>2. PICK x \in Nat : x = BlocksIn(p.len) * BlockSize
  BY <1>1, UnitOrder
<1> QED BY <1>1, <1>2 DEF CountOf, CHUNK_HEADER

\* A whole piece that is no longer than n, in whole blocks, or as much of it.
LEMMA HalfCounts ==
  ASSUME NEW p \in Parts, NEW q \in Parts, NEW n \in Nat \ {0}, NEW b \in Nat,
         b * BlockSize <= n, n < b * BlockSize + BlockSize,
         q.type = p.type, (q = p /\ p.len <= b * BlockSize) \/ q.len = b * BlockSize
  PROVE  /\ CountOf(q) \in Nat /\ CountOf(q) <= n + 3
         /\ CountOf(q) = CountOf(p) \/ CountOf(q) > n - BlockSize
<1>1. /\ CountOf(q) \in Nat
      /\ q.type = "fill" => CountOf(q) = 4 /\ CountOf(p) = 4
      /\ q.type # "fill" => CountOf(q) = 3 + BlocksIn(q.len) * BlockSize
  BY CountIs
<1>2. PICK m \in Nat : m = b * BlockSize
  BY UnitOrder
<1>3. BlockSize \in Nat \ {0} /\ q.len \in Nat
  BY BlockSizeAssumption DEF Parts
<1>4. q.len = m => BlocksIn(q.len) * BlockSize = m
  BY <1>2, <1>3, BlocksInIs
<1>5. q.len <= m => BlocksIn(q.len) * BlockSize <= m
  <2>1. PICK c_ \in Nat : c_ = BlocksIn(q.len) /\ c_ * BlockSize < q.len + BlockSize
    BY <1>3, BlocksInBounds
  <2>2. PICK x \in Nat : x = c_ * BlockSize
    BY <2>1, UnitOrder
  <2>3. b < c_ => m + BlockSize <= x
    BY <1>2, <2>1, <2>2, UnitOrder
  <2>4. c_ <= b => x <= m
    BY <1>2, <2>1, <2>2, UnitOrder
  <2> QED BY <1>2, <1>3, <2>1, <2>2, <2>3, <2>4
<1>6. PICK x : x = BlocksIn(q.len) * BlockSize
  OBVIOUS
<1>7. x \in Nat
  BY <1>3, <1>6, CountIs
<1>8. CASE q.type = "fill"
  BY <1>1, <1>8
<1>9. CASE q.type # "fill"
  BY <1>1, <1>2, <1>3, <1>4, <1>5, <1>6, <1>7, <1>9
<1> QED BY <1>8, <1>9

\* SumOf adds up the pieces.
LEMMA SumOfIs ==
  ASSUME NEW l \in Seq(Parts)
  PROVE  \E f : Sums(Len(l), [k \in 1 .. Len(l) |-> CountOf(l[k])], f) /\ SumOf(l) = f[Len(l)]
<1> DEFINE n == Len(l)
           a == [k \in 1 .. n |-> CountOf(l[k])]
<1>1. n \in Nat /\ \A k \in 1 .. n : l[k] \in Parts /\ CountOf(l[k]) \in Nat
  BY CountIs
<1>2. a \in [1 .. n -> Nat] /\ \A k \in 1 .. n : a[k] = CountOf(l[k])
  BY <1>1
<1> HIDE DEF a
<1>3. PICK f : Sums(n, a, f)
  <2> HIDE DEF n
  <2> QED BY <1>1, <1>2, SumsExist
<1> DEFINE Eq(u) == u = [k \in 0 .. n |-> IF k = 0 THEN 0 ELSE u[k - 1] + CountOf(l[k])]
           upto == CHOOSE u : Eq(u)
<1>4. Eq(f)
  <2>1. f \in [0 .. n -> Nat] /\ f[0] = 0 /\ \A k \in 1 .. n : f[k] = f[k - 1] + CountOf(l[k])
    BY <1>2, <1>3 DEF Sums
  <2>2. \A k \in 0 .. n : f[k] = IF k = 0 THEN 0 ELSE f[k - 1] + CountOf(l[k])
    BY <1>1, <2>1
  <2>3. f = [k \in 0 .. n |-> f[k]]
    BY <2>1
  <2> QED BY <2>2, <2>3
<1>5. Eq(upto)
  <2> HIDE DEF Eq
  <2>1. \E u : Eq(u)
    BY <1>4
  <2> QED BY <2>1
<1>6. SumOf(l) = upto[n]
  BY DEF SumOf
<1> HIDE DEF upto
<1>7. upto[0] = 0 /\ \A k \in 1 .. n : upto[k] = upto[k - 1] + a[k]
  BY <1>1, <1>2, <1>5
<1>8. \A k \in 0 .. n : upto[k] = f[k]
  <2> HIDE DEF n, Eq
  <2> QED BY <1>1, <1>3, <1>7, SumsUnique
<1>9. SumOf(l) = f[n]
  <2> HIDE DEF Eq
  <2> QED BY <1>1, <1>6, <1>8
<1> QED
  <2> HIDE DEF Eq
  <2> QED BY <1>3, <1>9, Zenon DEF a

LEMMA SumOfNat ==
  ASSUME NEW l \in Seq(Parts)
  PROVE  SumOf(l) \in Nat /\ (l = <<>> => SumOf(l) = 0)
<1>1. PICK n \in Nat : n = Len(l)
  OBVIOUS
<1>2. PICK f : Sums(n, [k \in 1 .. n |-> CountOf(l[k])], f) /\ SumOf(l) = f[n]
  BY <1>1, SumOfIs
<1>3. f \in [0 .. n -> Nat] /\ f[0] = 0 /\ n \in 0 .. n
  BY <1>1, <1>2 DEF Sums
<1>4. l = <<>> => n = 0
  BY <1>1
<1> QED BY <1>2, <1>3, <1>4

\* One more piece.
LEMMA SumOfMore ==
  ASSUME NEW l \in Seq(Parts), NEW m \in Seq(Parts), NEW n \in Nat, n = Len(l), Len(m) = n + 1,
         \A k \in 1 .. n : m[k] = l[k]
  PROVE  SumOf(m) = SumOf(l) + CountOf(m[n + 1])
<1>1. PICK a : a = [k \in 1 .. n |-> CountOf(l[k])]
  OBVIOUS
<1>2. PICK b : b = [k \in 1 .. n + 1 |-> CountOf(m[k])]
  OBVIOUS
<1>3. PICK f : Sums(n, a, f) /\ SumOf(l) = f[n]
  BY <1>1, SumOfIs
<1>4. PICK g : Sums(n + 1, b, g) /\ SumOf(m) = g[n + 1]
  BY <1>2, SumOfIs
<1>5. g[0] = 0 /\ \A k \in 1 .. n + 1 : g[k] = g[k - 1] + b[k]
  BY <1>4 DEF Sums
<1>6. \A k \in 1 .. n : k \in 1 .. n + 1 /\ a[k] = b[k]
  BY <1>1, <1>2
<1>7. \A k \in 0 .. n : g[k] = f[k]
  <2>1. \A k \in 1 .. n : g[k] = g[k - 1] + a[k]
    BY <1>5, <1>6
  <2> QED BY <1>3, <1>5, <2>1, SumsUnique
<1>8. n + 1 \in 1 .. n + 1 /\ (n + 1) - 1 = n /\ n \in 0 .. n
  OBVIOUS
<1>9. b[n + 1] = CountOf(m[n + 1])
  BY <1>2, <1>8
<1>10. g[n + 1] = g[n] + b[n + 1]
  BY <1>5, <1>8
<1> QED BY <1>3, <1>4, <1>7, <1>8, <1>9, <1>10

-----------------------------------------------------------------------------
(* The invariant.                                                          *)

LEMMA RoomIs ==
  ASSUME NEW n \in 0 .. 2^30 - 1
  PROVE  /\ (n - Overhead) % 2^30 \in Nat
         /\ n >= Overhead + BlockSize => (n - Overhead) % 2^30 = n - Overhead /\ n - Overhead >= BlockSize
<1>1. PICK z \in Nat \ {0} : z = 2^30
  OBVIOUS
<1>2. Overhead = 20 /\ BlockSize \in Nat \ {0} /\ n \in 0 .. z - 1
  BY <1>1, BlockSizeAssumption DEF Overhead, SPARSE_HEADER, CHUNK_HEADER
<1>3. (n - 20) % z \in Nat
  BY <1>1, <1>2
<1>4. ASSUME n >= 20 + BlockSize PROVE (n - 20) % z = n - 20 /\ n - 20 >= BlockSize
  BY <1>1, <1>2, <1>4
<1> QED BY <1>1, <1>2, <1>3, <1>4

LEMMA InvAtInit == ResparseInit => ResparseInv
<1> SUFFICES ASSUME ResparseInit PROVE ResparseInv
  OBVIOUS
<1> USE DEF ResparseInit
<1>1. StateInv
  <2>1. max_len \in 0 .. 2^30 - 1
    OBVIOUS
  <2>2. out_s \in Seq(Seq(Parts)) /\ Len(out_s) = 0
    OBVIOUS
  <2>3. /\ pc = "queue" /\ out_s_count = 0 /\ c = 0 /\ ~more /\ more \in BOOLEAN
        /\ ~failed /\ failed \in BOOLEAN /\ s = <<>> /\ tmp = <<>>
    OBVIOUS
  <2> HIDE DEF ResparseInit
  <2> QED BY <2>1, <2>2, <2>3 DEF StateInv
<1>2. CellsInv
  <2>1. Len(out_s) = 0 /\ 1 .. 0 = {}
    OBVIOUS
  <2>2. \A u \in Units : want[u] = Hole
    OBVIOUS
  <2> QED BY <2>1, <2>2, EmptyList DEF CellsInv, Dealt, Disjoint, Somewhere
<1>3. OrderInv
  <2>1. Len(out_s) = 0 /\ 1 .. 0 = {}
    OBVIOUS
  <2> QED BY <2>1, EmptyList DEF OrderInv, InOrder
<1>4. CountInv
  BY DEF CountInv
<1>5. FilesInv
  <2>1. Len(out_s) = 0 /\ 1 .. 0 = {}
    OBVIOUS
  <2> QED BY <2>1 DEF FilesInv
<1>6. LengthInv
  <2>1. Len(out_s) = 0 /\ 1 .. 0 = {}
    OBVIOUS
  <2> QED BY <2>1 DEF LengthInv
<1> QED BY <1>1, <1>2, <1>3, <1>4, <1>5, <1>6 DEF ResparseInv

LEMMA QueueKeepsInv == ASSUME ResparseInv, NEW p \in Pieces, Queue(p) PROVE ResparseInv'
<1> USE DEF ResparseInv
<1>1. /\ pc \in {"queue", "done"} /\ ~failed
      /\ \A u \in UnitsOf(p) : want[u] = Hole
      /\ in_s' = Queued(in_s, last_used, p).list /\ last_used' = Queued(in_s, last_used, p).last
      /\ want' = [u \in Units |-> IF u \in UnitsOf(p) THEN CellOf(p, u - p.block * BlockSize) ELSE want[u]]
      /\ UNCHANGED <<pc, max_len, out_s_count, at, last_bb, file_len, more, s, out_s, tmp, c, failed>>
  BY DEF Queue, args, counting, files
<1>2. s = <<>> /\ tmp = <<>> /\ InOrder(in_s, s, tmp, out_s) /\ Ordered(in_s) /\ last_used \in Blocks(in_s) \cup {Unset, Freed}
  BY <1>1 DEF StateInv, OrderInv, InOrder
<1>3. /\ Dealt(in_s', s, tmp, out_s, want') /\ Ordered(in_s')
      /\ last_used' \in Blocks(in_s') \cup {Unset, Freed}
      /\ in_s \in Seq(Pieced) => in_s' \in Seq(Pieced)
  BY <1>1, <1>2, QueueDeals DEF CellsInv
<1>4. StateInv'
  BY <1>1 DEF StateInv
<1>5. CellsInv'
  BY <1>1, <1>3 DEF CellsInv
<1>6. OrderInv'
  <2>1. InOrder(in_s', s', tmp', out_s')
    BY <1>1, <1>2, <1>3, EmptyList DEF InOrder
  <2> QED BY <1>1, <1>3, <2>1 DEF OrderInv
<1>7. CountInv'
  BY <1>1 DEF CountInv
<1>8. FilesInv'
  BY <1>1 DEF FilesInv, LargeEnough, Room
<1>9. LengthInv'
  BY <1>1, <1>3 DEF LengthInv, LargeEnough, Room
<1> QED BY <1>4, <1>5, <1>6, <1>7, <1>8, <1>9

LEMMA CallKeepsInv == ASSUME ResparseInv, Call PROVE ResparseInv'
<1> USE DEF ResparseInv
<1>1. /\ pc = "queue" /\ pc' = "count" /\ max_len' \in MaxLens /\ out_s_count' \in 0 .. MaxOut
      /\ at' = 1 /\ last_bb' = None /\ file_len' = 0
      /\ UNCHANGED <<in_s, last_used, added, want, more, s, out_s, tmp, c, failed>>
  BY DEF Call, BeginRound, files
<1>2. c = 0 /\ out_s_count \in Nat /\ Len(out_s) = 0 /\ ~failed /\ tmp = <<>> /\ s = <<>> /\ out_s \in Seq(Seq(Parts))
  BY <1>1 DEF StateInv
<1>3. 1 .. Len(out_s) = {}
  BY <1>2
<1>4. max_len' \in 0 .. 2^30 - 1 /\ out_s_count' \in Nat
  <2>1. max_len' \in 0 .. 2^30 - 1
    <3>1. MaxLens \subseteq 0 .. 2^30 - 1
      BY ResparseAssumption
    <3> QED BY <1>1, <3>1
  <2>2. MaxOut \in Nat
    BY ResparseAssumption
  <2>3. out_s_count' \in Nat
    BY <1>1, <2>2
  <2> QED BY <2>1, <2>3
<1>5. StateInv'
  BY <1>1, <1>2, <1>4 DEF StateInv
<1>6. CellsInv'
  BY <1>1 DEF CellsInv
<1>7. OrderInv'
  BY <1>1 DEF OrderInv
<1>8. CountInv'
  <2>1. Room' \in Nat
    BY <1>4, RoomIs DEF Room
  <2>2. in_s \in Seq(Parts)
    BY DEF CellsInv, Dealt, Sound
  <2>3. SumOf(SubSeq(in_s, 1, 0)) = 0
    <3>1. SubSeq(in_s, 1, 0) = <<>>
      BY <2>2
    <3>2. <<>> \in Seq(Parts)
      OBVIOUS
    <3> QED BY <3>1, <3>2, SumOfNat
  <2>4. at' - 1 = 0 /\ at' \in 1 .. Len(in_s) + 1 /\ in_s' = in_s
    BY <1>1, <2>2
  <2>5. file_len' = SumOf(SubSeq(in_s', 1, at' - 1))
    BY <1>1, <2>3, <2>4
  <2> QED BY <1>1, <2>1, <2>4, <2>5 DEF CountInv, None
<1>9. FilesInv'
  BY <1>1, <1>3 DEF FilesInv
<1>10. LengthInv'
  BY <1>1 DEF LengthInv
<1> QED BY <1>5, <1>6, <1>7, <1>8, <1>9, <1>10

LEMMA CountKeepsInv == ASSUME ResparseInv, CountPiece PROVE ResparseInv'
<1> USE DEF ResparseInv
<1>1. /\ pc = "count" /\ at <= Len(in_s) /\ file_len + CountOf(in_s[at]) <= Room
      /\ file_len' = file_len + CountOf(in_s[at]) /\ last_bb' = at /\ at' = at + 1
      /\ UNCHANGED <<in_s, last_used, added, want, pc, max_len, out_s_count, more, s, out_s, tmp, c, failed>>
  BY DEF CountPiece, Fits, args, files
<1>2. StateInv'
  BY <1>1 DEF StateInv
<1>3. CellsInv'
  BY <1>1 DEF CellsInv
<1>4. OrderInv'
  BY <1>1 DEF OrderInv
<1>5. CountInv'
  <2>1. PICK n \in Nat : n = Len(in_s)
    BY DEF CellsInv, Dealt, Sound
  <2>2. at \in 1 .. n /\ file_len \in 0 .. Room /\ in_s \in Seq(Parts) /\ in_s[at] \in Parts
    BY <1>1, <2>1 DEF CountInv, CellsInv, Dealt, Sound
  <2>3. PICK x : x = SubSeq(in_s, 1, at - 1)
    OBVIOUS
  <2>4. PICK y : y = SubSeq(in_s, 1, at)
    OBVIOUS
  <2>5. file_len = SumOf(x)
    BY <1>1, <2>3 DEF CountInv
  <2>6. x \in Seq(Parts) /\ Len(x) = at - 1 /\ \A i \in 1 .. at - 1 : x[i] = in_s[i]
    <3>1. at - 1 \in 0 .. Len(in_s)
      BY <2>1, <2>2
    <3> QED BY <2>2, <2>3, <3>1, CutIs
  <2>7. y \in Seq(Parts) /\ Len(y) = at /\ \A i \in 1 .. at : y[i] = in_s[i]
    <3>1. at \in 0 .. Len(in_s)
      BY <2>1, <2>2
    <3> QED BY <2>2, <2>4, <3>1, CutIs
  <2>8. PICK k \in Nat : k = at - 1 /\ at = k + 1
    BY <2>2
  <2>9. \A i \in 1 .. k : y[i] = x[i]
    BY <2>6, <2>7, <2>8
  <2>10. SumOf(y) = SumOf(x) + CountOf(y[k + 1])
    BY <2>6, <2>7, <2>8, <2>9, SumOfMore
  <2>11. y[k + 1] = in_s[at]
    BY <2>2, <2>7, <2>8
  <2>12. file_len' = SumOf(y) /\ at' - 1 = at /\ in_s' = in_s /\ Room' = Room
    BY <1>1, <2>2, <2>5, <2>10, <2>11 DEF Room
  <2>13. file_len' \in 0 .. Room
    BY <1>1, <2>2, CountIs, SMTT(60)
  <2>14. file_len' = SumOf(SubSeq(in_s', 1, at' - 1))
    BY <2>4, <2>12
  <2>15. at' \in 1 .. Len(in_s') + 1 /\ last_bb' = at' - 1
    BY <1>1, <2>1, <2>2
  <2> QED BY <2>12, <2>13, <2>14, <2>15 DEF CountInv
<1>6. FilesInv'
  BY <1>1 DEF FilesInv, LargeEnough, Room
<1>7. LengthInv'
  BY <1>1 DEF LengthInv, LargeEnough, Room
<1> QED BY <1>2, <1>3, <1>4, <1>5, <1>6, <1>7

\* The first pieces of the list, or of what a split made of it, become the
\* round's file.
LEMMA TakeKeeps ==
  ASSUME ResparseInv, pc = "count", NEW l, Dealt(l, <<>>, tmp, out_s, want), InOrder(l, <<>>, tmp, out_s),
         NEW k \in 0 .. Len(l), k = 0 => l = in_s, Take(l, k), more' \in BOOLEAN, UNCHANGED failed,
         ~more' => k = Len(l)
  PROVE  /\ StateInv' /\ CellsInv' /\ OrderInv' /\ CountInv'
         /\ s' = SubSeq(l, 1, k)
         /\ l \in Seq(Pieced) => in_s' \in Seq(Pieced) /\ s' \in Seq(Pieced)
<1> PICK x : x = SubSeq(l, 1, k)
  OBVIOUS
<1> PICK y : y = SubSeq(l, k + 1, Len(l))
  OBVIOUS
<1>1. /\ s' = Moved(<<>>, x) /\ in_s' = y /\ pc' = "store"
      /\ last_used' = IF k = 0 THEN last_used ELSE Unset
      /\ UNCHANGED <<want, max_len, out_s_count, out_s, tmp, c>>
  BY DEF Take, args, files
<1>2. s' = x
  BY <1>1 DEF Moved
<1>3. ~failed /\ s = <<>> /\ l \in Seq(Parts)
  BY DEF ResparseInv, StateInv, Dealt, Sound
<1>4. StateInv'
  BY <1>1, <1>3 DEF ResparseInv, StateInv
<1>5. CellsInv'
  BY <1>1, <1>2, CutDeals DEF CellsInv
<1>6. OrderInv'
  <2>1. InOrder(y, x, tmp, out_s)
    BY <1>3, CutOrder
  <2>2. Len(y) = Len(l) - k /\ y \in Seq(Parts) /\ \A i \in 1 .. Len(l) - k : y[i] = l[k + i]
    BY <1>3, CutIs
  <2>3. ~more' => y = <<>>
    BY <2>2
  <2>4. last_used' \in Blocks(y) \cup {Unset, Freed}
    <3>1. CASE k = 0
      <4>1. last_used \in Blocks(l) \cup {Unset, Freed}
        BY <3>1 DEF ResparseInv, OrderInv
      <4>2. Blocks(y) = Blocks(l)
        <5>1. Len(y) = Len(l) /\ \A i \in 1 .. Len(l) : y[i] = l[i]
          BY <2>2, <3>1
        <5> QED BY <5>1 DEF Blocks
      <4> QED BY <1>1, <3>1, <4>1, <4>2
    <3>2. CASE k # 0
      BY <1>1, <3>2
    <3> QED BY <3>1, <3>2
  <2> QED BY <1>1, <1>2, <1>3, <2>1, <2>3, <2>4 DEF OrderInv
<1>7. CountInv'
  BY <1>1 DEF CountInv
<1>8. l \in Seq(Pieced) => x \in Seq(Pieced) /\ y \in Seq(Pieced)
  BY CutIs
<1> QED BY <1>1, <1>2, <1>4, <1>5, <1>6, <1>7, <1>8

LEMMA EndKeepsInv == ASSUME ResparseInv, EndOfList PROVE ResparseInv'
<1>1. /\ pc = "count" /\ at > Len(in_s) /\ Take(in_s, Len(in_s)) /\ more' = FALSE /\ UNCHANGED failed
      /\ pc' = "store" /\ UNCHANGED <<out_s, c, max_len>>
  BY DEF EndOfList, Take, files, args
<1>2. /\ s = <<>> /\ Dealt(in_s, <<>>, tmp, out_s, want) /\ InOrder(in_s, <<>>, tmp, out_s)
      /\ in_s \in Seq(Parts)
  BY <1>1 DEF ResparseInv, StateInv, CellsInv, OrderInv, Dealt, Sound
<1>3. PICK n \in Nat : n = Len(in_s)
  BY <1>2
<1>4. /\ StateInv' /\ CellsInv' /\ OrderInv' /\ CountInv'
      /\ s' = SubSeq(in_s, 1, Len(in_s))
      /\ in_s \in Seq(Pieced) => in_s' \in Seq(Pieced) /\ s' \in Seq(Pieced)
  <2>1. n \in 0 .. Len(in_s)
    BY <1>3
  <2> QED BY <1>1, <1>2, <1>3, <2>1, TakeKeeps
<1>5. SumOf(s') = file_len /\ file_len \in 0 .. Room
  <2>1. at = n + 1 /\ file_len = SumOf(SubSeq(in_s, 1, at - 1)) /\ file_len \in 0 .. Room
    BY <1>1, <1>3 DEF ResparseInv, CountInv
  <2> QED BY <1>3, <1>4, <2>1
<1>6. FilesInv'
  <2>1. Room' = Room /\ LargeEnough' = LargeEnough
    BY <1>1 DEF Room, LargeEnough
  <2>2. Room \in Nat
    BY RoomIs DEF ResparseInv, StateInv, Room
  <2>3. NotTooLong(s', Room)
    BY <1>5, <2>2 DEF NotTooLong, CHUNK_HEADER
  <2> QED BY <1>1, <2>1, <2>3 DEF ResparseInv, FilesInv
<1>7. LengthInv'
  <2>1. Room' = Room /\ LargeEnough' = LargeEnough /\ tmp' = tmp
    BY <1>1 DEF Room, LargeEnough, Take, files
  <2> QED BY <1>1, <1>4, <2>1 DEF ResparseInv, LengthInv
<1> QED BY <1>4, <1>6, <1>7 DEF ResparseInv

LEMMA FailKeepsInv == ASSUME ResparseInv, CounterFails PROVE ResparseInv'
<1> USE DEF ResparseInv
<1>1. /\ pc = "count" /\ pc' = "store" /\ more' = FALSE /\ failed' = TRUE
      /\ UNCHANGED <<in_s, last_used, want, max_len, out_s_count, s, out_s, tmp, c>>
  BY DEF CounterFails, args, files
<1>2. s = <<>>
  BY <1>1 DEF StateInv
<1>3. StateInv'
  BY <1>1 DEF StateInv
<1>4. CellsInv'
  BY <1>1 DEF CellsInv
<1>5. OrderInv'
  BY <1>1 DEF OrderInv
<1>6. CountInv'
  BY <1>1 DEF CountInv
<1>7. FilesInv'
  <2>1. Room' = Room /\ LargeEnough' = LargeEnough
    BY <1>1 DEF Room, LargeEnough
  <2>2. Room \in Nat
    BY RoomIs DEF StateInv, Room
  <2>3. s' = s /\ SumOf(s) = 0
    <3>1. <<>> \in Seq(Parts)
      OBVIOUS
    <3> QED BY <1>1, <1>2, <3>1, SumOfNat
  <2>4. NotTooLong(s', Room)
    BY <2>2, <2>3 DEF NotTooLong, CHUNK_HEADER
  <2> QED BY <1>1, <2>1, <2>4 DEF FilesInv
<1>8. LengthInv'
  BY <1>1 DEF LengthInv, LargeEnough, Room
<1> QED BY <1>3, <1>4, <1>5, <1>6, <1>7, <1>8

\* A round starts with a sum of nothing.
LEMMA RoundBegins ==
  ASSUME NEW l \in Seq(Parts), NEW room \in Nat
  PROVE  1 \in 1 .. Len(l) + 1 /\ 0 = 1 - 1 /\ 0 = SumOf(SubSeq(l, 1, 1 - 1)) /\ 0 \in 0 .. room
<1>1. SubSeq(l, 1, 1 - 1) = <<>>
  OBVIOUS
<1>2. <<>> \in Seq(Parts)
  OBVIOUS
<1>3. SumOf(<<>>) = 0
  BY <1>2, SumOfNat
<1>4. 1 \in 1 .. Len(l) + 1 /\ 0 = 1 - 1 /\ 0 \in 0 .. room
  OBVIOUS
<1> QED BY <1>1, <1>3, <1>4

LEMMA StoreKeepsInv == ASSUME ResparseInv, Store PROVE ResparseInv'
<1> USE DEF ResparseInv
<1>1. /\ pc = "store"
      /\ IF c < out_s_count THEN out_s' = Append(out_s, s) /\ UNCHANGED tmp
         ELSE tmp' = Moved(tmp, s) /\ UNCHANGED out_s
      /\ s' = <<>> /\ c' = c + 1
      /\ pc' = (IF more THEN "count" ELSE "return")
      /\ at' = 1 /\ last_bb' = None /\ file_len' = 0
      /\ UNCHANGED <<in_s, last_used, want, max_len, out_s_count, more, failed>>
  BY DEF Store, BeginRound, args
<1>2. /\ out_s \in Seq(Seq(Parts)) /\ in_s \in Seq(Parts) /\ s \in Seq(Parts) /\ tmp \in Seq(Parts)
      /\ c \in Nat /\ out_s_count \in Nat /\ more \in BOOLEAN
      /\ Len(out_s) = IF c <= out_s_count THEN c ELSE out_s_count
  BY DEF StateInv, CellsInv, Dealt, Sound
<1>5. CountInv'
  <2>1. Room' = Room /\ Room \in Nat
    BY <1>1, RoomIs DEF StateInv, Room
  <2> QED BY <1>1, <1>2, <2>1, RoundBegins DEF CountInv, None
<1>3. CASE c < out_s_count
  <2>1. out_s' = Append(out_s, s) /\ tmp' = tmp /\ c <= out_s_count /\ c + 1 <= out_s_count
    BY <1>1, <1>2, <1>3
  <2>2. PICK n \in Nat : n = Len(out_s) /\ n = c
    BY <1>2, <2>1
  <2>3. /\ out_s' \in Seq(Seq(Parts)) /\ Len(out_s') = n + 1 /\ out_s'[n + 1] = s
        /\ \A i \in 1 .. n : out_s'[i] = out_s[i]
    BY <1>2, <2>1, <2>2
  <2>4. \A i : i \in 1 .. n + 1 <=> i \in 1 .. n \/ i = n + 1
    OBVIOUS
  <2>5. StateInv'
    <3>1. c' \in Nat /\ Len(out_s') = IF c' <= out_s_count' THEN c' ELSE out_s_count'
      BY <1>1, <1>2, <2>1, <2>2, <2>3
    <3> QED BY <1>1, <1>2, <2>1, <2>3, <3>1 DEF StateInv
  <2>6. CellsInv'
    BY <1>1, <1>2, <2>1, AppendDeals DEF CellsInv
  <2>7. OrderInv'
    BY <1>1, <1>2, <2>1, AppendOrder DEF OrderInv
  <2>8. FilesInv'
    <3>1. Room' = Room /\ LargeEnough' = LargeEnough
      BY <1>1 DEF Room, LargeEnough
    <3>2. SUFFICES ASSUME LargeEnough, NEW i \in 1 .. n + 1
                   PROVE  /\ NotTooLong(out_s'[i], Room)
                          /\ i < c + 1 \/ more => Filled(out_s'[i], Room)
      BY <1>1, <2>3, <3>1 DEF FilesInv
    <3>3. CASE i \in 1 .. n
      BY <1>1, <2>2, <2>3, <3>2, <3>3 DEF FilesInv
    <3>4. CASE i = n + 1
      <4>1. ~(i < c + 1)
        BY <2>2, <3>4
      <4> QED BY <1>1, <2>3, <3>2, <3>4, <4>1 DEF FilesInv
    <3> QED BY <2>4, <3>3, <3>4
  <2>9. LengthInv'
    <3>1. \A i \in 1 .. Len(out_s') : i \in 1 .. n \/ i = n + 1
      BY <2>3, <2>4
    <3>2. <<>> \in Seq(Pieced)
      OBVIOUS
    <3>3. Room' = Room /\ LargeEnough' = LargeEnough
      BY <1>1 DEF Room, LargeEnough
    <3> QED BY <1>1, <2>1, <2>2, <2>3, <3>1, <3>2, <3>3 DEF LengthInv
  <2> QED BY <2>5, <2>6, <2>7, <2>8, <2>9, <1>5
<1>4. CASE ~(c < out_s_count)
  <2>1. tmp' = Moved(tmp, s) /\ out_s' = out_s
    BY <1>1, <1>4
  <2>2. StateInv'
    <3>1. c' \in Nat /\ Len(out_s') = IF c' <= out_s_count' THEN c' ELSE out_s_count'
      BY <1>1, <1>2, <1>4, <2>1
    <3> QED BY <1>1, <1>2, <2>1, <3>1 DEF StateInv
  <2>3. CellsInv'
    BY <1>1, <2>1, SurplusDeals DEF CellsInv
  <2>4. OrderInv'
    BY <1>1, <1>2, <2>1, SurplusOrder DEF OrderInv
  <2>5. FilesInv'
    <3>1. Room' = Room /\ LargeEnough' = LargeEnough
      BY <1>1 DEF Room, LargeEnough
    <3> QED BY <1>1, <2>1, <3>1 DEF FilesInv
  <2>6. LengthInv'
    <3>1. Room' = Room /\ LargeEnough' = LargeEnough
      BY <1>1 DEF Room, LargeEnough
    <3>2. tmp \in Seq(Pieced) /\ s \in Seq(Pieced) => Moved(tmp, s) \in Seq(Pieced)
      <4>1. \A r \in Pieced : IsPart(r)
        BY PartsClosed DEF MergeClosed
      <4> QED BY <4>1, MovedKeeps
    <3>3. <<>> \in Seq(Pieced)
      OBVIOUS
    <3> QED BY <1>1, <2>1, <3>1, <3>2, <3>3 DEF LengthInv
  <2> QED BY <2>2, <2>3, <2>4, <2>5, <2>6, <1>5
<1> QED BY <1>3, <1>4

LEMMA ReturnKeepsInv == ASSUME ResparseInv, Return PROVE ResparseInv'
<1> USE DEF ResparseInv
<1>1. /\ pc = "return" /\ pc' = "done"
      /\ in_s' = Moved(in_s, tmp) /\ tmp' = <<>>
      /\ last_used' = IF tmp = <<>> THEN last_used ELSE Unset
      /\ UNCHANGED <<want, max_len, out_s_count, more, s, out_s, c, failed>>
  BY DEF Return, args
<1>2. s = <<>> /\ tmp \in Seq(Parts)
  BY <1>1 DEF StateInv, CellsInv, Dealt, Sound
<1>3. StateInv'
  BY <1>1 DEF StateInv
<1>4. CellsInv'
  BY <1>1, ReturnDeals DEF CellsInv
<1>5. OrderInv'
  <2>1. last_used' \in Blocks(in_s') \cup {Unset, Freed}
    BY <1>1 DEF OrderInv, Moved
  <2>2. ~failed => InOrder(Moved(in_s, tmp), <<>>, <<>>, out_s)
    BY <1>1, <1>2, ReturnOrder DEF OrderInv
  <2> QED BY <1>1, <1>2, <2>1, <2>2 DEF OrderInv
<1>6. CountInv'
  BY <1>1 DEF CountInv
<1>7. FilesInv'
  BY <1>1 DEF FilesInv, LargeEnough, Room
<1>8. LengthInv'
  <2>1. Room' = Room /\ LargeEnough' = LargeEnough
    BY <1>1 DEF Room, LargeEnough
  <2>2. in_s \in Seq(Pieced) /\ tmp \in Seq(Pieced) => Moved(in_s, tmp) \in Seq(Pieced)
    <3>1. \A r \in Pieced : IsPart(r)
      BY PartsClosed DEF MergeClosed
    <3> QED BY <3>1, MovedKeeps
  <2>3. <<>> \in Seq(Pieced)
    OBVIOUS
  <2> QED BY <1>1, <2>1, <2>2, <2>3 DEF LengthInv
<1> QED BY <1>3, <1>4, <1>5, <1>6, <1>7, <1>8

\* More than an eighth is left, or nothing is in the file yet: there is room for
\* a unit, and where an eighth is a block, for a block.
LEMMA SplitsIs ==
  ASSUME NEW room \in Nat, NEW len \in 0 .. room, room >= BlockSize,
         len = 0 \/ 4 * (room - len) > (4 * room) \div 8
  PROVE  room - len \in Nat \ {0} /\ (room >= 8 * BlockSize => room - len >= BlockSize)
<1>1. BlockSize \in Nat \ {0}
  BY BlockSizeAssumption
<1>2. PICK q \in Nat, r \in 0 .. 7 : q = (4 * room) \div 8 /\ 4 * room = q * 8 + r
  <2>1. 4 * room \in Nat /\ 8 \in Nat \ {0}
    OBVIOUS
  <2>2. PICK q : q = (4 * room) \div 8
    OBVIOUS
  <2>3. PICK r : r = (4 * room) % 8
    OBVIOUS
  <2>4. q \in Nat /\ r \in 0 .. 7 /\ 4 * room = q * 8 + r
    BY <2>1, <2>2, <2>3
  <2> QED BY <2>2, <2>4
<1> QED BY <1>1, <1>2

\* Otherwise the file is filled but for an eighth.
LEMMA NotSplitIs ==
  ASSUME NEW room \in Nat, NEW len \in 0 .. room, ~(4 * (room - len) > (4 * room) \div 8)
  PROVE  8 * len >= 7 * room
<1>1. PICK q \in Nat, r \in 0 .. 7 : q = (4 * room) \div 8 /\ 4 * room = q * 8 + r
  <2>1. PICK q : q = (4 * room) \div 8
    OBVIOUS
  <2>2. PICK r : r = (4 * room) % 8
    OBVIOUS
  <2>3. q \in Nat /\ r \in 0 .. 7 /\ 4 * room = q * 8 + r
    BY <2>1, <2>2
  <2> QED BY <2>1, <2>3
<1> QED BY <1>1

LEMMA OverflowKeepsInv == ASSUME ResparseInv, Overflow PROVE ResparseInv'
<1>1. /\ pc = "count" /\ at <= Len(in_s) /\ ~(file_len + CountOf(in_s[at]) <= Room)
      /\ IF Splits THEN Take(Split(in_s, at, SplitLen), at) ELSE Take(in_s, last_bb)
      /\ more' = TRUE /\ UNCHANGED failed
  BY DEF Overflow, Fits
<1>2. pc' = "store" /\ UNCHANGED <<out_s, c, max_len, tmp>>
  BY <1>1 DEF Take, files, args
<1>3. /\ s = <<>> /\ Dealt(in_s, <<>>, tmp, out_s, want) /\ InOrder(in_s, <<>>, tmp, out_s)
      /\ in_s \in Seq(Parts) /\ tmp \in Seq(Parts) /\ max_len \in 0 .. 2^30 - 1
  BY <1>1 DEF ResparseInv, StateInv, CellsInv, OrderInv, Dealt, Sound
<1>4. PICK n \in Nat : n = Len(in_s)
  BY <1>3
<1>5. /\ at \in 1 .. n /\ last_bb = at - 1 /\ file_len = SumOf(SubSeq(in_s, 1, at - 1)) /\ file_len \in 0 .. Room
      /\ in_s[at] \in Parts
  BY <1>1, <1>3, <1>4 DEF ResparseInv, CountInv
<1>6. /\ Room \in Nat /\ Room' = Room /\ LargeEnough' = LargeEnough
      /\ LargeEnough => Room >= BlockSize
  <2>1. Room' = Room /\ LargeEnough' = LargeEnough
    BY <1>2 DEF Room, LargeEnough
  <2>2. Room \in Nat /\ (LargeEnough => Room >= BlockSize)
    BY <1>3, RoomIs DEF Room, LargeEnough
  <2> QED BY <2>1, <2>2
<1>8. PICK k \in Nat : k = at - 1 /\ at = k + 1 /\ k \in 0 .. Len(in_s)
  BY <1>4, <1>5
<1>11. PICK x : x = SubSeq(in_s, 1, k)
  OBVIOUS
<1>7. x \in Seq(Parts) /\ Len(x) = k /\ (\A i \in 1 .. k : x[i] = in_s[i]) /\ file_len = SumOf(x)
  BY <1>3, <1>5, <1>8, <1>11, CutIs
<1>9. CASE ~Splits
  <2>1. last_bb # 0 /\ last_bb \in 0 .. Len(in_s) /\ ~(4 * (Room - file_len) > (4 * Room) \div 8)
    BY <1>4, <1>5, <1>9 DEF Splits, None
  <2>2. more' \in BOOLEAN /\ (last_bb = 0 => in_s = in_s) /\ Take(in_s, last_bb) /\ (~more' => last_bb = Len(in_s))
    BY <1>1, <1>9
  <2>3. /\ StateInv' /\ CellsInv' /\ OrderInv' /\ CountInv'
        /\ s' = SubSeq(in_s, 1, last_bb)
        /\ in_s \in Seq(Pieced) => in_s' \in Seq(Pieced) /\ s' \in Seq(Pieced)
    BY <1>1, <1>3, <2>1, <2>2, TakeKeeps
  <2>4. SumOf(s') = file_len
    BY <1>5, <2>3
  <2>5. FilesInv'
    <3>1. Filled(s', Room)
      BY <1>5, <1>6, <2>1, <2>4, NotSplitIs DEF Filled
    <3>2. NotTooLong(s', Room)
      BY <1>5, <1>6, <2>4 DEF NotTooLong, CHUNK_HEADER
    <3> QED BY <1>1, <1>2, <1>6, <3>1, <3>2 DEF ResparseInv, FilesInv
  <2>6. LengthInv'
    BY <1>1, <1>2, <1>6, <2>3 DEF ResparseInv, LengthInv
  <2> QED BY <2>3, <2>5, <2>6 DEF ResparseInv
<1>10. CASE Splits
  <2>1. PICK len \in Nat : len = SplitLen /\ len = Room - file_len
    BY <1>5, <1>6 DEF SplitLen
  <2>2. PICK t : t = Split(in_s, at, len)
    OBVIOUS
  <2>3. PICK b \in Nat : b = len \div BlockSize
    BY BlockSizeAssumption, DivMod
  <2>4. PICK m : m = b * BlockSize
    OBVIOUS
  <2>5. /\ Dealt(t, <<>>, tmp, out_s, want) /\ at \in 1 .. Len(t)
        /\ \A i \in 1 .. at - 1 : t[i] = in_s[i]
        /\ m \in Nat /\ m <= len /\ len < m + BlockSize
        /\ \/ in_s[at].len <= m /\ t = in_s
           \/ /\ in_s[at].len > m /\ t[at].type = in_s[at].type /\ t[at].len = m
              /\ \A i \in at + 1 .. Len(t) : t[i].len = in_s[at].len - m \/ \E j \in 1 .. Len(in_s) : t[i] = in_s[j]
        /\ Ordered(t) /\ Before(tmp, t)
    <3>1. at \in 1 .. Len(in_s) /\ Ordered(in_s) /\ Before(tmp, in_s)
      BY <1>3, <1>4, <1>5 DEF InOrder
    <3>2. LET u == Split(in_s, at, len)
              v == (len \div BlockSize) * BlockSize
          IN  /\ Dealt(u, <<>>, tmp, out_s, want) /\ at \in 1 .. Len(u)
              /\ \A i \in 1 .. at - 1 : u[i] = in_s[i]
              /\ v \in Nat /\ v <= len /\ len < v + BlockSize
              /\ \/ in_s[at].len <= v /\ u = in_s
                 \/ /\ in_s[at].len > v /\ u[at].type = in_s[at].type /\ u[at].len = v
                    /\ \A i \in at + 1 .. Len(u) : u[i].len = in_s[at].len - v \/ \E j \in 1 .. Len(in_s) : u[i] = in_s[j]
              /\ \A z : Ordered(in_s) /\ Before(z, in_s) => Ordered(u) /\ (z \in Seq(Parts) => Before(z, u))
      BY <1>3, <3>1, SplitDeals
    <3> QED BY <1>3, <2>2, <2>3, <2>4, <3>1, <3>2
  <2>6. InOrder(t, <<>>, tmp, out_s)
    BY <1>3, <2>5, EmptyList DEF InOrder
  <2>7. t \in Seq(Parts) /\ t[at] \in Parts
    BY <2>5 DEF Dealt, Sound
  <2>8. Take(t, at) /\ at \in 0 .. Len(t) /\ at # 0 /\ more' \in BOOLEAN /\ more'
    BY <1>1, <1>10, <2>1, <2>2, <2>5
  <2>9. /\ StateInv' /\ CellsInv' /\ OrderInv' /\ CountInv'
        /\ s' = SubSeq(t, 1, at)
        /\ t \in Seq(Pieced) => in_s' \in Seq(Pieced) /\ s' \in Seq(Pieced)
    BY <1>1, <2>5, <2>6, <2>8, TakeKeeps
  <2>10. SumOf(s') = file_len + CountOf(t[at])
    <3> PICK y : y = SubSeq(t, 1, at)
      OBVIOUS
    <3>1. y \in Seq(Parts) /\ Len(y) = at /\ \A i \in 1 .. at : y[i] = t[i]
      BY <2>7, <2>8, CutIs
    <3>2. \A i \in 1 .. k : y[i] = x[i]
      BY <1>7, <1>8, <2>5, <3>1
    <3>3. y[k + 1] = t[at] /\ Len(y) = k + 1 /\ k = Len(x)
      BY <1>5, <1>7, <1>8, <3>1
    <3>4. SumOf(y) = SumOf(x) + CountOf(y[k + 1])
      BY <1>7, <3>1, <3>2, <3>3, SumOfMore
    <3> QED BY <1>7, <2>9, <3>3, <3>4
  <2>11. FilesInv'
    <3>1. SUFFICES ASSUME LargeEnough PROVE NotTooLong(s', Room) /\ Filled(s', Room)
      BY <1>1, <1>2, <1>6 DEF ResparseInv, FilesInv
    <3>2. len \in Nat \ {0}
      <4>1. file_len = 0 \/ 4 * (Room - file_len) > (4 * Room) \div 8
        <5>1. last_bb = None => file_len = 0
          <6>1. last_bb = None => x = <<>>
            BY <1>5, <1>7, <1>8 DEF None
          <6> QED BY <1>7, <6>1, SumOfNat
        <5> QED BY <1>10, <5>1 DEF Splits
      <4> QED BY <1>5, <1>6, <2>1, <3>1, <4>1, SplitsIs
    <3>3. /\ t[at].type = in_s[at].type
          /\ (t[at] = in_s[at] /\ in_s[at].len <= b * BlockSize) \/ t[at].len = b * BlockSize
          /\ b * BlockSize <= len /\ len < b * BlockSize + BlockSize
      BY <2>4, <2>5
    <3>4. /\ CountOf(t[at]) \in Nat /\ CountOf(t[at]) <= len + 3
          /\ CountOf(t[at]) = CountOf(in_s[at]) \/ CountOf(t[at]) > len - BlockSize
      BY <1>5, <2>7, <3>2, <3>3, HalfCounts
    <3>5. BlockSize \in Nat
      BY BlockSizeAssumption
    <3>6. PICK sum, more_, all : sum = SumOf(s') /\ more_ = CountOf(t[at]) /\ all = CountOf(in_s[at])
      OBVIOUS
    <3>7. all \in Nat /\ more_ \in Nat /\ sum = file_len + more_ /\ file_len + all > Room
      <4>1. all \in Nat
        BY <1>5, <3>6, CountIs
      <4>2. ~(file_len + all <= Room)
        BY <1>1, <3>6
      <4> QED BY <1>5, <1>6, <2>10, <3>4, <3>6, <4>1, <4>2
    <3>8. more_ <= len + 3 /\ (more_ = all \/ more_ > len - BlockSize)
      BY <3>4, <3>6
    <3>9. sum <= Room + 3 /\ sum > Room - BlockSize
      BY <1>5, <1>6, <2>1, <3>5, <3>7, <3>8
    <3> QED BY <3>6, <3>9 DEF NotTooLong, Filled, CHUNK_HEADER
  <2>12. LengthInv'
    <3>1. ASSUME LargeEnough, Room >= 8 * BlockSize, in_s \in Seq(Pieced) PROVE t \in Seq(Pieced)
      <4>1. len >= BlockSize
        <5>1. last_bb = None => file_len = 0
          <6>1. last_bb = None => x = <<>>
            BY <1>5, <1>7, <1>8 DEF None
          <6> QED BY <1>7, <6>1, SumOfNat
        <5>2. file_len = 0 \/ 4 * (Room - file_len) > (4 * Room) \div 8
          BY <1>10, <5>1 DEF Splits
        <5> QED BY <1>5, <1>6, <2>1, <3>1, <5>2, SplitsIs
      <4>2. m > 0
        <5>1. BlockSize \in Nat \ {0}
          BY BlockSizeAssumption
        <5> QED BY <2>5, <4>1, <5>1
      <4>3. ASSUME NEW i \in 1 .. Len(t) PROVE t[i] \in Pieced
        <5>1. t[i] \in Parts /\ in_s[at].len \in Nat
          <6>1. \A r \in Parts : r.len \in Nat
            BY DEF Parts
          <6> QED BY <1>5, <2>7, <6>1
        <5>2. \A j \in 1 .. Len(in_s) : in_s[j] \in Pieced
          BY <3>1
        <5>3. CASE t = in_s
          BY <5>2, <5>3
        <5>4. CASE t # in_s
          <6>1. /\ in_s[at].len > m /\ t[at].len = m
                /\ \A h \in at + 1 .. Len(t) : t[h].len = in_s[at].len - m \/ \E j \in 1 .. Len(in_s) : t[h] = in_s[j]
            BY <2>5, <5>4
          <6>2. CASE i < at
            <7>1. i \in 1 .. at - 1 /\ i \in 1 .. Len(in_s)
              BY <1>4, <1>5, <6>2
            <7> QED BY <2>5, <5>2, <7>1
          <6>3. CASE i = at
            BY <4>2, <5>1, <6>1, <6>3 DEF Pieced
          <6>4. CASE i > at
            <7>1. i \in at + 1 .. Len(t)
              BY <1>5, <6>4
            <7>2. CASE t[i].len = in_s[at].len - m
              <8>1. t[i].len # 0
                BY <2>5, <5>1, <6>1, <7>2
              <8> QED BY <5>1, <8>1 DEF Pieced
            <7> QED BY <5>2, <6>1, <7>1, <7>2
          <6> QED BY <1>5, <6>2, <6>3, <6>4
        <5> QED BY <5>3, <5>4
      <4>4. PICK e \in Nat : e = Len(t) /\ t \in [1 .. e -> Pieced]
        BY <2>7, <4>3
      <4> QED BY <4>4
    <3> QED BY <1>1, <1>2, <1>6, <2>9, <3>1 DEF ResparseInv, LengthInv
  <2> QED BY <2>9, <2>11, <2>12 DEF ResparseInv
<1> QED BY <1>9, <1>10

-----------------------------------------------------------------------------
(* Theorems.                                                               *)

\* The invariant of the proofs holds however pieces are queued, max_len and
\* out_s_count are chosen, and whether or not the counting output fails.
THEOREM DealtInvariant == ResparseSpec => []ResparseInv
<1>1. ResparseInit => ResparseInv
  BY InvAtInit
<1>2. ResparseInv /\ [ResparseNext]_resparseVars => ResparseInv'
  <2> SUFFICES ASSUME ResparseInv, [ResparseNext]_resparseVars PROVE ResparseInv'
    OBVIOUS
  <2>1. CASE \E p \in Pieces : Queue(p)
    BY <2>1, QueueKeepsInv
  <2>2. CASE Call
    BY <2>2, CallKeepsInv
  <2>3. CASE CountPiece
    BY <2>3, CountKeepsInv
  <2>4. CASE Overflow
    BY <2>4, OverflowKeepsInv
  <2>5. CASE EndOfList
    BY <2>5, EndKeepsInv
  <2>6. CASE CounterFails
    BY <2>6, FailKeepsInv
  <2>7. CASE Store
    BY <2>7, StoreKeepsInv
  <2>8. CASE Return
    BY <2>8, ReturnKeepsInv
  <2>9. CASE UNCHANGED resparseVars
    <3>1. UNCHANGED <<in_s, last_used, want, pc, max_len, out_s_count, at, last_bb, file_len, more, s, out_s, tmp, c, failed>>
      BY <2>9 DEF resparseVars, args, counting, files
    <3>2. Room' = Room /\ LargeEnough' = LargeEnough
      BY <3>1 DEF Room, LargeEnough
    <3>3. StateInv' /\ CellsInv'
      BY <3>1 DEF ResparseInv, StateInv, CellsInv
    <3>4. OrderInv' /\ CountInv'
      BY <3>1, <3>2 DEF ResparseInv, OrderInv, CountInv
    <3>5. FilesInv' /\ LengthInv'
      BY <3>1, <3>2 DEF ResparseInv, FilesInv, LengthInv
    <3> QED BY <3>3, <3>4, <3>5 DEF ResparseInv
  <2> QED BY <2>1, <2>2, <2>3, <2>4, <2>5, <2>6, <2>7, <2>8, <2>9 DEF ResparseNext, ResparseStep
<1> QED BY <1>1, <1>2, PTL DEF ResparseSpec

LEMMA ListsAre ==
  ASSUME NEW a \in Seq(Parts), NEW b \in Seq(Parts), NEW d \in Seq(Parts), NEW o \in Seq(Seq(Parts)), NEW n \in Nat, n = Len(o)
  PROVE  LET l == <<a, b, d>> \o o
         IN  /\ l \in Seq(Seq(Parts)) /\ DOMAIN l = 1 .. 3 + n
             /\ l[1] = a /\ l[2] = b /\ l[3] = d /\ \A i \in 1 .. n : l[3 + i] = o[i]
             /\ \A i \in 1 .. 3 + n : i \in {1, 2, 3} \/ \E j \in 1 .. n : i = 3 + j
<1> PICK h : h = <<a, b, d>>
  OBVIOUS
<1> PICK l : l = h \o o
  OBVIOUS
<1>1. h \in Seq(Seq(Parts)) /\ Len(h) = 3 /\ h[1] = a /\ h[2] = b /\ h[3] = d
  OBVIOUS
<1>2. /\ l \in Seq(Seq(Parts)) /\ Len(l) = 3 + n
      /\ \A i \in 1 .. 3 + n : l[i] = IF i <= 3 THEN h[i] ELSE o[i - 3]
  BY <1>1, ConcatProperties
<1>3. l[1] = a /\ l[2] = b /\ l[3] = d
  BY <1>1, <1>2
<1>4. \A i \in 1 .. n : 3 + i \in 1 .. 3 + n /\ ~(3 + i <= 3) /\ (3 + i) - 3 = i
  OBVIOUS
<1>5. \A i \in 1 .. n : l[3 + i] = o[i]
  BY <1>2, <1>4
<1>6. ASSUME NEW i \in 1 .. 3 + n PROVE i \in {1, 2, 3} \/ \E j \in 1 .. n : i = 3 + j
  <2>1. CASE i <= 3
    BY <2>1
  <2>2. CASE i > 3
    <3>1. i - 3 \in 1 .. n /\ i = 3 + (i - 3)
      BY <2>2
    <3> QED BY <3>1
  <2> QED BY <2>1, <2>2
<1> QED BY <1>2, <1>3, <1>5, <1>6, SMTT(60)

\* In lists that are dealt out a unit is in one place, and holds what was asked
\* for.
OnePlace(l, n, w) ==
  /\ \A i \in 1 .. n : l[i] \in Seq(Parts) /\ Single(l[i])
  /\ \A i, j \in 1 .. n : i # j => Clear(l[i], l[j])
  /\ \A u, x : (\E i \in 1 .. n : Has(l[i], u, x)) <=> u \in Units /\ x = w[u] /\ x # Hole

LEMMA DealtIsOnePlace ==
  ASSUME NEW a, NEW b, NEW d, NEW o \in Seq(Seq(Parts)), NEW w, Dealt(a, b, d, o, w)
  PROVE  LET l == <<a, b, d>> \o o IN l \in Seq(Seq(Parts)) /\ OnePlace(l, Len(l), w)
<1> PICK l : l = <<a, b, d>> \o o
  OBVIOUS
<1>1. a \in Seq(Parts) /\ b \in Seq(Parts) /\ d \in Seq(Parts)
  BY DEF Dealt, Sound
<1>2. PICK n \in Nat : n = Len(o)
  OBVIOUS
<1>3. /\ l \in Seq(Seq(Parts)) /\ DOMAIN l = 1 .. 3 + n
      /\ l[1] = a /\ l[2] = b /\ l[3] = d /\ \A i \in 1 .. n : l[3 + i] = o[i]
      /\ \A i \in 1 .. 3 + n : i \in {1, 2, 3} \/ \E j \in 1 .. n : i = 3 + j
      /\ Len(l) = 3 + n
  <2>1. LET m == <<a, b, d>> \o o
        IN  /\ m \in Seq(Seq(Parts)) /\ DOMAIN m = 1 .. 3 + n
            /\ m[1] = a /\ m[2] = b /\ m[3] = d /\ \A i \in 1 .. n : m[3 + i] = o[i]
            /\ \A i \in 1 .. 3 + n : i \in {1, 2, 3} \/ \E j \in 1 .. n : i = 3 + j
    BY <1>1, <1>2, ListsAre
  <2>2. 3 + n \in Nat
    OBVIOUS
  <2> QED BY <2>1, <2>2, LenProperties
<1>4. \A i \in 1 .. 3 + n : l[i] \in Seq(Parts) /\ Single(l[i])
  BY <1>2, <1>3 DEF Dealt, Sound
<1>5. \A i, j \in 1 .. 3 + n : i # j => Clear(l[i], l[j])
  <2>1. \A x, y : Clear(x, y) => Clear(y, x)
    BY DEF Clear
  <2>2. ASSUME NEW i \in 1 .. 3 + n, NEW j \in 1 .. 3 + n, i # j PROVE Clear(l[i], l[j])
    <3>1. CASE i \in {1, 2, 3} /\ j \in {1, 2, 3}
      BY <1>3, <2>1, <2>2, <3>1 DEF Dealt, Disjoint
    <3>2. CASE i \in {1, 2, 3} /\ \E h \in 1 .. n : j = 3 + h
      BY <1>2, <1>3, <3>2 DEF Dealt, Disjoint
    <3>3. CASE j \in {1, 2, 3} /\ \E h \in 1 .. n : i = 3 + h
      BY <1>2, <1>3, <2>1, <3>3 DEF Dealt, Disjoint
    <3>4. CASE (\E h \in 1 .. n : i = 3 + h) /\ \E h \in 1 .. n : j = 3 + h
      <4>1. PICK g \in 1 .. n, h \in 1 .. n : i = 3 + g /\ j = 3 + h
        BY <3>4
      <4>2. g # h /\ l[i] = o[g] /\ l[j] = o[h]
        BY <1>3, <2>2, <4>1
      <4> QED BY <1>2, <4>2 DEF Dealt, Disjoint
    <3> QED BY <1>3, <3>1, <3>2, <3>3, <3>4
  <2> QED BY <2>2
<1>6. ASSUME NEW u, NEW x
      PROVE  (\E i \in 1 .. 3 + n : Has(l[i], u, x)) <=> u \in Units /\ x = w[u] /\ x # Hole
  <2>1. Somewhere(a, b, d, o, u, x) <=> u \in Units /\ x = w[u] /\ x # Hole
    BY DEF Dealt
  <2>2. 1 \in 1 .. 3 + n /\ 2 \in 1 .. 3 + n /\ 3 \in 1 .. 3 + n /\ \A j \in 1 .. n : 3 + j \in 1 .. 3 + n
    OBVIOUS
  <2>3. Somewhere(a, b, d, o, u, x) => \E i \in 1 .. 3 + n : Has(l[i], u, x)
    <3>1. CASE \E j \in 1 .. n : Has(o[j], u, x)
      BY <1>3, <2>2, <3>1
    <3>2. CASE Has(a, u, x) \/ Has(b, u, x) \/ Has(d, u, x)
      BY <1>3, <2>2, <3>2
    <3> QED BY <1>2, <3>1, <3>2 DEF Somewhere
  <2>4. (\E i \in 1 .. 3 + n : Has(l[i], u, x)) => Somewhere(a, b, d, o, u, x)
    BY <1>2, <1>3 DEF Somewhere
  <2> QED BY <2>1, <2>3, <2>4
<1> QED BY <1>3, <1>4, <1>5, <1>6 DEF OnePlace

\* No cell that was queued is lost, doubled or changed by dealing out, splitting
\* and moving back, and none appears that was not.
THEOREM ResparseLosesNothing == ResparseSpec => []NothingLost
<1>1. ResparseInv => NothingLost
  <2> SUFFICES ASSUME ResparseInv, NEW u \in Units
               PROVE  /\ Cardinality(PieceAt(u)) = IF want[u] = Hole THEN 0 ELSE 1
                      /\ \A ik \in PieceAt(u) : LET p == Lists[ik[1]][ik[2]] IN CellOf(p, u - p.block * BlockSize) = want[u]
    BY DEF NothingLost
  <2> PICK l : l = Lists
    OBVIOUS
  <2>1. l \in Seq(Seq(Parts)) /\ OnePlace(l, Len(l), want)
    <3>1. Dealt(in_s, s, tmp, out_s, want) /\ out_s \in Seq(Seq(Parts)) /\ l = <<in_s, s, tmp>> \o out_s
      BY DEF ResparseInv, CellsInv, StateInv, Lists
    <3> QED BY <3>1, DealtIsOnePlace
  <2>2. PICK n \in Nat : n = Len(l) /\ DOMAIN l = 1 .. n
    BY <2>1
  <2>3. \A i \in 1 .. n : l[i] \in Seq(Parts) /\ Single(l[i]) /\ DOMAIN l[i] = 1 .. Len(l[i])
    BY <2>1, <2>2 DEF OnePlace
  <2>4. \A ik : ik \in PieceAt(u) <=> \E i \in 1 .. n : \E k \in 1 .. Len(l[i]) : ik = <<i, k>> /\ u \in UnitsOf(l[i][k])
    <3>1. PieceAt(u) = UNION {{<<i, k>> : k \in {k \in 1 .. Len(l[i]) : u \in UnitsOf(l[i][k])}} : i \in 1 .. n}
      BY <2>2, <2>3, SMTT(60) DEF PieceAt
    <3> QED BY <3>1
  <2>5. ASSUME NEW i \in 1 .. n, NEW k \in 1 .. Len(l[i]), u \in UnitsOf(l[i][k])
        PROVE  Holds(l[i][k], u, want[u]) /\ want[u] # Hole
    <3>1. PICK x : Holds(l[i][k], u, x)
      BY <2>5, HoldsOne
    <3>2. Has(l[i], u, x)
      BY <3>1 DEF Has
    <3>3. x = want[u] /\ x # Hole
      BY <2>1, <2>2, <3>2 DEF OnePlace
    <3> QED BY <3>1, <3>3
  <2>8. ASSUME NEW i \in 1 .. n, NEW k \in 1 .. Len(l[i]), NEW j \in 1 .. n, NEW h \in 1 .. Len(l[j]),
               NEW x, Holds(l[i][k], u, x), Holds(l[j][h], u, x)
        PROVE  i = j /\ k = h
    <3>1. Has(l[i], u, x) /\ Has(l[j], u, x)
      BY <2>8 DEF Has
    <3>2. i = j
      BY <2>1, <2>2, <3>1 DEF OnePlace, Clear
    <3>3. Overlap(l[i][k], l[i][h]) /\ h \in 1 .. Len(l[i])
      BY <2>8, <3>2 DEF Overlap
    <3> QED BY <2>3, <3>2, <3>3 DEF Single
  <2>6. Cardinality(PieceAt(u)) = IF want[u] = Hole THEN 0 ELSE 1
    <3>1. CASE want[u] = Hole
      <4>1. PieceAt(u) = {}
        BY <2>4, <2>5, <3>1
      <4> QED BY <3>1, <4>1, FS_EmptySet
    <3>2. CASE want[u] # Hole
      <4>1. PICK i \in 1 .. n : Has(l[i], u, want[u])
        BY <2>1, <2>2, <3>2 DEF OnePlace
      <4>2. PICK k \in 1 .. Len(l[i]) : Holds(l[i][k], u, want[u])
        BY <4>1 DEF Has
      <4>3. <<i, k>> \in PieceAt(u)
        BY <2>4, <4>2, HoldsOne
      <4>4. ASSUME NEW ik \in PieceAt(u) PROVE ik = <<i, k>>
        <5>1. PICK j \in 1 .. n : \E h \in 1 .. Len(l[j]) : ik = <<j, h>> /\ u \in UnitsOf(l[j][h])
          BY <2>4
        <5>2. PICK h \in 1 .. Len(l[j]) : ik = <<j, h>> /\ u \in UnitsOf(l[j][h])
          BY <5>1
        <5>3. Holds(l[j][h], u, want[u])
          BY <2>5, <5>2
        <5>4. i = j /\ k = h
          BY <2>8, <4>2, <5>3
        <5> QED BY <5>2, <5>4
      <4>5. PieceAt(u) = {<<i, k>>}
        BY <4>3, <4>4
      <4> QED BY <3>2, <4>5, FS_Singleton
    <3> QED BY <3>1, <3>2
  <2>7. ASSUME NEW ik \in PieceAt(u)
        PROVE  CellOf(l[ik[1]][ik[2]], u - l[ik[1]][ik[2]].block * BlockSize) = want[u]
    <3>1. PICK j \in 1 .. n : \E h \in 1 .. Len(l[j]) : ik = <<j, h>> /\ u \in UnitsOf(l[j][h])
      BY <2>4
    <3>2. PICK h \in 1 .. Len(l[j]) : ik = <<j, h>> /\ u \in UnitsOf(l[j][h])
      BY <3>1
    <3>3. Holds(l[j][h], u, want[u])
      BY <2>5, <3>2
    <3>4. ik[1] = j /\ ik[2] = h
      BY <3>2
    <3> QED BY <3>3, <3>4 DEF Holds
  <2> QED BY <2>6, <2>7
<1> QED BY <1>1, DealtInvariant, PTL

\* Until the counting output fails every list stays sorted; and queue_bb never
\* starts a search at a piece that went into another list.
THEOREM ResparseKeepsOrder == ResparseSpec => []ListsUsable
<1>1. ResparseInv => ListsUsable
  <2> SUFFICES ASSUME ResparseInv PROVE ListsUsable
    OBVIOUS
  <2>1. /\ in_s \in Seq(Parts) /\ s \in Seq(Parts) /\ tmp \in Seq(Parts) /\ out_s \in Seq(Seq(Parts))
        /\ last_used \in Blocks(in_s) \cup {Unset, Freed}
        /\ ~failed => InOrder(in_s, s, tmp, out_s)
    BY DEF ResparseInv, StateInv, CellsInv, OrderInv, Dealt, Sound
  <2>2. PICK n \in Nat : n = Len(out_s)
    BY <2>1
  <2>3. PICK l : l = Lists
    OBVIOUS
  <2>4. /\ l \in Seq(Seq(Parts)) /\ DOMAIN l = 1 .. 3 + n
        /\ l[1] = in_s /\ l[2] = s /\ l[3] = tmp /\ \A i \in 1 .. n : l[3 + i] = out_s[i]
        /\ \A i \in 1 .. 3 + n : i \in {1, 2, 3} \/ \E j \in 1 .. n : i = 3 + j
    BY <2>1, <2>2, <2>3, ListsAre DEF Lists
  <2>5. ASSUME NEW r \in Seq(Parts), Ordered(r) PROVE Sorted(r)
    <3>1. \A k \in 1 .. Len(r) - 1 : k \in 1 .. Len(r) /\ k + 1 \in 1 .. Len(r) /\ k < k + 1
      OBVIOUS
    <3> QED BY <2>5, <3>1 DEF Ordered, Sorted
  <2>6. ASSUME ~failed, NEW i \in DOMAIN l PROVE Sorted(l[i])
    <3>1. l[i] \in Seq(Parts)
      BY <2>4
    <3>2. /\ Ordered(in_s) /\ Ordered(s) /\ Ordered(tmp) /\ \A j \in 1 .. n : Ordered(out_s[j])
      BY <2>1, <2>2, <2>6 DEF InOrder
    <3>3. CASE i \in {1, 2, 3}
      BY <2>4, <2>5, <3>1, <3>2, <3>3
    <3>4. CASE \E j \in 1 .. n : i = 3 + j
      <4>1. PICK j \in 1 .. n : i = 3 + j
        BY <3>4
      <4>2. l[i] = out_s[j] /\ Ordered(out_s[j])
        BY <2>4, <3>2, <4>1
      <4> QED BY <2>5, <3>1, <4>2
    <3> QED BY <2>4, <3>3, <3>4
  <2>7. last_used \in {Unset, Freed} \cup {in_s[k].block : k \in DOMAIN in_s}
    <3>1. DOMAIN in_s = 1 .. Len(in_s)
      BY <2>1
    <3> QED BY <2>1, <3>1 DEF Blocks
  <2> QED BY <2>3, <2>6, <2>7 DEF ListsUsable
<1> QED BY <1>1, DealtInvariant, PTL

\* With a max_len that holds a block a file exceeds it by no more than its inner
\* gaps, only the last may be nearly empty, and every piece can be mapped where
\* an eighth of the size is a block.
THEOREM ResparsedFilesFit == ResparseSpec => []FilesFit
<1>1. ResparseInv => FilesFit
  <2> SUFFICES ASSUME ResparseInv, LargeEnough, NEW i \in DOMAIN out_s
               PROVE  LET l == out_s[i]
                      IN  /\ SizeOf(l) <= max_len + CHUNK_HEADER * Cardinality(GapsIn(l))
                          /\ i < c => 8 * SumOf(l) >= 7 * Room \/ SumOf(l) > Room - BlockSize
                          /\ Room >= 8 * BlockSize => \A k \in DOMAIN l : l[k].len > 0
    BY DEF FilesFit
  <2> PICK l : l = out_s[i]
    OBVIOUS
  <2>1. i \in 1 .. Len(out_s) /\ l \in Seq(Parts)
    <3>1. out_s \in Seq(Seq(Parts))
      BY DEF ResparseInv, StateInv
    <3> QED BY <3>1
  <2>2. NotTooLong(l, Room) /\ (i < c => Filled(l, Room))
    BY <2>1 DEF ResparseInv, FilesInv
  <2>3. max_len \in 0 .. 2^30 - 1 /\ Room = max_len - Overhead /\ Room >= BlockSize
    <3>1. max_len \in 0 .. 2^30 - 1
      BY DEF ResparseInv, StateInv
    <3> QED BY <3>1, RoomIs DEF LargeEnough, Room
  <2>4. SizeOf(l) <= max_len + CHUNK_HEADER * Cardinality(GapsIn(l))
    <3>1. PICK gaps \in Nat : gaps = Cardinality(GapsIn(l))
      <4>1. IsFiniteSet(1 .. Len(l)) /\ GapsIn(l) \subseteq 1 .. Len(l)
        <5>1. PICK n \in Nat : n = Len(l) /\ DOMAIN l = 1 .. n
          BY <2>1
        <5>2. IsFiniteSet(1 .. n)
          BY FS_Interval
        <5> QED BY <5>1, <5>2 DEF GapsIn
      <4>2. IsFiniteSet(GapsIn(l))
        BY <4>1, FS_Subset
      <4> QED BY <4>2, FS_CardinalityType
    <3>2. PICK ends \in 0 .. 2 :
            ends = IF l = <<>> THEN 1
                   ELSE (IF l[1].block > 0 THEN 1 ELSE 0) + IF EndOf(l[Len(l)]) < ImageBlocks THEN 1 ELSE 0
      OBVIOUS
    <3>3. SizeOf(l) = 7 + SumOf(l) + 3 * (gaps + ends) + 3 + 1
      BY <3>1, <3>2 DEF SizeOf, SPARSE_HEADER, CHUNK_HEADER
    <3>4. PICK sum \in Nat : sum = SumOf(l)
      BY <2>1, SumOfNat
    <3>5. sum <= Room + 3 /\ Overhead = 20 /\ CHUNK_HEADER = 3
      BY <2>2, <3>4 DEF NotTooLong, Overhead, SPARSE_HEADER, CHUNK_HEADER
    <3>6. PICK n \in Nat : n = max_len
      BY <2>3
    <3> QED BY <2>3, <3>1, <3>3, <3>4, <3>5, <3>6
  <2>5. ASSUME Room >= 8 * BlockSize, NEW k \in DOMAIN l PROVE l[k].len > 0
    <3>1. l \in Seq(Pieced)
      BY <2>1, <2>5 DEF ResparseInv, LengthInv
    <3>2. l[k] \in Pieced
      BY <3>1
    <3>3. \A r \in Pieced : r.len \in Nat \ {0}
      BY DEF Pieced, Parts
    <3> QED BY <3>2, <3>3
  <2> QED BY <2>2, <2>4, <2>5 DEF Filled
<1> QED BY <1>1, DealtInvariant, PTL
=============================================================================

-------------------------- MODULE SparseFileProofs --------------------------
(***************************************************************************)
(* Proofs about SparseFile, for every block size, image and set of pieces. *)
(***************************************************************************)
EXTENDS SparseFile, BackedBlocksProofs

Sources == {p.src : p \in Pieces} \cup {"image", "zero"}
CellSet == Sources \X Nat
\* The pieces that end at block e or before it.
Upto(e) ==
  {r \in [type : PieceTypes, block : Nat, len : Nat \ {0}, src : Sources, off : Nat] :
     EndOf(r) <= e /\ (r.type = "fill" => r.len % BlockSize = 0)}
ListOK(l, last, e) == l \in Seq(Upto(e)) /\ Ordered(l) /\ last \in Blocks(l) \cup {Unset, Freed}

-----------------------------------------------------------------------------
(* Pieces and cells.                                                       *)

LEMMA UptoIs ==
  ASSUME NEW e, NEW r \in Upto(e)
  PROVE  IsPiece(r) /\ EndOf(r) <= e /\ r.src \in Sources /\ (r.type = "fill" => r.len % BlockSize = 0)
BY DEF Upto, IsPiece

LEMMA IsUpto ==
  ASSUME NEW e, NEW r, IsPiece(r), EndOf(r) <= e, r.src \in Sources, r.type = "fill" => r.len % BlockSize = 0
  PROVE  r \in Upto(e)
BY DEF Upto, IsPiece

LEMMA PiecesUpto == Pieces \subseteq Upto(ImageBlocks) /\ ImageBlocks \in Nat
<1>1. ASSUME NEW p \in Pieces PROVE p \in Upto(ImageBlocks)
  <2>1. /\ IsPiece(p) /\ EndOf(p) <= ImageBlocks /\ p.src \in Sources
        /\ p.type = "fill" => p.len % BlockSize = 0
    BY PiecesAssumption DEF Sources
  <2> QED BY <2>1, IsUpto
<1> QED BY <1>1, PiecesAssumption

LEMMA WholeBlocks ==
  ASSUME NEW len \in Nat, len % BlockSize = 0
  PROVE  \E q \in Nat : len = q * BlockSize
<1>1. BlockSize \in Nat \ {0}
  BY BlockSizeAssumption
<1>2. PICK q : q = len \div BlockSize
  OBVIOUS
<1>3. q \in Nat /\ len = q * BlockSize + 0 /\ q * BlockSize \in Nat
  BY <1>1, <1>2, DivMod
<1> QED BY <1>3

LEMMA UptoClosed == ASSUME NEW e PROVE MergeClosed(Upto(e))
<1>1. ASSUME NEW a \in Upto(e), NEW b \in Upto(e), Mergeable(a, b) /\ EndOf(a) <= b.block
      PROVE  Join(a, b) \in Upto(e)
  <2>1. /\ IsPiece(a) /\ IsPiece(b) /\ EndOf(b) <= e /\ a.src \in Sources
        /\ b.type = "fill" => b.len % BlockSize = 0
    BY UptoIs
  <2>2. /\ IsPiece(Join(a, b)) /\ EndOf(Join(a, b)) = EndOf(b)
        /\ Join(a, b).type = a.type /\ Join(a, b).src = a.src /\ Join(a, b).len = a.len + b.len
        /\ b.type = a.type /\ a.len % BlockSize = 0
    <3>1. /\ IsPart(a) /\ IsPart(b) /\ a.len \in Nat \ {0} /\ b.len \in Nat \ {0}
      BY <2>1, PieceIsPart DEF IsPart
    <3>2. IsPart(Join(a, b)) /\ Join(a, b).len = a.len + b.len
      BY <1>1, <3>1, JoinIs
    <3>3. IsPiece(Join(a, b))
      BY <3>1, <3>2, PieceIsPart
    <3> QED BY <1>1, <3>1, <3>3, JoinIs
  <2>3. a.len \in Nat /\ b.len \in Nat /\ BlockSize \in Nat \ {0}
    BY <2>1, BlockSizeAssumption DEF IsPiece
  <2>4. a.type = "fill" => (a.len + b.len) % BlockSize = 0
    <3>1. SUFFICES ASSUME b.len % BlockSize = 0 PROVE (a.len + b.len) % BlockSize = 0
      BY <2>1, <2>2
    <3>2. PICK m \in Nat : a.len = m * BlockSize
      BY <2>2, <2>3, WholeBlocks
    <3>3. PICK n \in Nat : b.len = n * BlockSize
      BY <2>3, <3>1, WholeBlocks
    <3>4. (m + n) * BlockSize = m * BlockSize + n * BlockSize /\ m + n \in Int /\ 0 \in 0 .. BlockSize - 1
      BY <2>3
    <3>5. ((m + n) * BlockSize + 0) % BlockSize = 0
      BY <2>3, <3>4, Division
    <3>6. (m + n) * BlockSize + 0 = a.len + b.len
      BY <2>3, <3>2, <3>3, <3>4
    <3> QED BY <3>5, <3>6
  <2> QED BY <2>1, <2>2, <2>4, IsUpto
<1>2. \A p \in Upto(e) : IsPart(p)
  BY UptoIs, PieceIsPart
<1> QED BY <1>1, <1>2 DEF MergeClosed

\* What is put in a list stays in it when the list may reach further.
LEMMA ListGrows ==
  ASSUME NEW e \in Nat, NEW f \in Nat, e <= f, NEW l, NEW last, ListOK(l, last, e)
  PROVE  ListOK(l, last, f)
<1>1. ASSUME NEW r \in Upto(e) PROVE r \in Upto(f)
  <2>1. EndOf(r) \in Nat /\ EndOf(r) <= e
    BY UptoIs, EndIsBehind
  <2>2. EndOf(r) <= f
    BY <2>1
  <2> QED BY <2>2, UptoIs, IsUpto
<1>2. l \in Seq(Upto(e)) => l \in Seq(Upto(f))
  BY <1>1
<1> QED BY <1>2 DEF ListOK

LEMMA QueuedOK ==
  ASSUME NEW e, NEW l, NEW last, ListOK(l, last, e), NEW p \in Upto(e),
         \A k \in 1 .. Len(l) : Beside(l[k], p), NEW last2 \in {last, Unset}
  PROVE  LET q == Queued(l, last2, p)
         IN  /\ ListOK(q.list, q.last, e)
             /\ \A u, c : Has(q.list, u, c) <=> Has(l, u, c) \/ Holds(p, u, c)
<1>1. MergeClosed(Upto(e)) /\ l \in Seq(Upto(e)) /\ Ordered(l) /\ last2 \in Blocks(l) \cup {Unset, Freed}
  BY UptoClosed DEF ListOK
<1> DEFINE q == Queued(l, last2, p)
<1>2. /\ q.list \in Seq(Upto(e)) /\ Ordered(q.list)
      /\ q.last \in Blocks(q.list) \cup {Unset, Freed}
      /\ \A u, c : Has(q.list, u, c) <=> Has(l, u, c) \/ Holds(p, u, c)
  BY <1>1, QueuedKeeps
<1> HIDE DEF q
<1>3. ListOK(q.list, q.last, e)
  BY <1>2 DEF ListOK
<1>4. /\ ListOK(q.list, q.last, e)
      /\ \A u, c : Has(q.list, u, c) <=> Has(l, u, c) \/ Holds(p, u, c)
  BY <1>2, <1>3
<1> QED BY <1>4 DEF q

\* The cells of a piece.
LEMMA CellsAre ==
  ASSUME NEW e, NEW p \in Upto(e)
  PROVE  /\ Cells(p) \in Seq(CellSet) /\ Len(Cells(p)) = BlocksIn(p.len) * BlockSize
         /\ \A i \in 1 .. BlocksIn(p.len) * BlockSize : Cells(p)[i] = CellOf(p, i - 1)
         /\ p.len \in Nat \ {0} /\ BlocksIn(p.len) \in Nat \ {0} /\ p.len <= BlocksIn(p.len) * BlockSize
         /\ p.type = "fill" => p.len = BlocksIn(p.len) * BlockSize
         /\ \A u \in Nat : CellOf(p, u) \in CellSet
<1>1. p.len \in Nat \ {0} /\ p.off \in Nat /\ p.src \in Sources /\ p.type \in PieceTypes
  BY UptoIs DEF IsPiece
<1>2. PICK n \in Nat \ {0} : n = BlocksIn(p.len) /\ p.len <= n * BlockSize /\ n * BlockSize < p.len + BlockSize
  BY <1>1, BlocksInBounds
<1>3. PICK m \in Nat : m = n * BlockSize
  BY <1>2, UnitOrder
<1>4. ASSUME NEW u \in Nat PROVE CellOf(p, u) \in CellSet
  <2>1. Zero \in CellSet
    BY DEF Zero, CellSet, Sources
  <2>2. CASE p.type = "fill"
    <3>1. CellOf(p, u) = <<p.src, 0>>
      BY <2>2 DEF CellOf
    <3> QED BY <1>1, <3>1 DEF CellSet
  <2>3. CASE p.type # "fill" /\ u < p.len
    <3>1. CellOf(p, u) = <<p.src, p.off + u>>
      BY <2>3 DEF CellOf
    <3>2. p.off + u \in Nat
      BY <1>1
    <3> QED BY <1>1, <3>1, <3>2 DEF CellSet
  <2>4. CASE p.type # "fill" /\ ~(u < p.len)
    <3>1. CellOf(p, u) = Zero
      BY <2>4 DEF CellOf
    <3> QED BY <2>1, <3>1
  <2> QED BY <2>2, <2>3, <2>4
<1>5. Cells(p) = [u \in 1 .. m |-> CellOf(p, u - 1)]
  BY <1>2, <1>3 DEF Cells
<1>6. \A u \in 1 .. m : CellOf(p, u - 1) \in CellSet
  <2>1. \A u \in 1 .. m : u - 1 \in Nat
    OBVIOUS
  <2> QED BY <1>4, <2>1
<1>7. Cells(p) \in Seq(CellSet) /\ Len(Cells(p)) = m
  <2>1. Cells(p) \in [1 .. m -> CellSet]
    BY <1>5, <1>6
  <2> QED BY <2>1
<1>8. p.type = "fill" => p.len = m
  <2>1. SUFFICES ASSUME p.len % BlockSize = 0 PROVE p.len = m
    BY UptoIs
  <2>2. BlockSize \in Nat \ {0}
    BY BlockSizeAssumption
  <2>3. PICK q \in Nat : p.len = q * BlockSize
    BY <1>1, <2>1, WholeBlocks
  <2>4. q < n => q * BlockSize + BlockSize <= n * BlockSize
    BY <2>3, UnitOrder
  <2>5. n <= q
    BY <1>1, <1>2, <1>3, <2>2, <2>3, <2>4
  <2>6. q <= n
    BY <1>2, <2>3, UnitOrder
  <2> QED BY <1>3, <2>3, <2>5, <2>6
<1> QED BY <1>1, <1>2, <1>3, <1>4, <1>5, <1>7, <1>8

-----------------------------------------------------------------------------
(* Chunks and the file made of them.                                       *)

ChunkSet ==
  {c \in [type : {"raw", "fill", "skip", "crc"}, sz : Nat, cells : Seq(CellSet)] :
     /\ c.type \in {"raw", "fill"} => c.sz > 0
     /\ c.type = "raw" => Len(c.cells) = c.sz * BlockSize
     /\ c.type = "fill" => \E src \in Sources : c.cells = <<<<src, 0>>>>
     /\ c.type = "skip" => c.cells = <<>>
     /\ c.type = "crc" => c.sz = 0}
FileCells == CellSet \cup {<<"header", 0>>}

LEMMA ChunkOfIs ==
  ASSUME NEW e, NEW p \in Upto(e)
  PROVE  ChunkOf(p) \in ChunkSet
<1> DEFINE c == ChunkOf(p)
<1>1. /\ Cells(p) \in Seq(CellSet) /\ Len(Cells(p)) = BlocksIn(p.len) * BlockSize
      /\ BlocksIn(p.len) \in Nat \ {0} /\ p.src \in Sources
  BY CellsAre, UptoIs
<1>2. CASE p.type = "fill"
  <2>1. c = [type |-> "fill", sz |-> BlocksIn(p.len), cells |-> <<<<p.src, 0>>>>]
    BY <1>2 DEF ChunkOf
  <2>2. <<p.src, 0>> \in CellSet
    BY <1>1 DEF CellSet
  <2>3. PICK x : x = <<p.src, 0>>
    OBVIOUS
  <2>4. <<x>> \in Seq(CellSet)
    BY <2>2, <2>3
  <2> QED BY <1>1, <2>1, <2>3, <2>4 DEF ChunkSet
<1>3. CASE p.type # "fill"
  <2>1. c = [type |-> "raw", sz |-> BlocksIn(p.len), cells |-> Cells(p)]
    BY <1>3 DEF ChunkOf
  <2> QED BY <1>1, <2>1 DEF ChunkSet
<1> QED BY <1>2, <1>3

LEMMA SkipIs ==
  ASSUME NEW n \in Nat
  PROVE  SkipOf(n) \in ChunkSet
<1>1. SkipOf(n) = [type |-> "skip", sz |-> n, cells |-> <<>>] /\ <<>> \in Seq(CellSet)
  BY DEF SkipOf
<1> QED BY <1>1 DEF ChunkSet

LEMMA CrcIs ==
  ASSUME NEW x \in Seq(CellSet)
  PROVE  [type |-> "crc", sz |-> 0, cells |-> x] \in ChunkSet
BY DEF ChunkSet

\* Stream is what its recursion says.
LEMMA StreamIs ==
  ASSUME chunks \in Seq(ChunkSet)
  PROVE  /\ Stream \in [0 .. Len(chunks) -> Seq(FileCells)]
         /\ Stream[0] = <<>>
         /\ \A k \in 1 .. Len(chunks) :
              Stream[k] = Stream[k - 1] \o <<<<"header", 0>>>> \o chunks[k].cells
<1> DEFINE n == Len(chunks)
           h == <<<<"header", 0>>>>
           S == Seq(FileCells)
<1>1. n \in Nat /\ <<>> \in S /\ h \in S
  <2>1. PICK x : x = <<"header", 0>>
    OBVIOUS
  <2>2. x \in FileCells
    BY <2>1 DEF FileCells
  <2>3. <<x>> \in Seq(FileCells)
    BY <2>2
  <2> QED BY <2>1, <2>3
<1>2. \A k \in 1 .. n : chunks[k].cells \in S
  <2>1. \A k \in 1 .. n : chunks[k].cells \in Seq(CellSet)
    BY DEF ChunkSet
  <2>2. \A x \in Seq(CellSet) : x \in S
    BY DEF FileCells
  <2> QED BY <2>1, <2>2
<1> HIDE DEF h, S
<1>3. \A x, y \in S : x \o y \in S
  BY ConcatProperties DEF S
<1> DEFINE next == [kx \in (1 .. n) \X S |-> kx[2] \o h \o chunks[kx[1]].cells]
<1>4. Steps(n, S, next)
  <2>1. ASSUME NEW k \in 1 .. n, NEW x \in S PROVE next[<<k, x>>] \in S
    <3>1. next[<<k, x>>] = x \o h \o chunks[k].cells
      OBVIOUS
    <3>2. x \o h \in S /\ chunks[k].cells \in S
      BY <1>1, <1>2, <1>3
    <3> QED BY <1>3, <3>1, <3>2
  <2> QED BY <2>1 DEF Steps
<1>5. PICK f \in [0 .. n -> S] : f[0] = <<>> /\ \A k \in 1 .. n : f[k] = next[<<k, f[k - 1]>>]
  <2> HIDE DEF next, n
  <2>1. PICK f : Recursion(n, S, <<>>, next, f)
    BY <1>1, <1>4, RecursionExists
  <2> QED BY <2>1 DEF Recursion
<1> DEFINE Eq(u) == u = [k \in 0 .. n |-> IF k = 0 THEN <<>> ELSE u[k - 1] \o h \o chunks[k].cells]
           to == CHOOSE u : Eq(u)
<1>6. Eq(f)
  <2>1. ASSUME NEW k \in 1 .. n PROVE f[k] = f[k - 1] \o h \o chunks[k].cells
    <3>1. <<k, f[k - 1]>> \in (1 .. n) \X S
      BY <1>1, <1>5
    <3> QED BY <1>5, <3>1
  <2>2. \A k \in 0 .. n : f[k] = IF k = 0 THEN <<>> ELSE f[k - 1] \o h \o chunks[k].cells
    BY <1>1, <1>5, <2>1
  <2>3. f = [k \in 0 .. n |-> f[k]]
    BY <1>5
  <2> QED BY <2>2, <2>3
<1>7. Stream = to
  BY DEF Stream, StreamOf, h
<1>8. Eq(to)
  <2> HIDE DEF Eq
  <2>1. \E u : Eq(u)
    BY <1>6
  <2> QED BY <2>1
<1> HIDE DEF to
<1>9. /\ to[0] = <<>> /\ \A k \in 1 .. n : to[k] = to[k - 1] \o h \o chunks[k].cells
      /\ to = [k \in 0 .. n |-> to[k]]
  BY <1>1, <1>8
<1>10. \A k \in 0 .. n : to[k] \in S
  <2> DEFINE T == {k \in 0 .. n : to[k] \in S}
  <2>1. 0 \in T
    BY <1>1, <1>9
  <2>2. ASSUME NEW k \in 0 .. n - 1, k \in T PROVE k + 1 \in T
    <3>1. k + 1 \in 1 .. n /\ (k + 1) - 1 = k
      BY <1>1
    <3>2. to[k + 1] = to[k] \o h \o chunks[k + 1].cells
      BY <1>9, <3>1
    <3>3. to[k] \o h \in S /\ chunks[k + 1].cells \in S
      BY <1>1, <1>2, <1>3, <2>2, <3>1
    <3>4. to[k + 1] \in S
      BY <1>3, <3>2, <3>3
    <3> QED BY <1>1, <3>1, <3>4
  <2>3. 0 .. n \subseteq T
    <3> HIDE DEF T, n
    <3> QED BY <1>1, <2>1, <2>2, NatSetInduction
  <2> QED BY <2>3
<1> QED BY <1>7, <1>9, <1>10 DEF h, S

-----------------------------------------------------------------------------
(* The list and the image.                                                 *)

\* The list holds what the program asked for, and nothing else.
Cover(l, w) == \A u \in Units : \A c : Has(l, u, c) <=> w[u] = c /\ c # Hole

LEMMA UnitsAre ==
  /\ ImageBlocks * BlockSize \in Nat
  /\ \A p : IsPiece(p) /\ EndOf(p) <= ImageBlocks => UnitsOf(p) \subseteq Units
  /\ \A c \in CellSet : c # Hole
<1>1. ImageBlocks \in Nat /\ ImageBlocks * BlockSize \in Nat
  BY PiecesAssumption, UnitOrder
<1>2. ASSUME NEW p, IsPiece(p), EndOf(p) <= ImageBlocks PROVE UnitsOf(p) \subseteq Units
  <2>1. p.block \in Nat /\ EndOf(p) \in Nat
    BY <1>2, EndIsBehind
  <2>2. PICK x \in Nat : x = p.block * BlockSize
    BY <2>1, UnitOrder
  <2>3. PICK y \in Nat : y = EndOf(p) * BlockSize
    BY <2>1, UnitOrder
  <2>4. PICK z \in Nat : z = ImageBlocks * BlockSize
    BY <1>1
  <2>5. y <= z
    BY <1>1, <1>2, <2>1, <2>3, <2>4, UnitOrder
  <2> QED BY <2>2, <2>3, <2>4, <2>5 DEF UnitsOf, Units
<1>3. \A c \in CellSet : c # Hole
  <2>1. "hole" \notin Sources
    BY PiecesAssumption DEF Sources
  <2> QED BY <2>1 DEF CellSet, Hole
<1> QED BY <1>1, <1>2, <1>3

\* The units of a piece and what they hold.
LEMMA HoldsIs ==
  ASSUME NEW e, NEW p \in Upto(e)
  PROVE  /\ p.block * BlockSize \in Nat /\ UnitsOf(p) \subseteq Nat
         /\ \A u, c : Holds(p, u, c) <=> u \in UnitsOf(p) /\ c = CellOf(p, u - p.block * BlockSize)
         /\ \A u \in UnitsOf(p) :
              /\ u - p.block * BlockSize \in Nat
              /\ u - p.block * BlockSize + 1 \in 1 .. BlocksIn(p.len) * BlockSize
              /\ Cells(p)[u - p.block * BlockSize + 1] = CellOf(p, u - p.block * BlockSize)
              /\ CellOf(p, u - p.block * BlockSize) \in CellSet
<1>1. p.block \in Nat /\ EndOf(p) \in Nat /\ EndOf(p) = p.block + BlocksIn(p.len) /\ BlocksIn(p.len) \in Nat
  BY UptoIs, EndIsBehind, CellsAre DEF EndOf
<1>2. PICK x \in Nat : x = p.block * BlockSize
  BY <1>1, UnitOrder
<1>3. PICK n \in Nat : n = BlocksIn(p.len) * BlockSize
  BY <1>1, UnitOrder
<1>4. EndOf(p) * BlockSize = x + n
  <2>1. BlockSize \in Nat
    BY BlockSizeAssumption
  <2> QED BY <1>1, <1>2, <1>3, <2>1
<1>5. UnitsOf(p) = x .. x + n - 1
  BY <1>2, <1>4 DEF UnitsOf
<1>6. \A u, c : Holds(p, u, c) <=> u \in UnitsOf(p) /\ c = CellOf(p, u - p.block * BlockSize)
  BY DEF Holds, UnitsOf
<1>7. ASSUME NEW u \in UnitsOf(p)
      PROVE  /\ u - x \in Nat /\ u - x + 1 \in 1 .. n
             /\ Cells(p)[u - x + 1] = CellOf(p, u - x) /\ CellOf(p, u - x) \in CellSet
  <2>1. u - x \in Nat /\ u - x + 1 \in 1 .. n /\ (u - x + 1) - 1 = u - x
    BY <1>5
  <2> QED BY <1>3, <2>1, CellsAre
<1>8. UnitsOf(p) \subseteq Nat
  BY <1>5
<1> QED BY <1>2, <1>3, <1>6, <1>7, <1>8

\* The cell of the list at a unit, when it has one.
LEMMA CellInListIs ==
  ASSUME NEW e, NEW l \in Seq(Upto(e)), NEW u
  PROVE  IF \E c : Has(l, u, c) THEN Has(l, u, CellInList(l, u)) ELSE CellInList(l, u) = Hole
<1>1. /\ DOMAIN l = 1 .. Len(l)
      /\ \A k \in 1 .. Len(l) : l[k] \in Upto(e)
  OBVIOUS
<1>2. \A k \in 1 .. Len(l) : \A c :
        Holds(l[k], u, c) <=> u \in UnitsOf(l[k]) /\ c = CellOf(l[k], u - l[k].block * BlockSize)
  BY <1>1, HoldsIs
<1> DEFINE k == CHOOSE k \in DOMAIN l : u \in UnitsOf(l[k])
<1>3. CASE \E j \in DOMAIN l : u \in UnitsOf(l[j])
  <2>1. k \in DOMAIN l /\ u \in UnitsOf(l[k])
    BY <1>3
  <2>2. CellInList(l, u) = CellOf(l[k], u - l[k].block * BlockSize)
    BY <1>3 DEF CellInList
  <2> HIDE DEF k
  <2>3. Holds(l[k], u, CellInList(l, u)) /\ k \in 1 .. Len(l)
    BY <1>1, <1>2, <2>1, <2>2
  <2> QED BY <2>3 DEF Has
<1>4. CASE ~\E j \in DOMAIN l : u \in UnitsOf(l[j])
  <2>1. CellInList(l, u) = Hole
    BY <1>4 DEF CellInList
  <2>2. \A c : ~Has(l, u, c)
    BY <1>1, <1>2, <1>4 DEF Has
  <2> QED BY <2>1, <2>2
<1> QED BY <1>3, <1>4

\* A piece where the image is empty overlaps none of the list.
LEMMA FreeIsBeside ==
  ASSUME NEW l \in Seq(Upto(ImageBlocks)), NEW w, Cover(l, w), NEW p \in Pieces,
         \A u \in UnitsOf(p) : w[u] = Hole, NEW k \in 1 .. Len(l)
  PROVE  Beside(l[k], p)
<1>1. /\ l[k] \in Upto(ImageBlocks) /\ p \in Upto(ImageBlocks) /\ IsPiece(l[k]) /\ IsPiece(p)
      /\ EndOf(l[k]) <= ImageBlocks
  BY PiecesUpto, UptoIs
<1>2. /\ l[k].block \in Nat /\ EndOf(l[k]) \in Nat /\ l[k].block < EndOf(l[k])
      /\ p.block \in Nat /\ EndOf(p) \in Nat /\ p.block < EndOf(p)
  BY <1>1, EndIsBehind
<1>3. ASSUME NEW b \in Nat, NEW r, IsPiece(r), r.block \in Nat, EndOf(r) \in Nat, r.block <= b, b < EndOf(r)
      PROVE  b * BlockSize \in UnitsOf(r)
  <2>1. PICK x \in Nat : x = r.block * BlockSize
    BY <1>3, UnitOrder
  <2>2. PICK y \in Nat : y = EndOf(r) * BlockSize
    BY <1>3, UnitOrder
  <2>3. PICK z \in Nat : z = b * BlockSize
    BY UnitOrder
  <2>4. x <= z /\ z + BlockSize <= y /\ BlockSize \in Nat \ {0}
    BY <1>3, <2>1, <2>2, <2>3, UnitOrder, BlockSizeAssumption
  <2> QED BY <2>1, <2>2, <2>3, <2>4 DEF UnitsOf
<1>4. ASSUME NEW b \in Nat, l[k].block <= b, b < EndOf(l[k]), p.block <= b, b < EndOf(p) PROVE FALSE
  <2>1. PICK u : u = b * BlockSize
    OBVIOUS
  <2>2. u \in UnitsOf(l[k]) /\ u \in UnitsOf(p)
    BY <1>1, <1>2, <1>3, <1>4, <2>1
  <2>3. PICK c : c = CellOf(l[k], u - l[k].block * BlockSize)
    OBVIOUS
  <2>4. Holds(l[k], u, c)
    BY <1>1, <2>2, <2>3, HoldsIs
  <2>5. Has(l, u, c) /\ u \in Units
    BY <1>1, <2>2, <2>4, UnitsAre DEF Has
  <2>6. w[u] = c /\ c # Hole
    BY <2>5 DEF Cover
  <2> QED BY <2>2, <2>6
<1>5. CASE l[k].block <= p.block
  <2>1. ~(p.block < EndOf(l[k]))
    BY <1>2, <1>4, <1>5
  <2> QED BY <1>2, <2>1 DEF Beside
<1>6. CASE p.block <= l[k].block
  <2>1. ~(l[k].block < EndOf(p))
    BY <1>2, <1>4, <1>6
  <2> QED BY <1>2, <2>1 DEF Beside
<1> QED BY <1>2, <1>5, <1>6

\* sparse_file_add_data and its like keep the list and the image together.
Asked(w, p) == [u \in Units |-> IF u \in UnitsOf(p) THEN Cells(p)[u - p.block * BlockSize + 1] ELSE w[u]]
ImageOK(l, last, w) ==
  ListOK(l, last, ImageBlocks) /\ w \in [Units -> CellSet \cup {Hole}] /\ Cover(l, w)

LEMMA QueuedCovers ==
  ASSUME NEW l, NEW last, NEW w, ImageOK(l, last, w), NEW p \in Pieces,
         \A u \in UnitsOf(p) : w[u] = Hole, NEW x \in {last, Unset}
  PROVE  ImageOK(Queued(l, x, p).list, Queued(l, x, p).last, Asked(w, p))
<1>1. PICK q : q = Queued(l, x, p)
  OBVIOUS
<1>2. /\ ListOK(l, last, ImageBlocks) /\ l \in Seq(Upto(ImageBlocks)) /\ Cover(l, w)
      /\ w \in [Units -> CellSet \cup {Hole}] /\ p \in Upto(ImageBlocks)
  BY PiecesUpto DEF ImageOK, ListOK
<1>3. \A k \in 1 .. Len(l) : Beside(l[k], p)
  BY <1>2, FreeIsBeside
<1>4. /\ ListOK(q.list, q.last, ImageBlocks)
      /\ \A u, c : Has(q.list, u, c) <=> Has(l, u, c) \/ Holds(p, u, c)
  BY <1>1, <1>2, <1>3, QueuedOK
<1>5. PICK v : v = Asked(w, p)
  OBVIOUS
<1>6. \A u \in Units : v[u] = IF u \in UnitsOf(p) THEN CellOf(p, u - p.block * BlockSize) ELSE w[u]
  BY <1>2, <1>5, HoldsIs DEF Asked
<1>7. v \in [Units -> CellSet \cup {Hole}]
  <2>1. \A u \in Units : v[u] \in CellSet \cup {Hole}
    BY <1>2, <1>6, HoldsIs
  <2>2. v = [u \in Units |-> v[u]]
    BY <1>5 DEF Asked
  <2> QED BY <2>1, <2>2
<1>8. Cover(q.list, v)
  <2>1. SUFFICES ASSUME NEW u \in Units, NEW c PROVE Has(q.list, u, c) <=> v[u] = c /\ c # Hole
    BY DEF Cover
  <2>2. Has(l, u, c) <=> w[u] = c /\ c # Hole
    BY <1>2 DEF Cover
  <2>3. Holds(p, u, c) <=> u \in UnitsOf(p) /\ c = CellOf(p, u - p.block * BlockSize)
    BY <1>2, HoldsIs
  <2>4. CASE u \in UnitsOf(p)
    <3>1. w[u] = Hole
      BY <2>4
    <3>2. CellOf(p, u - p.block * BlockSize) # Hole
      BY <1>2, <2>4, HoldsIs, UnitsAre
    <3> QED BY <1>4, <1>6, <2>2, <2>3, <2>4, <3>1, <3>2
  <2>5. CASE u \notin UnitsOf(p)
    BY <1>4, <1>6, <2>2, <2>3, <2>5
  <2> QED BY <2>4, <2>5
<1> QED BY <1>1, <1>4, <1>5, <1>7, <1>8 DEF ImageOK

-----------------------------------------------------------------------------
(* Types and lists, whatever fails.                                        *)

OutOK(p, o, cs, crc) ==
  /\ p \in [Units -> CellSet \cup {Hole}] /\ o \in Nat
  /\ cs \in Seq(ChunkSet) /\ crc \in Seq(CellSet)
\* write_all_blocks is behind the pieces it wrote and not behind the next one.
FrontOK ==
  /\ pc = "queue" => at = 1 /\ last_block = 0
  /\ pc = "write" =>
       /\ at \in 1 .. Len(bbl) + 1 /\ last_block \in Nat /\ last_block <= ImageBlocks
       /\ at <= Len(bbl) => last_block <= bbl[at].block
ReadOK(l, last, b) == ListOK(l, last, b) /\ b \in Nat
ListInv ==
  /\ format \in [sparse : BOOLEAN, crc : BOOLEAN]
  /\ ImageOK(bbl, last_used, want)
  /\ OutOK(plain, pos, chunks, crc32)
  /\ FrontOK
  /\ ReadOK(rlist, rlast, cur_block) /\ rpos \in Nat \ {0}

LEMMA EmptyList == ASSUME NEW e \in Nat PROVE ListOK(<<>>, Unset, e) /\ \A u, c : ~Has(<<>>, u, c)
<1>1. PICK l : l = <<>>
  OBVIOUS
<1>2. l \in Seq(Upto(e)) /\ Len(l) = 0
  BY <1>1
<1>3. Ordered(l) /\ \A u, c : ~Has(l, u, c)
  BY <1>2 DEF Ordered, Has
<1> QED BY <1>1, <1>2, <1>3 DEF ListOK

LEMMA ListInit == ASSUME SparseInit PROVE ListInv
<1>1. ImageBlocks \in Nat /\ 0 \in Nat /\ BlockSize \in Nat \ {0}
  BY PiecesAssumption, BlockSizeAssumption
<1>2. want \in [Units -> CellSet \cup {Hole}] /\ plain = want /\ \A u \in Units : want[u] = Hole
  BY DEF SparseInit
<1>3. ImageOK(bbl, last_used, want)
  <2>1. Cover(<<>>, want)
    BY <1>2, <1>1, EmptyList DEF Cover
  <2> QED BY <1>1, <1>2, <2>1, EmptyList DEF ImageOK, SparseInit
<1>4. OutOK(plain, pos, chunks, crc32)
  BY <1>2 DEF OutOK, SparseInit
<1>5. ReadOK(rlist, rlast, cur_block) /\ rpos \in Nat \ {0}
  BY <1>1, EmptyList DEF ReadOK, SparseInit
<1>6. FrontOK /\ format \in [sparse : BOOLEAN, crc : BOOLEAN]
  BY DEF FrontOK, SparseInit
<1> QED BY <1>3, <1>4, <1>5, <1>6 DEF ListInv

\* The pieces of the image's list.
LEMMA BblIs ==
  ASSUME ListInv
  PROVE  /\ bbl \in Seq(Upto(ImageBlocks)) /\ Len(bbl) \in Nat /\ ImageBlocks \in Nat
         /\ \A k \in 1 .. Len(bbl) :
              /\ bbl[k] \in Upto(ImageBlocks)
              /\ bbl[k].block \in Nat /\ EndOf(bbl[k]) \in Nat
              /\ bbl[k].block < EndOf(bbl[k]) /\ EndOf(bbl[k]) <= ImageBlocks
              /\ Behind(bbl[k]) = EndOf(bbl[k])
         /\ \A i, j \in 1 .. Len(bbl) : i < j => EndOf(bbl[i]) <= bbl[j].block
<1>1. bbl \in Seq(Upto(ImageBlocks)) /\ Ordered(bbl)
  BY DEF ListInv, ImageOK, ListOK
<1>2. ASSUME NEW k \in 1 .. Len(bbl)
      PROVE  /\ bbl[k] \in Upto(ImageBlocks)
             /\ bbl[k].block \in Nat /\ EndOf(bbl[k]) \in Nat
             /\ bbl[k].block < EndOf(bbl[k]) /\ EndOf(bbl[k]) <= ImageBlocks
             /\ Behind(bbl[k]) = EndOf(bbl[k])
  <2>1. bbl[k] \in Upto(ImageBlocks)
    BY <1>1
  <2>2. IsPiece(bbl[k]) /\ EndOf(bbl[k]) <= ImageBlocks
    BY <2>1, UptoIs
  <2> QED BY <2>1, <2>2, EndIsBehind DEF Behind, EndOf
<1>3. \A i, j \in 1 .. Len(bbl) : i < j => EndOf(bbl[i]) <= bbl[j].block
  BY <1>1 DEF Ordered
<1>4. Len(bbl) \in Nat /\ ImageBlocks \in Nat
  BY <1>1, PiecesUpto
<1> QED BY <1>1, <1>2, <1>3, <1>4

LEMMA PutSkipOK ==
  ASSUME OutOK(plain, pos, chunks, crc32), NEW n \in Nat, PutSkip(n), crc32' = crc32
  PROVE  OutOK(plain', pos', chunks', crc32')
<1>1. SkipOf(n) \in ChunkSet /\ n * BlockSize \in Nat
  BY SkipIs, UnitOrder
<1>2. CASE format.sparse
  <2>1. PICK s \in ChunkSet : s = SkipOf(n)
    BY <1>1
  <2>2. chunks' = Append(chunks, s) /\ plain' = plain /\ pos' = pos
    BY <1>2, <2>1 DEF PutSkip
  <2>3. chunks' \in Seq(ChunkSet)
    BY <2>1, <2>2 DEF OutOK
  <2> QED BY <2>2, <2>3 DEF OutOK
<1>3. CASE ~format.sparse
  BY <1>1, <1>3 DEF OutOK, PutSkip
<1> QED BY <1>2, <1>3

LEMMA PutPlainOK ==
  ASSUME OutOK(plain, pos, chunks, crc32), NEW e, NEW p \in Upto(e), PutPlain(Cells(p), p.len)
  PROVE  plain' \in [Units -> CellSet \cup {Hole}] /\ pos' \in Nat
<1>1. /\ Cells(p) \in Seq(CellSet) /\ Len(Cells(p)) \in Nat /\ p.len \in Nat /\ p.len <= Len(Cells(p))
      /\ plain \in [Units -> CellSet \cup {Hole}] /\ pos \in Nat
  BY CellsAre DEF OutOK
<1>2. pos' = pos + Len(Cells(p))
  BY DEF PutPlain
<1>3. ASSUME NEW u \in Units, u \in pos .. pos + p.len - 1 PROVE Cells(p)[u - pos + 1] \in CellSet
  <2>1. u - pos + 1 \in 1 .. Len(Cells(p))
    BY <1>1, <1>3
  <2> QED BY <1>1, <2>1
<1>4. plain' = [u \in Units |-> IF u \in pos .. pos + p.len - 1 THEN Cells(p)[u - pos + 1] ELSE plain[u]]
  BY DEF PutPlain
<1> QED BY <1>1, <1>2, <1>3, <1>4

LEMMA ChecksumOK ==
  ASSUME NEW e, NEW p \in Upto(e)
  PROVE  Checksum(p) \in Seq(CellSet)
<1>1. Cells(p) \in Seq(CellSet) /\ Len(Cells(p)) = BlocksIn(p.len) * BlockSize /\ BlocksIn(p.len) \in Nat \ {0}
  BY CellsAre
<1>2. BlockSize \in Nat \ {0} /\ BlockSize <= Len(Cells(p))
  <2>1. 0 * BlockSize + BlockSize <= BlocksIn(p.len) * BlockSize
    BY <1>1, UnitOrder
  <2>2. BlockSize \in Nat \ {0}
    BY BlockSizeAssumption
  <2>3. 0 * BlockSize = 0
    BY <2>2
  <2> QED BY <1>1, <2>1, <2>2, <2>3
<1>3. SubSeq(Cells(p), 1, BlockSize) \in Seq(CellSet)
  <2>1. \A i \in 1 .. BlockSize : Cells(p)[i] \in CellSet
    BY <1>1, <1>2
  <2> QED BY <1>2, <2>1, SubSeqProperties
<1> QED BY <1>1, <1>3 DEF Checksum

\* sparse_file_add_fd and sparse_file_add_fill of the reader.
LEMMA KeepOK ==
  ASSUME ReadOK(rlist, rlast, cur_block), NEW e \in Nat, cur_block <= e,
         NEW p \in Upto(e), p.block = cur_block, Keep(p)
  PROVE  /\ ReadOK(rlist', rlast', e) /\ pc' \in {"read", "undefined"}
         /\ pc' = "read" => \A u, c : Has(rlist', u, c) <=> Has(rlist, u, c) \/ Holds(p, u, c)
<1>1. cur_block \in Nat /\ ListOK(rlist, rlast, cur_block) /\ ListOK(rlist, rlast, e)
  BY ListGrows DEF ReadOK
<1>2. ASSUME NEW k \in 1 .. Len(rlist) PROVE Beside(rlist[k], p)
  <2>1. rlist[k] \in Upto(cur_block)
    BY <1>1 DEF ListOK
  <2>2. IsPiece(rlist[k]) /\ EndOf(rlist[k]) <= p.block
    BY <2>1, UptoIs
  <2> QED BY <2>2, EndIsBehind DEF Beside
<1>3. ASSUME NEW x \in {rlast, Unset}, NEW q, q = Queued(rlist, x, p), rlist' = q.list, rlast' = q.last
      PROVE  /\ ListOK(rlist', rlast', e)
             /\ \A u, c : Has(rlist', u, c) <=> Has(rlist, u, c) \/ Holds(p, u, c)
  BY <1>1, <1>2, <1>3, QueuedOK
<1>4. CASE ReadsLastUsed(rlist, p) /\ rlast = Freed
  <2>1. CASE pc' = "undefined" /\ UNCHANGED <<rlist, rlast>>
    BY <1>1, <2>1 DEF ReadOK
  <2>2. CASE LET q == Queued(rlist, Unset, p) IN rlist' = q.list /\ rlast' = q.last /\ pc' = "read"
    <3>1. PICK q : q = Queued(rlist, Unset, p)
      OBVIOUS
    <3>2. rlist' = q.list /\ rlast' = q.last /\ pc' = "read"
      BY <2>2, <3>1
    <3>3. /\ ListOK(rlist', rlast', e)
          /\ \A u, c : Has(rlist', u, c) <=> Has(rlist, u, c) \/ Holds(p, u, c)
      BY <1>3, <3>1, <3>2
    <3> QED BY <3>2, <3>3 DEF ReadOK
  <2> QED BY <1>4, <2>1, <2>2 DEF Keep
<1>5. CASE ~(ReadsLastUsed(rlist, p) /\ rlast = Freed)
  <2>1. PICK q : q = Queued(rlist, rlast, p)
    OBVIOUS
  <2>2. rlist' = q.list /\ rlast' = q.last /\ pc' = "read"
    BY <1>5, <2>1 DEF Keep
  <2>3. /\ ListOK(rlist', rlast', e)
        /\ \A u, c : Has(rlist', u, c) <=> Has(rlist, u, c) \/ Holds(p, u, c)
    BY <1>3, <2>1, <2>2
  <2> QED BY <2>2, <2>3 DEF ReadOK
<1> QED BY <1>4, <1>5

\* The piece the reader keeps of a raw chunk or a fill.
PieceOf(c, k) ==
  [type |-> IF c.type = "fill" THEN "fill" ELSE "fd", block |-> cur_block, len |-> c.sz * BlockSize,
   src |-> IF c.type = "fill" THEN c.cells[1][1] ELSE "image",
   off |-> IF c.type = "fill" THEN 0 ELSE BodyOffset(k)]

\* A piece of whole blocks.
Piece(t, b, n, src, off) == [type |-> t, block |-> b, len |-> n * BlockSize, src |-> src, off |-> off]

LEMMA WholePiece ==
  ASSUME NEW t \in PieceTypes, NEW b \in Nat, NEW n \in Nat \ {0}, NEW src \in Sources, NEW off \in Nat
  PROVE  Piece(t, b, n, src, off) \in Upto(b + n) /\ EndOf(Piece(t, b, n, src, off)) = b + n
<1>1. PICK m : m = n * BlockSize
  OBVIOUS
<1>2. BlockSize \in Nat \ {0} /\ m \in Nat
  BY <1>1, BlockSizeAssumption, UnitOrder
<1>3. m >= BlockSize
  <2>1. 0 * BlockSize + BlockSize <= m
    BY <1>1, UnitOrder
  <2>2. 0 * BlockSize = 0
    BY <1>2
  <2> QED BY <1>2, <2>1, <2>2
<1>4. BlocksIn(m) = n
  BY <1>1, <1>2, BlocksInIs
<1>5. m % BlockSize = 0
  <2>1. n \in Int /\ 0 \in 0 .. BlockSize - 1
    BY <1>2
  <2>2. (n * BlockSize + 0) % BlockSize = 0
    BY <1>2, <2>1, Division
  <2>3. n * BlockSize + 0 = m
    BY <1>1, <1>2
  <2> QED BY <2>2, <2>3
<1>6. PICK p : p = [type |-> t, block |-> b, len |-> m, src |-> src, off |-> off]
  OBVIOUS
<1>7. /\ p.type = t /\ p.block = b /\ p.len = m /\ p.src = src /\ p.off = off
      /\ p = [type |-> p.type, block |-> p.block, len |-> p.len, src |-> p.src, off |-> p.off]
  BY <1>6
<1>8. IsPiece(p)
  <2>1. m \in Nat \ {0}
    BY <1>2, <1>3
  <2> QED BY <1>7, <2>1 DEF IsPiece
<1>9. EndOf(p) = b + n
  BY <1>4, <1>7 DEF EndOf
<1>10. p \in Upto(b + n)
  BY <1>5, <1>7, <1>8, <1>9, IsUpto
<1> QED BY <1>1, <1>6, <1>9, <1>10 DEF Piece

LEMMA PieceOfIs ==
  ASSUME chunks \in Seq(ChunkSet), NEW k \in 1 .. Len(chunks), chunks[k].type \in {"raw", "fill"}, cur_block \in Nat
  PROVE  /\ PieceOf(chunks[k], k) \in Upto(cur_block + chunks[k].sz)
         /\ PieceOf(chunks[k], k).block = cur_block
         /\ EndOf(PieceOf(chunks[k], k)) = cur_block + chunks[k].sz
<1>1. PICK c : c = chunks[k]
  OBVIOUS
<1>2. c \in ChunkSet /\ c.type \in {"raw", "fill"} /\ c.sz \in Nat \ {0}
  BY <1>1 DEF ChunkSet
<1>3. PICK p : p = PieceOf(c, k)
  OBVIOUS
<1>4. CASE c.type = "fill"
  <2>1. PICK src \in Sources : c.cells = <<<<src, 0>>>>
    BY <1>2, <1>4 DEF ChunkSet
  <2>0. PICK off \in Nat : off = 0
    OBVIOUS
  <2>3. PICK t \in PieceTypes : t = "fill"
    BY DEF PieceTypes
  <2>5. PICK n \in Nat \ {0} : n = c.sz
    BY <1>2
  <2>2. p = Piece(t, cur_block, n, src, off) /\ p.block = cur_block
    BY <1>3, <1>4, <2>0, <2>1, <2>3, <2>5 DEF PieceOf, Piece
  <2>6. p \in Upto(cur_block + n) /\ EndOf(p) = cur_block + n
    <3>1. PICK r : r = Piece(t, cur_block, n, src, off)
      OBVIOUS
    <3>2. r \in Upto(cur_block + n)
      BY <3>1, WholePiece
    <3>3. EndOf(r) = cur_block + n
      BY <3>1, WholePiece
    <3> QED BY <2>2, <3>1, <3>2, <3>3
  <2>4. p \in Upto(cur_block + c.sz) /\ EndOf(p) = cur_block + c.sz
    BY <2>5, <2>6
  <2> QED BY <1>1, <1>3, <2>2, <2>4
<1>5. CASE c.type # "fill"
  <2>1. BodyOffset(k) \in Nat
    <3>1. k - 1 \in 0 .. Len(chunks)
      OBVIOUS
    <3>2. Stream[k - 1] \in Seq(FileCells)
      BY <3>1, StreamIs
    <3> QED BY <3>2 DEF BodyOffset
  <2>2. PICK t \in PieceTypes : t = "fd"
    BY DEF PieceTypes
  <2>3. PICK src \in Sources : src = "image"
    BY DEF Sources
  <2>4. PICK off \in Nat : off = BodyOffset(k)
    BY <2>1
  <2>5. PICK n \in Nat \ {0} : n = c.sz
    BY <1>2
  <2>6. p = Piece(t, cur_block, n, src, off) /\ p.block = cur_block
    BY <1>3, <1>5, <2>2, <2>3, <2>4, <2>5 DEF PieceOf, Piece
  <2>7. PICK r : r = Piece(t, cur_block, n, src, off)
    OBVIOUS
  <2>8. r \in Upto(cur_block + n) /\ EndOf(r) = cur_block + n
    <3>1. PICK b \in Nat : b = cur_block
      OBVIOUS
    <3>2. r = Piece(t, b, n, src, off)
      BY <2>7, <3>1
    <3> HIDE DEF Piece, EndOf, Upto
    <3>3. r \in Upto(b + n)
      BY <3>2, WholePiece
    <3>4. EndOf(r) = b + n
      BY <3>2, WholePiece
    <3> QED BY <3>1, <3>3, <3>4
  <2>10. p \in Upto(cur_block + c.sz) /\ EndOf(p) = cur_block + c.sz
    BY <2>5, <2>6, <2>7, <2>8
  <2> QED BY <1>1, <1>3, <2>6, <2>10
<1> QED BY <1>4, <1>5

\* The piece the reader keeps of a block of a plain file.
PlainCell(i) ==
  IF plain[cur_block * BlockSize + i] = Hole THEN Zero ELSE plain[cur_block * BlockSize + i]
Uniform == \A i \in 0 .. BlockSize - 1 : PlainCell(i) = PlainCell(0)
PlainPiece ==
  [type |-> IF Uniform THEN "fill" ELSE "fd", block |-> cur_block, len |-> BlockSize,
   src |-> IF Uniform THEN PlainCell(0)[1] ELSE "image",
   off |-> IF Uniform THEN 0 ELSE cur_block * BlockSize]

LEMMA PlainPieceIs ==
  ASSUME plain \in [Units -> CellSet \cup {Hole}], cur_block \in Nat, cur_block < ImageBlocks
  PROVE  /\ PlainPiece \in Upto(cur_block + 1) /\ PlainPiece.block = cur_block
         /\ EndOf(PlainPiece) = cur_block + 1
         /\ \A i \in 0 .. BlockSize - 1 : cur_block * BlockSize + i \in Units /\ PlainCell(i) \in CellSet
<1>1. BlockSize \in Nat \ {0} /\ ImageBlocks \in Nat
  BY BlockSizeAssumption, PiecesAssumption
<1>2. PICK x \in Nat : x = cur_block * BlockSize
  BY UnitOrder
<1>3. PICK y \in Nat : y = ImageBlocks * BlockSize /\ x + BlockSize <= y
  BY <1>1, <1>2, UnitOrder
<1>4. ASSUME NEW i \in 0 .. BlockSize - 1 PROVE x + i \in Units /\ PlainCell(i) \in CellSet
  <2>1. x + i \in Units
    BY <1>1, <1>3 DEF Units
  <2>2. Zero \in CellSet
    BY DEF Zero, CellSet, Sources
  <2> QED BY <1>2, <2>1, <2>2 DEF PlainCell
<1>5. PlainCell(0)[1] \in Sources
  <2>1. 0 \in 0 .. BlockSize - 1
    BY <1>1
  <2>2. PlainCell(0) \in CellSet
    BY <1>4, <2>1
  <2> QED BY <2>2 DEF CellSet
<1>6. PICK p : p = PlainPiece
  OBVIOUS
<1>7. PICK t \in PieceTypes : t = IF Uniform THEN "fill" ELSE "fd"
  BY DEF PieceTypes
<1>8. PICK src \in Sources : src = IF Uniform THEN PlainCell(0)[1] ELSE "image"
  BY <1>5 DEF Sources
<1>9. PICK off \in Nat : off = IF Uniform THEN 0 ELSE cur_block * BlockSize
  BY <1>2
<1>10. p = Piece(t, cur_block, 1, src, off) /\ p.block = cur_block
  BY <1>1, <1>6, <1>7, <1>8, <1>9 DEF PlainPiece, Piece
<1>11. p \in Upto(cur_block + 1) /\ EndOf(p) = cur_block + 1
  BY <1>10, WholePiece
<1> QED BY <1>2, <1>4, <1>6, <1>10, <1>11

\* Only the output and what it counts change, and a write may fail.
LEMMA WriteKeeps ==
  ASSUME ListInv, UNCHANGED queueVars, UNCHANGED readVars,
         format' \in [sparse : BOOLEAN, crc : BOOLEAN], FrontOK', OutOK(plain, pos, chunks, crc32)'
  PROVE  ListInv'
<1>1. /\ bbl' = bbl /\ last_used' = last_used /\ want' = want
      /\ rlist' = rlist /\ rlast' = rlast /\ cur_block' = cur_block /\ rpos' = rpos
  BY DEF queueVars, readVars
<1>2. ImageOK(bbl, last_used, want)' /\ ReadOK(rlist, rlast, cur_block)' /\ rpos' \in Nat \ {0}
  BY <1>1 DEF ListInv
<1> QED BY <1>2 DEF ListInv

\* Only the reader's list and place change.
LEMMA ReadKeeps ==
  ASSUME ListInv, UNCHANGED queueVars, UNCHANGED outVars,
         pc' \notin {"queue", "write"}, ReadOK(rlist, rlast, cur_block)', rpos' \in Nat \ {0}
  PROVE  ListInv'
<1>1. /\ bbl' = bbl /\ last_used' = last_used /\ want' = want
      /\ format' = format /\ plain' = plain /\ pos' = pos /\ chunks' = chunks /\ crc32' = crc32
  BY DEF queueVars, outVars
<1>2. FrontOK'
  BY DEF FrontOK
<1>3. /\ ImageOK(bbl, last_used, want)' /\ OutOK(plain, pos, chunks, crc32)'
      /\ format' \in [sparse : BOOLEAN, crc : BOOLEAN]
  BY <1>1 DEF ListInv
<1> QED BY <1>2, <1>3 DEF ListInv

LEMMA ListQueue ==
  ASSUME ListInv, NEW p \in Pieces, Queue(p) \/ QueueAfterFree(p)
  PROVE  ListInv'
<1>1. /\ pc = "queue" /\ \A u \in UnitsOf(p) : want[u] = Hole
      /\ UNCHANGED outVars /\ UNCHANGED readVars
  BY DEF Queue, QueueAfterFree
<1>2. /\ format' = format /\ plain' = plain /\ pos' = pos /\ chunks' = chunks /\ crc32' = crc32
      /\ at' = at /\ last_block' = last_block
      /\ rlist' = rlist /\ rlast' = rlast /\ cur_block' = cur_block /\ rpos' = rpos
  BY <1>1 DEF outVars, readVars
<1>3. PICK w : w = Asked(want, p)
  OBVIOUS
<1>4. \A x \in {last_used, Unset} :
        ImageOK(Queued(bbl, x, p).list, Queued(bbl, x, p).last, w)
  BY <1>1, <1>3, QueuedCovers DEF ListInv
<1>5. /\ pc' \in {"queue", "undefined"}
      /\ \/ UNCHANGED queueVars
         \/ \E x \in {last_used, Unset} :
              bbl' = Queued(bbl, x, p).list /\ last_used' = Queued(bbl, x, p).last /\ want' = w
  <2>1. CASE Queue(p)
    BY <1>1, <1>3, <2>1 DEF Queue, Asked
  <2>2. CASE QueueAfterFree(p)
    BY <1>1, <1>3, <2>2 DEF QueueAfterFree, Asked
  <2> QED BY <2>1, <2>2
<1>6. ImageOK(bbl, last_used, want)'
  <2>1. CASE UNCHANGED queueVars
    BY <2>1 DEF ListInv, queueVars
  <2>2. CASE \E x \in {last_used, Unset} :
               bbl' = Queued(bbl, x, p).list /\ last_used' = Queued(bbl, x, p).last /\ want' = w
    BY <1>4, <2>2
  <2> QED BY <1>5, <2>1, <2>2
<1>7. FrontOK'
  BY <1>1, <1>2, <1>5 DEF FrontOK, ListInv
<1>8. /\ OutOK(plain, pos, chunks, crc32)' /\ ReadOK(rlist, rlast, cur_block)' /\ rpos' \in Nat \ {0}
      /\ format' \in [sparse : BOOLEAN, crc : BOOLEAN]
  BY <1>2 DEF ListInv
<1> QED BY <1>6, <1>7, <1>8 DEF ListInv

LEMMA ListOpen == ASSUME ListInv, OpenOutput PROVE ListInv'
<1>1. /\ pc = "queue" /\ pc' \in {"write", "refused"}
      /\ UNCHANGED queueVars /\ UNCHANGED readVars
      /\ chunks' = chunks /\ plain' = plain /\ pos' = pos /\ at' = at /\ last_block' = last_block /\ crc32' = crc32
      /\ format' \in [sparse : BOOLEAN, crc : BOOLEAN]
  BY DEF OpenOutput
<1>2. bbl' = bbl /\ at = 1 /\ last_block = 0
  BY <1>1 DEF ListInv, FrontOK, queueVars
<1>3. FrontOK'
  <2>1. 1 \in 1 .. Len(bbl) + 1 /\ 0 \in Nat /\ 0 <= ImageBlocks
    BY BblIs
  <2>2. 1 <= Len(bbl) => 0 <= bbl[1].block
    BY BblIs
  <2> QED BY <1>1, <1>2, <2>1, <2>2 DEF FrontOK
<1>4. OutOK(plain, pos, chunks, crc32)'
  BY <1>1 DEF ListInv
<1> QED BY <1>1, <1>3, <1>4, WriteKeeps

LEMMA ListWrite ==
  ASSUME ListInv, WriteSkip \/ WriteBlock \/ WriteEndSkip \/ CloseOutput
  PROVE  ListInv'
<1>1. UNCHANGED queueVars /\ UNCHANGED readVars /\ format' = format /\ bbl' = bbl
  BY DEF WriteSkip, WriteBlock, WriteEndSkip, CloseOutput, queueVars
<1>2. /\ format' \in [sparse : BOOLEAN, crc : BOOLEAN] /\ OutOK(plain, pos, chunks, crc32) /\ FrontOK
  BY <1>1 DEF ListInv
<1>3. ASSUME UNCHANGED <<chunks, plain, pos, crc32>> PROVE OutOK(plain, pos, chunks, crc32)'
  BY <1>2, <1>3
<1>4. CASE WriteSkip
  <2>1. /\ pc = "write" /\ pc' = "write" /\ at <= Len(bbl) /\ bbl[at].block > last_block
        /\ last_block' = bbl[at].block /\ at' = at
        /\ \/ Fails
           \/ PutSkip(bbl[at].block - last_block) /\ crc32' = crc32
    BY <1>4 DEF WriteSkip
  <2>2. /\ at \in 1 .. Len(bbl) /\ last_block \in Nat /\ bbl[at].block \in Nat
        /\ bbl[at].block <= ImageBlocks
    <3>1. at \in 1 .. Len(bbl) /\ last_block \in Nat
      BY <1>2, <2>1, BblIs DEF FrontOK
    <3> QED BY <3>1, BblIs
  <2>3. FrontOK'
    <3>1. at \in 1 .. Len(bbl) + 1 /\ bbl[at].block <= bbl[at].block
      BY <2>2, BblIs
    <3> QED BY <1>1, <2>1, <2>2, <3>1 DEF FrontOK
  <2>4. OutOK(plain, pos, chunks, crc32)'
    <3>1. CASE Fails
      BY <1>3, <3>1 DEF Fails
    <3>2. CASE PutSkip(bbl[at].block - last_block) /\ crc32' = crc32
      <4>1. bbl[at].block - last_block \in Nat
        BY <2>1, <2>2
      <4> QED BY <1>2, <3>2, <4>1, PutSkipOK
    <3> QED BY <2>1, <3>1, <3>2
  <2> QED BY <1>1, <1>2, <2>3, <2>4, WriteKeeps
<1>5. CASE WriteBlock
  <2>1. pc = "write" /\ at <= Len(bbl)
    BY <1>5 DEF WriteBlock
  <2>2. at \in 1 .. Len(bbl) /\ bbl[at] \in Upto(ImageBlocks)
    <3>1. at \in 1 .. Len(bbl)
      BY <1>2, <2>1, BblIs DEF FrontOK
    <3> QED BY <3>1, BblIs
  <2>3. CASE Fails /\ pc' = "close"
    <3>1. OutOK(plain, pos, chunks, crc32)'
      BY <1>3, <2>3 DEF Fails
    <3>2. FrontOK'
      BY <2>3 DEF FrontOK
    <3> QED BY <1>1, <1>2, <3>1, <3>2, WriteKeeps
  <2>4. CASE /\ IF format.sparse
                THEN chunks' = Append(chunks, ChunkOf(bbl[at])) /\ UNCHANGED <<plain, pos>>
                ELSE PutPlain(Cells(bbl[at]), bbl[at].len) /\ UNCHANGED chunks
             /\ crc32' = crc32 \o Checksum(bbl[at])
             /\ last_block' = Behind(bbl[at]) /\ at' = at + 1 /\ pc' = pc
    <3>1. PICK c \in ChunkSet : c = ChunkOf(bbl[at])
      BY <2>2, ChunkOfIs
    <3>2. chunks' \in Seq(ChunkSet) /\ plain' \in [Units -> CellSet \cup {Hole}] /\ pos' \in Nat
      <4>1. CASE format.sparse
        <5>1. chunks' = Append(chunks, c) /\ plain' = plain /\ pos' = pos
          BY <2>4, <3>1, <4>1
        <5>2. chunks' \in Seq(ChunkSet)
          BY <1>2, <3>1, <5>1 DEF OutOK
        <5> QED BY <1>2, <5>1, <5>2 DEF OutOK
      <4>2. CASE ~format.sparse
        <5>1. PutPlain(Cells(bbl[at]), bbl[at].len) /\ chunks' = chunks
          BY <2>4, <4>2
        <5>2. plain' \in [Units -> CellSet \cup {Hole}] /\ pos' \in Nat
          BY <1>2, <2>2, <5>1, PutPlainOK
        <5> QED BY <1>2, <5>1, <5>2 DEF OutOK
      <4> QED BY <4>1, <4>2
    <3>3. crc32' \in Seq(CellSet)
      <4>1. Checksum(bbl[at]) \in Seq(CellSet) /\ crc32 \in Seq(CellSet)
        BY <1>2, <2>2, ChecksumOK DEF OutOK
      <4> QED BY <2>4, <4>1, ConcatProperties
    <3>4. OutOK(plain, pos, chunks, crc32)'
      BY <3>2, <3>3 DEF OutOK
    <3>5. FrontOK'
      <4>1. last_block' = EndOf(bbl[at]) /\ EndOf(bbl[at]) \in Nat /\ EndOf(bbl[at]) <= ImageBlocks
        BY <2>2, <2>4, BblIs
      <4>2. at + 1 \in 1 .. Len(bbl) + 1
        BY <2>2, BblIs
      <4>3. at + 1 <= Len(bbl) => EndOf(bbl[at]) <= bbl[at + 1].block
        <5>1. at + 1 <= Len(bbl) => at + 1 \in 1 .. Len(bbl) /\ at < at + 1
          BY <2>2
        <5> QED BY <2>2, <5>1, BblIs
      <4> QED BY <1>1, <2>1, <2>4, <4>1, <4>2, <4>3 DEF FrontOK
    <3> QED BY <1>1, <1>2, <3>4, <3>5, WriteKeeps
  <2> QED BY <1>5, <2>3, <2>4 DEF WriteBlock
<1>6. CASE WriteEndSkip
  <2>1. /\ pc = "write" /\ pc' = "close"
        /\ \/ UNCHANGED <<chunks, plain, pos, crc32>>
           \/ PutSkip(ImageBlocks - last_block) /\ crc32' = crc32
    BY <1>6 DEF WriteEndSkip, Fails
  <2>2. FrontOK'
    BY <2>1 DEF FrontOK
  <2>3. ImageBlocks - last_block \in Nat
    BY <1>2, <2>1, BblIs DEF FrontOK
  <2>4. OutOK(plain, pos, chunks, crc32)'
    BY <1>2, <1>3, <2>1, <2>3, PutSkipOK
  <2> QED BY <1>1, <1>2, <2>2, <2>4, WriteKeeps
<1>7. CASE CloseOutput
  <2>1. pc' = "closed"
    BY <1>7 DEF CloseOutput
  <2>2. FrontOK'
    BY <2>1 DEF FrontOK
  <2>3. PICK c \in ChunkSet : c = [type |-> "crc", sz |-> 0, cells |-> crc32]
    BY <1>2, CrcIs DEF OutOK
  <2>4. /\ plain' = plain /\ pos' = pos /\ crc32' = crc32
        /\ chunks' = chunks \/ chunks' = Append(chunks, c)
    BY <1>7, <2>3 DEF CloseOutput, Fails
  <2>5. chunks' \in Seq(ChunkSet)
    <3>1. chunks \in Seq(ChunkSet)
      BY <1>2 DEF OutOK
    <3>2. Append(chunks, c) \in Seq(ChunkSet)
      BY <2>3, <3>1
    <3> QED BY <2>4, <3>1, <3>2
  <2>6. OutOK(plain, pos, chunks, crc32)'
    BY <1>2, <2>4, <2>5 DEF OutOK
  <2> QED BY <1>1, <1>2, <2>2, <2>6, WriteKeeps
<1> QED BY <1>4, <1>5, <1>6, <1>7

\* A chunk that is read: its place and what becomes of the list.
LEMMA ReadChunkIs ==
  ASSUME ListInv, ReadChunk
  PROVE  /\ rpos \in 1 .. Len(chunks) /\ chunks[rpos] \in ChunkSet /\ chunks[rpos].type # "crc"
         /\ pc = "read" /\ cur_block' = cur_block + chunks[rpos].sz /\ rpos' = rpos + 1
         /\ chunks[rpos].type = "skip" => UNCHANGED <<rlist, rlast, pc>>
         /\ chunks[rpos].type # "skip" =>
              /\ Keep(PieceOf(chunks[rpos], rpos))
              /\ PieceOf(chunks[rpos], rpos) \in Upto(cur_block + chunks[rpos].sz)
              /\ PieceOf(chunks[rpos], rpos).block = cur_block
<1>1. rpos \in Nat \ {0} /\ chunks \in Seq(ChunkSet) /\ cur_block \in Nat
  BY DEF ListInv, OutOK, ReadOK
<1>2. /\ rpos <= Len(chunks) /\ chunks[rpos].type # "crc" /\ pc = "read"
      /\ cur_block' = cur_block + chunks[rpos].sz /\ rpos' = rpos + 1
      /\ chunks[rpos].type = "skip" => UNCHANGED <<rlist, rlast, pc>>
      /\ chunks[rpos].type # "skip" => Keep(PieceOf(chunks[rpos], rpos))
  BY DEF ReadChunk, PieceOf
<1>3. rpos \in 1 .. Len(chunks) /\ chunks[rpos] \in ChunkSet
  BY <1>1, <1>2
<1>4. chunks[rpos].type # "skip" => chunks[rpos].type \in {"raw", "fill"}
  BY <1>2, <1>3 DEF ChunkSet
<1> QED BY <1>1, <1>2, <1>3, <1>4, PieceOfIs

\* A block of a plain file that is read.
LEMMA ReadPlainIs ==
  ASSUME ListInv, ReadPlainBlock
  PROVE  /\ pc = "read" /\ Keep(PlainPiece) /\ PlainPiece \in Upto(cur_block + 1)
         /\ PlainPiece.block = cur_block /\ cur_block < ImageBlocks
         /\ cur_block' = cur_block + 1 /\ rpos' = rpos
         /\ UNCHANGED queueVars /\ UNCHANGED outVars /\ ~format.sparse
<1>1. cur_block \in Nat /\ plain \in [Units -> CellSet \cup {Hole}]
  BY DEF ListInv, OutOK, ReadOK
<1>2. /\ pc = "read" /\ Keep(PlainPiece) /\ cur_block < ImageBlocks
      /\ cur_block' = cur_block + 1 /\ rpos' = rpos
      /\ UNCHANGED queueVars /\ UNCHANGED outVars /\ ~format.sparse
  BY DEF ReadPlainBlock, PlainPiece, PlainCell, Uniform
<1> QED BY <1>1, <1>2, PlainPieceIs

LEMMA ListRead ==
  ASSUME ListInv, StartRead \/ ReadChunk \/ ReadChecksum \/ ReadPlainBlock \/ EndRead
  PROVE  ListInv'
<1>1. /\ ReadOK(rlist, rlast, cur_block) /\ rpos \in Nat \ {0} /\ cur_block \in Nat
  BY DEF ListInv, ReadOK
<1>2. CASE StartRead \/ ReadChecksum \/ EndRead
  <2>1. /\ UNCHANGED queueVars /\ UNCHANGED outVars /\ pc' \notin {"queue", "write"}
        /\ rlist' = rlist /\ rlast' = rlast /\ cur_block' = cur_block /\ rpos' \in {rpos, rpos + 1}
    BY <1>2 DEF StartRead, ReadChecksum, EndRead, readVars
  <2>2. ReadOK(rlist, rlast, cur_block)' /\ rpos' \in Nat \ {0}
    BY <1>1, <2>1
  <2> QED BY <2>1, <2>2, ReadKeeps
<1>3. CASE ReadChunk
  <2>1. UNCHANGED queueVars /\ UNCHANGED outVars
    BY <1>3 DEF ReadChunk
  <2>2. PICK n \in Nat : n = chunks[rpos].sz
    BY <1>3, ReadChunkIs DEF ChunkSet
  <2>3. ReadOK(rlist', rlast', cur_block + n) /\ pc' \in {"read", "undefined"}
    <3>1. CASE chunks[rpos].type = "skip"
      <4>1. rlist' = rlist /\ rlast' = rlast /\ pc' = "read"
        BY <1>3, <3>1, ReadChunkIs
      <4>2. cur_block + n \in Nat /\ cur_block <= cur_block + n
        BY <1>1
      <4> QED BY <1>1, <4>1, <4>2, ListGrows DEF ReadOK
    <3>2. CASE chunks[rpos].type # "skip"
      <4>1. PICK p \in Upto(cur_block + n) : p.block = cur_block /\ Keep(p)
        BY <1>3, <2>2, <3>2, ReadChunkIs
      <4>2. cur_block + n \in Nat /\ cur_block <= cur_block + n
        BY <1>1
      <4> QED BY <1>1, <4>1, <4>2, KeepOK
    <3> QED BY <3>1, <3>2
  <2>4. cur_block' = cur_block + n /\ rpos' \in Nat \ {0}
    BY <1>1, <1>3, <2>2, ReadChunkIs
  <2> QED BY <2>1, <2>3, <2>4, ReadKeeps
<1>4. CASE ReadPlainBlock
  <2>1. cur_block + 1 \in Nat /\ cur_block <= cur_block + 1
    BY <1>1
  <2>2. PICK p \in Upto(cur_block + 1) : p.block = cur_block /\ Keep(p)
    BY <1>4, ReadPlainIs
  <2>3. ReadOK(rlist', rlast', cur_block + 1) /\ pc' \in {"read", "undefined"}
    BY <1>1, <2>1, <2>2, KeepOK
  <2>4. cur_block' = cur_block + 1 /\ rpos' \in Nat \ {0} /\ UNCHANGED queueVars /\ UNCHANGED outVars
    BY <1>1, <1>4, ReadPlainIs
  <2> QED BY <2>3, <2>4, ReadKeeps
<1> QED BY <1>2, <1>3, <1>4

\* Whatever a step does, a failed write or freed memory that is read included,
\* both lists stay sorted and the image's list stays the image.
LEMMA ListStep == ASSUME ListInv, [SparseNext]_sparseVars PROVE ListInv'
<1>1. CASE UNCHANGED sparseVars
  <2>1. UNCHANGED queueVars /\ UNCHANGED readVars /\ UNCHANGED outVars /\ pc' = pc
    BY <1>1 DEF sparseVars
  <2>2. format' \in [sparse : BOOLEAN, crc : BOOLEAN] /\ FrontOK' /\ OutOK(plain, pos, chunks, crc32)'
    BY <2>1 DEF ListInv, FrontOK, outVars, queueVars
  <2> QED BY <2>1, <2>2, WriteKeeps
<1>2. CASE \E p \in Pieces : Queue(p) \/ QueueAfterFree(p)
  BY <1>2, ListQueue
<1>3. CASE SparseStep
  BY <1>3, ListOpen, ListWrite, ListRead DEF SparseStep
<1>4. CASE SparseEnded /\ UNCHANGED sparseVars
  BY <1>1, <1>4
<1> QED BY <1>1, <1>2, <1>3, <1>4 DEF SparseNext

THEOREM ListInvariance == SparseSpec => []ListInv
<1>1. SparseInit => ListInv
  BY ListInit
<1>2. ListInv /\ [SparseNext]_sparseVars => ListInv'
  BY ListStep
<1> QED BY <1>1, <1>2, PTL DEF SparseSpec

LEMMA ListInvIsImage == ASSUME ListInv PROVE ListIsImage
<1>1. /\ bbl \in Seq(Upto(ImageBlocks)) /\ Ordered(bbl) /\ Cover(bbl, want)
      /\ rlist \in Seq(Upto(cur_block)) /\ Ordered(rlist)
  BY DEF ListInv, ImageOK, ReadOK, ListOK
<1>2. ASSUME NEW P, NEW l \in Seq(P), Ordered(l) PROVE Sorted(l)
  <2>1. SUFFICES ASSUME NEW k \in 1 .. Len(l) - 1 PROVE EndOf(l[k]) <= l[k + 1].block
    BY DEF Sorted
  <2>2. k \in 1 .. Len(l) /\ k + 1 \in 1 .. Len(l) /\ k < k + 1
    OBVIOUS
  <2> QED BY <1>2, <2>2 DEF Ordered
<1>3. ASSUME NEW u \in Units PROVE CellInList(bbl, u) = want[u]
  <2>1. IF \E c : Has(bbl, u, c) THEN Has(bbl, u, CellInList(bbl, u)) ELSE CellInList(bbl, u) = Hole
    BY <1>1, CellInListIs
  <2>2. \A c : Has(bbl, u, c) <=> want[u] = c /\ c # Hole
    BY <1>1 DEF Cover
  <2> QED BY <2>1, <2>2
<1> QED BY <1>1, <1>2, <1>3 DEF ListIsImage

\* queue_bb: the list a file is written from, and the one its reader builds,
\* are sorted, and the first holds each cell the program queued once, at its
\* place, and no other, in whatever order the pieces came.
THEOREM ListAlwaysImage == SparseSpec => []ListIsImage
BY ListInvariance, ListInvIsImage, PTL

-----------------------------------------------------------------------------
(* What the list says of the image, and the chunks written from it.        *)

LEMMA PieceIsWanted ==
  ASSUME ListInv, NEW k \in 1 .. Len(bbl), NEW u \in UnitsOf(bbl[k])
  PROVE  u \in Units /\ want[u] = CellOf(bbl[k], u - bbl[k].block * BlockSize)
<1>1. bbl[k] \in Upto(ImageBlocks) /\ IsPiece(bbl[k]) /\ EndOf(bbl[k]) <= ImageBlocks
  BY BblIs, UptoIs
<1>2. u \in Units
  BY <1>1, UnitsAre
<1>3. PICK c : c = CellOf(bbl[k], u - bbl[k].block * BlockSize)
  OBVIOUS
<1>4. Holds(bbl[k], u, c)
  BY <1>1, <1>3, HoldsIs
<1>5. Has(bbl, u, c)
  BY <1>4 DEF Has
<1>6. Cover(bbl, want)
  BY DEF ListInv, ImageOK
<1> QED BY <1>2, <1>3, <1>5, <1>6 DEF Cover

\* Blocks no piece reaches are empty in the image.
LEMMA GapIsHole ==
  ASSUME ListInv, NEW a \in Nat, NEW b \in Nat,
         \A k \in 1 .. Len(bbl) : EndOf(bbl[k]) <= a \/ b <= bbl[k].block,
         NEW u \in Units, a * BlockSize <= u, u < b * BlockSize
  PROVE  want[u] = Hole
<1>1. SUFFICES ASSUME want[u] # Hole PROVE FALSE
  OBVIOUS
<1>2. Cover(bbl, want)
  BY DEF ListInv, ImageOK
<1>3. Has(bbl, u, want[u])
  BY <1>1, <1>2 DEF Cover
<1>4. PICK k \in 1 .. Len(bbl) : Holds(bbl[k], u, want[u])
  BY <1>3 DEF Has
<1>5. PICK x \in Nat : x = bbl[k].block * BlockSize
  BY BblIs, UnitOrder
<1>6. PICK y \in Nat : y = EndOf(bbl[k]) * BlockSize
  BY BblIs, UnitOrder
<1>7. u \in x .. y - 1
  BY <1>4, <1>5, <1>6 DEF Holds
<1>8. PICK p \in Nat : p = a * BlockSize
  BY UnitOrder
<1>9. PICK q \in Nat : q = b * BlockSize
  BY UnitOrder
<1>10. CASE EndOf(bbl[k]) <= a
  <2>1. y <= p
    BY <1>6, <1>8, <1>10, BblIs, UnitOrder
  <2> QED BY <1>7, <1>8, <2>1
<1>11. CASE b <= bbl[k].block
  <2>1. q <= x
    BY <1>5, <1>9, <1>11, BblIs, UnitOrder
  <2> QED BY <1>7, <1>9, <2>1
<1> QED BY <1>10, <1>11

\* A chunk of sz blocks from block b stands for what the image has there.
Covers(c, w, b) ==
  \A i \in 0 .. c.sz * BlockSize - 1 :
    /\ c.type = "raw" => w[b * BlockSize + i] = c.cells[i + 1]
    /\ c.type = "fill" => w[b * BlockSize + i] = c.cells[1]
    /\ c.type = "skip" => w[b * BlockSize + i] = Hole
\* Chunk k of cs starts at block s[k - 1].
Laid(cs, w, s) ==
  /\ s \in [0 .. Len(cs) -> Nat] /\ s[0] = 0
  /\ \A k \in 1 .. Len(cs) : s[k] = s[k - 1] + cs[k].sz /\ Covers(cs[k], w, s[k - 1])

LEMMA LaidAppend ==
  ASSUME NEW cs \in Seq(ChunkSet), NEW w, NEW s, Laid(cs, w, s), NEW c \in ChunkSet,
         NEW e, e = s[Len(cs)], Covers(c, w, e)
  PROVE  e \in Nat /\ \E t : Laid(Append(cs, c), w, t) /\ t[Len(Append(cs, c))] = e + c.sz
<1>1. PICK n \in Nat : n = Len(cs)
  OBVIOUS
<1>2. PICK ds : ds = Append(cs, c)
  OBVIOUS
<1>3. Len(ds) = n + 1 /\ ds[n + 1] = c /\ \A k \in 1 .. n : ds[k] = cs[k]
  BY <1>1, <1>2
<1>4. e \in Nat /\ c.sz \in Nat /\ s \in [0 .. n -> Nat] /\ s[0] = 0 /\ e = s[n]
  <2>1. s \in [0 .. n -> Nat] /\ s[0] = 0 /\ e = s[n]
    BY <1>1 DEF Laid
  <2>2. c.sz \in Nat
    BY DEF ChunkSet
  <2>3. n \in 0 .. n
    BY <1>1
  <2> QED BY <2>1, <2>2, <2>3
<1>5. PICK t : t = [k \in 0 .. n + 1 |-> IF k = n + 1 THEN e + c.sz ELSE s[k]]
  OBVIOUS
<1>6. t \in [0 .. n + 1 -> Nat] /\ t[0] = 0 /\ t[n + 1] = e + c.sz /\ \A k \in 0 .. n : t[k] = s[k]
  BY <1>1, <1>4, <1>5
<1>7. ASSUME NEW k \in 1 .. n + 1 PROVE t[k] = t[k - 1] + ds[k].sz /\ Covers(ds[k], w, t[k - 1])
  <2>1. CASE k = n + 1
    <3>1. k - 1 = n /\ n \in 0 .. n
      BY <1>1, <2>1
    <3>2. t[k - 1] = e /\ ds[k] = c
      BY <1>3, <1>4, <1>6, <2>1, <3>1
    <3> QED BY <1>6, <2>1, <3>2
  <2>2. CASE k # n + 1
    <3>1. k \in 1 .. n /\ k - 1 \in 0 .. n /\ k \in 0 .. n
      BY <1>1, <2>2
    <3>2. t[k] = s[k] /\ t[k - 1] = s[k - 1] /\ ds[k] = cs[k]
      BY <1>3, <1>6, <3>1
    <3>3. s[k] = s[k - 1] + cs[k].sz /\ Covers(cs[k], w, s[k - 1])
      BY <1>1, <3>1 DEF Laid
    <3> QED BY <3>2, <3>3
  <2> QED BY <2>1, <2>2
<1>8. Laid(ds, w, t)
  BY <1>3, <1>6, <1>7 DEF Laid
<1> QED BY <1>2, <1>3, <1>4, <1>6, <1>8

LEMMA SkipCovers ==
  ASSUME ListInv, NEW a \in Nat, NEW b \in Nat, a <= b, b <= ImageBlocks,
         \A k \in 1 .. Len(bbl) : EndOf(bbl[k]) <= a \/ b <= bbl[k].block
  PROVE  Covers(SkipOf(b - a), want, a)
<1>1. PICK x \in Nat : x = a * BlockSize
  BY UnitOrder
<1>2. PICK y \in Nat : y = b * BlockSize
  BY UnitOrder
<1>3. (b - a) * BlockSize = y - x
  BY <1>1, <1>2, BlockSizeAssumption
<1>4. PICK z \in Nat : z = ImageBlocks * BlockSize /\ y <= z
  BY <1>2, BblIs, UnitOrder
<1>5. ASSUME NEW i \in 0 .. y - x - 1 PROVE want[x + i] = Hole
  <2>1. PICK u : u = x + i
    OBVIOUS
  <2>2. x <= u /\ u < y /\ u \in 0 .. z - 1
    BY <1>4, <2>1
  <2>3. u \in Units
    BY <1>4, <2>2 DEF Units
  <2>4. a * BlockSize <= u
    BY <1>1, <2>2
  <2>5. u < b * BlockSize
    BY <1>2, <2>2
  <2> QED BY <2>1, <2>3, <2>4, <2>5, GapIsHole
<1>6. SkipOf(b - a).type = "skip" /\ SkipOf(b - a).sz = b - a
  BY DEF SkipOf
<1> QED BY <1>1, <1>3, <1>5, <1>6 DEF Covers

LEMMA ChunkCovers ==
  ASSUME ListInv, NEW k \in 1 .. Len(bbl)
  PROVE  Covers(ChunkOf(bbl[k]), want, bbl[k].block) /\ ChunkOf(bbl[k]).sz = EndOf(bbl[k]) - bbl[k].block
<1>1. PICK p \in Upto(ImageBlocks) : p = bbl[k]
  BY BblIs
<1>2. PICK n \in Nat \ {0} : n = BlocksIn(p.len)
  BY CellsAre
<1>3. PICK m \in Nat : m = n * BlockSize
  BY <1>2, UnitOrder
<1>4. PICK x \in Nat : x = p.block * BlockSize
  BY HoldsIs
<1>5. p.block \in Nat /\ EndOf(p) = p.block + n
  BY <1>1, <1>2, BblIs DEF EndOf
<1>6. UnitsOf(p) = x .. x + m - 1
  <2>1. (p.block + n) * BlockSize = x + m
    BY <1>2, <1>3, <1>4, <1>5, BlockSizeAssumption, SMTT(60)
  <2> QED BY <1>4, <1>5, <2>1, SMTT(60) DEF UnitsOf
<1>7. ASSUME NEW i \in 0 .. m - 1
      PROVE  want[x + i] = CellOf(p, i) /\ Cells(p)[i + 1] = CellOf(p, i)
  <2>1. PICK u : u = x + i
    OBVIOUS
  <2>2. u \in UnitsOf(p) /\ u - x = i
    BY <1>6, <2>1
  <2>3. want[u] = CellOf(p, i)
    BY <1>1, <1>4, <2>2, PieceIsWanted
  <2>4. i + 1 \in 1 .. m /\ (i + 1) - 1 = i
    OBVIOUS
  <2>5. \A j \in 1 .. m : Cells(p)[j] = CellOf(p, j - 1)
    BY <1>2, <1>3, CellsAre
  <2>6. Cells(p)[i + 1] = CellOf(p, i)
    BY <2>4, <2>5
  <2> QED BY <2>1, <2>3, <2>6
<1>8. PICK c : c = ChunkOf(p)
  OBVIOUS
<1>9. c.sz = n /\ c.type \in {"raw", "fill"}
  BY <1>2, <1>8 DEF ChunkOf
<1>10. ASSUME NEW i \in 0 .. m - 1
       PROVE  /\ c.type = "raw" => want[x + i] = c.cells[i + 1]
              /\ c.type = "fill" => want[x + i] = c.cells[1]
              /\ c.type = "skip" => want[x + i] = Hole
  <2>1. CASE p.type = "fill"
    <3>1. c.type = "fill" /\ c.cells[1] = <<p.src, 0>>
      BY <1>8, <2>1 DEF ChunkOf
    <3>2. CellOf(p, i) = <<p.src, 0>>
      BY <2>1 DEF CellOf
    <3> QED BY <1>7, <3>1, <3>2
  <2>2. CASE p.type # "fill"
    <3>1. c.type = "raw" /\ c.cells = Cells(p)
      BY <1>8, <2>2 DEF ChunkOf
    <3> QED BY <1>7, <3>1
  <2> QED BY <2>1, <2>2
<1>11. Covers(c, want, p.block)
  BY <1>3, <1>4, <1>9, <1>10 DEF Covers
<1> QED BY <1>1, <1>5, <1>8, <1>9, <1>11

-----------------------------------------------------------------------------
(* Where the writer is in the list, and how many chunks it has written.    *)

EndAt(l, k) == IF k = 0 THEN 0 ELSE EndOf(l[k])
\* sparse_count_chunks counts as this function does.
CountTo(l, f) ==
  /\ f \in [0 .. Len(l) -> Nat] /\ f[0] = 0
  /\ \A k \in 1 .. Len(l) : f[k] = f[k - 1] + IF l[k].block > EndAt(l, k - 1) THEN 2 ELSE 1

LEMMA EndAtIs ==
  ASSUME ListInv
  PROVE  /\ \A k \in 0 .. Len(bbl) : EndAt(bbl, k) \in Nat /\ EndAt(bbl, k) <= ImageBlocks
         /\ \A k \in 1 .. Len(bbl) : EndAt(bbl, k - 1) <= bbl[k].block /\ EndAt(bbl, k) = EndOf(bbl[k])
         /\ \A k \in 0 .. Len(bbl) : \A j \in 1 .. k : EndOf(bbl[j]) <= EndAt(bbl, k)
         /\ Last = EndAt(bbl, Len(bbl))
         /\ \A k \in 1 .. Len(bbl) : GapBefore(k) <=> bbl[k].block > EndAt(bbl, k - 1)
<1>1. PICK n \in Nat : n = Len(bbl)
  BY BblIs
<1>2. \A k \in 1 .. n : EndOf(bbl[k]) \in Nat /\ EndOf(bbl[k]) <= ImageBlocks /\ bbl[k].block \in Nat
                        /\ bbl[k].block < EndOf(bbl[k])
  BY <1>1, BblIs
<1>3. ImageBlocks \in Nat /\ \A i, j \in 1 .. n : i < j => EndOf(bbl[i]) <= bbl[j].block
  BY <1>1, BblIs
<1>4. ASSUME NEW k \in 0 .. n PROVE EndAt(bbl, k) \in Nat /\ EndAt(bbl, k) <= ImageBlocks
  <2>1. CASE k = 0
    BY <1>3, <2>1 DEF EndAt
  <2>2. CASE k # 0
    <3>1. k \in 1 .. n
      BY <2>2
    <3> QED BY <1>2, <2>2, <3>1 DEF EndAt
  <2> QED BY <2>1, <2>2
<1>5. ASSUME NEW k \in 1 .. n
      PROVE  /\ EndAt(bbl, k - 1) <= bbl[k].block /\ EndAt(bbl, k) = EndOf(bbl[k])
             /\ GapBefore(k) <=> bbl[k].block > EndAt(bbl, k - 1)
  <2>1. k # 0 /\ EndAt(bbl, k) = EndOf(bbl[k])
    BY DEF EndAt
  <2>2. CASE k = 1
    <3>1. k - 1 = 0
      BY <2>2
    <3>2. EndAt(bbl, k - 1) = 0
      BY <3>1 DEF EndAt
    <3>3. bbl[k].block >= 0
      BY <1>2
    <3>4. GapBefore(k) <=> bbl[k].block > EndAt(bbl, k - 1)
      BY <2>2, <3>2 DEF GapBefore
    <3> QED BY <2>1, <3>2, <3>3, <3>4
  <2>3. CASE k # 1
    <3>1. k - 1 \in 1 .. n /\ k - 1 < k /\ k - 1 # 0
      BY <2>3
    <3>2. EndAt(bbl, k - 1) = EndOf(bbl[k - 1])
      BY <3>1 DEF EndAt
    <3>3. EndOf(bbl[k - 1]) <= bbl[k].block
      BY <1>3, <3>1
    <3>4. GapBefore(k) <=> bbl[k].block > EndAt(bbl, k - 1)
      BY <2>3, <3>2 DEF GapBefore
    <3> QED BY <2>1, <3>2, <3>3, <3>4
  <2> QED BY <2>2, <2>3
<1>6. ASSUME NEW k \in 0 .. n, NEW j \in 1 .. k PROVE EndOf(bbl[j]) <= EndAt(bbl, k)
  <2>1. k \in 1 .. n /\ j \in 1 .. n /\ k # 0
    BY <1>1
  <2>2. EndAt(bbl, k) = EndOf(bbl[k]) /\ EndOf(bbl[k]) \in Nat
    BY <1>2, <2>1 DEF EndAt
  <2>3. CASE j = k
    BY <2>2, <2>3
  <2>4. CASE j # k
    <3>1. j < k
      BY <2>1, <2>4
    <3>2. EndOf(bbl[j]) <= bbl[k].block
      BY <1>3, <2>1, <3>1
    <3> QED BY <1>2, <2>1, <2>2, <3>2
  <2> QED BY <2>3, <2>4
<1>7. Last = EndAt(bbl, n)
  <2>1. bbl = <<>> <=> n = 0
    BY <1>1, BblIs
  <2> QED BY <1>1, <2>1 DEF Last, EndAt
<1> QED BY <1>1, <1>4, <1>5, <1>6, <1>7

\* CountChunks is what its recursion says.
LEMMA CountIs ==
  ASSUME ListInv
  PROVE  \E f : CountTo(bbl, f) /\ CountChunks = f[Len(bbl)] + IF EndAt(bbl, Len(bbl)) < ImageBlocks THEN 1 ELSE 0
<1> DEFINE n == Len(bbl)
           d(k) == IF GapBefore(k) THEN 2 ELSE 1
           next == [kx \in (1 .. n) \X Nat |-> kx[2] + d(kx[1])]
<1>1. n \in Nat /\ 0 \in Nat
  BY BblIs
<1>2. \A k \in 1 .. n : d(k) \in Nat
  OBVIOUS
<1>3. Steps(n, Nat, next)
  <2> HIDE DEF d, n
  <2>1. ASSUME NEW k \in 1 .. n, NEW x \in Nat PROVE next[<<k, x>>] \in Nat
    <3>1. next[<<k, x>>] = x + d(k)
      OBVIOUS
    <3> QED BY <1>2, <3>1
  <2> QED BY <2>1 DEF Steps
<1>4. PICK f \in [0 .. n -> Nat] : f[0] = 0 /\ \A k \in 1 .. n : f[k] = next[<<k, f[k - 1]>>]
  <2> HIDE DEF next, n
  <2>1. PICK f : Recursion(n, Nat, 0, next, f)
    BY <1>1, <1>3, RecursionExists
  <2> QED BY <2>1 DEF Recursion
<1> DEFINE Eq(u) == u = [k \in 0 .. n |-> IF k = 0 THEN 0 ELSE u[k - 1] + IF GapBefore(k) THEN 2 ELSE 1]
           to == CHOOSE u : Eq(u)
<1>5. Eq(f)
  <2>1. ASSUME NEW k \in 1 .. n PROVE f[k] = f[k - 1] + IF GapBefore(k) THEN 2 ELSE 1
    <3>1. <<k, f[k - 1]>> \in (1 .. n) \X Nat
      BY <1>1, <1>4
    <3>2. f[k] = f[k - 1] + d(k)
      BY <1>4, <3>1
    <3> QED BY <3>2
  <2>2. \A k \in 0 .. n : f[k] = IF k = 0 THEN 0 ELSE f[k - 1] + IF GapBefore(k) THEN 2 ELSE 1
    BY <1>1, <1>4, <2>1
  <2>3. f = [k \in 0 .. n |-> f[k]]
    BY <1>4
  <2> QED BY <2>2, <2>3
<1>6. CountChunks = to[n] + IF Last < ImageBlocks THEN 1 ELSE 0
  BY DEF CountChunks
<1>7. Eq(to)
  <2> HIDE DEF Eq
  <2>1. \E u : Eq(u)
    BY <1>5
  <2> QED BY <2>1
<1> HIDE DEF to
<1>8. /\ to[0] = 0 /\ \A k \in 1 .. n : to[k] = to[k - 1] + IF GapBefore(k) THEN 2 ELSE 1
      /\ to = [k \in 0 .. n |-> to[k]]
  BY <1>1, <1>7, SMTT(60)
<1>9. \A k \in 0 .. n : to[k] \in Nat
  <2> DEFINE T == {k \in 0 .. n : to[k] \in Nat}
  <2>1. 0 \in T
    BY <1>1, <1>8
  <2>2. ASSUME NEW k \in 0 .. n - 1, k \in T PROVE k + 1 \in T
    <3>1. k + 1 \in 1 .. n /\ (k + 1) - 1 = k
      BY <1>1
    <3>2. to[k + 1] = to[k] + IF GapBefore(k + 1) THEN 2 ELSE 1
      BY <1>8, <3>1
    <3>3. to[k + 1] \in Nat
      BY <2>2, <3>2
    <3> QED BY <1>1, <3>1, <3>3
  <2>3. 0 .. n \subseteq T
    <3> HIDE DEF T, n
    <3> QED BY <1>1, <2>1, <2>2, NatSetInduction
  <2> QED BY <2>3
<1>10. CountTo(bbl, to)
  <2>1. to \in [0 .. n -> Nat]
    BY <1>8, <1>9
  <2>2. \A k \in 1 .. n : to[k] = to[k - 1] + IF bbl[k].block > EndAt(bbl, k - 1) THEN 2 ELSE 1
    BY <1>8, EndAtIs
  <2> QED BY <1>8, <2>1, <2>2 DEF CountTo
<1>11. Last = EndAt(bbl, n)
  BY EndAtIs
<1> QED BY <1>6, <1>10, <1>11

-----------------------------------------------------------------------------
(* The steps of the writer, with what ListInv says of them.                *)

StartInv ==
  pc = "queue" =>
    chunks = <<>> /\ crc32 = <<>> /\ pos = 0 /\ plain = [u \in Units |-> Hole] /\ ~broken
\* The writer is behind a piece, or in front of the next one.
PlaceInv ==
  pc = "write" => \/ last_block = EndAt(bbl, at - 1)
                  \/ at <= Len(bbl) /\ last_block = bbl[at].block

LEMMA WriteSkipIs ==
  ASSUME ListInv, PlaceInv, WriteSkip
  PROVE  /\ at \in 1 .. Len(bbl) /\ pc = "write" /\ pc' = "write"
         /\ last_block = EndAt(bbl, at - 1) /\ last_block \in Nat
         /\ bbl[at].block \in Nat /\ last_block < bbl[at].block
         /\ last_block' = bbl[at].block /\ at' = at
         /\ bbl' = bbl /\ want' = want /\ header' = header /\ format' = format
         /\ UNCHANGED queueVars /\ UNCHANGED readVars
         /\ ~broken' => /\ ~broken /\ crc32' = crc32
                        /\ PutSkip(bbl[at].block - last_block)
         /\ bbl[at].block - last_block \in Nat
         /\ Covers(SkipOf(bbl[at].block - last_block), want, last_block)
<1>1. /\ pc = "write" /\ pc' = "write" /\ at <= Len(bbl) /\ bbl[at].block > last_block
      /\ last_block' = bbl[at].block /\ at' = at /\ header' = header /\ format' = format
      /\ UNCHANGED queueVars /\ UNCHANGED readVars
      /\ \/ Fails
         \/ PutSkip(bbl[at].block - last_block) /\ crc32' = crc32 /\ broken' = broken
  BY DEF WriteSkip
<1>2. at \in 1 .. Len(bbl) /\ last_block \in Nat
  BY <1>1, BblIs DEF ListInv, FrontOK
<1>3. bbl[at].block \in Nat /\ bbl[at].block <= ImageBlocks
  BY <1>2, BblIs
<1>4. last_block < bbl[at].block /\ last_block = EndAt(bbl, at - 1)
  BY <1>1, <1>2, <1>3 DEF PlaceInv
<1>5. ASSUME NEW k \in 1 .. Len(bbl)
      PROVE  EndOf(bbl[k]) <= last_block \/ bbl[at].block <= bbl[k].block
  <2>1. CASE k < at
    <3>1. at - 1 \in 0 .. Len(bbl) /\ k \in 1 .. at - 1
      BY <1>2, <2>1
    <3> QED BY <1>4, <3>1, EndAtIs
  <2>2. CASE k = at
    BY <1>3, <2>2
  <2>3. CASE at < k
    <3>1. EndOf(bbl[at]) <= bbl[k].block /\ bbl[at].block < EndOf(bbl[at])
      BY <1>2, <2>3, BblIs
    <3>2. bbl[k].block \in Nat /\ EndOf(bbl[at]) \in Nat
      BY <1>2, BblIs
    <3> QED BY <1>3, <3>1, <3>2
  <2> QED BY <1>2, <2>1, <2>2, <2>3
<1>6. PICK b : b = bbl[at].block
  OBVIOUS
<1>7. Covers(SkipOf(b - last_block), want, last_block)
  <2>1. b \in Nat /\ last_block <= b /\ b <= ImageBlocks
    BY <1>2, <1>3, <1>4, <1>6
  <2> QED BY <1>2, <1>5, <1>6, <2>1, SkipCovers
<1>8. bbl[at].block - last_block \in Nat
  BY <1>2, <1>3, <1>4
<1>9. ~broken' => /\ ~broken /\ crc32' = crc32
                  /\ PutSkip(bbl[at].block - last_block)
  BY <1>1 DEF Fails
<1>10. bbl' = bbl /\ want' = want
  BY <1>1 DEF queueVars
<1> QED BY <1>1, <1>2, <1>3, <1>4, <1>6, <1>7, <1>8, <1>9, <1>10

LEMMA WriteBlockIs ==
  ASSUME ListInv, WriteBlock
  PROVE  /\ at \in 1 .. Len(bbl) /\ pc = "write" /\ last_block = bbl[at].block /\ last_block \in Nat
         /\ bbl[at] \in Upto(ImageBlocks)
         /\ bbl' = bbl /\ want' = want /\ header' = header /\ format' = format
         /\ UNCHANGED queueVars /\ UNCHANGED readVars
         /\ \/ broken' /\ pc' = "close"
            \/ /\ broken' = broken /\ pc' = "write" /\ last_block' = EndAt(bbl, at) /\ at' = at + 1
               /\ crc32' = crc32 \o Checksum(bbl[at])
               /\ format.sparse => chunks' = Append(chunks, ChunkOf(bbl[at]))
               /\ ~format.sparse => PutPlain(Cells(bbl[at]), bbl[at].len)
<1>1. /\ pc = "write" /\ at <= Len(bbl) /\ bbl[at].block = last_block
      /\ header' = header /\ format' = format
      /\ UNCHANGED queueVars /\ UNCHANGED readVars
      /\ \/ Fails /\ pc' = "close"
         \/ /\ format.sparse => chunks' = Append(chunks, ChunkOf(bbl[at]))
            /\ ~format.sparse => PutPlain(Cells(bbl[at]), bbl[at].len)
            /\ crc32' = crc32 \o Checksum(bbl[at])
            /\ last_block' = Behind(bbl[at]) /\ at' = at + 1
            /\ broken' = broken /\ pc' = pc
  BY DEF WriteBlock
<1>2. at \in 1 .. Len(bbl) /\ last_block \in Nat
  BY <1>1, BblIs DEF ListInv, FrontOK
<1>3. bbl[at] \in Upto(ImageBlocks) /\ Behind(bbl[at]) = EndAt(bbl, at)
  BY <1>2, BblIs, EndAtIs
<1>4. bbl' = bbl /\ want' = want
  BY <1>1 DEF queueVars
<1>5. CASE Fails /\ pc' = "close"
  BY <1>1, <1>2, <1>3, <1>4, <1>5 DEF Fails
<1>6. CASE /\ format.sparse => chunks' = Append(chunks, ChunkOf(bbl[at]))
           /\ ~format.sparse => PutPlain(Cells(bbl[at]), bbl[at].len)
           /\ crc32' = crc32 \o Checksum(bbl[at])
           /\ last_block' = Behind(bbl[at]) /\ at' = at + 1
           /\ broken' = broken /\ pc' = pc
  BY <1>1, <1>2, <1>3, <1>4, <1>6
<1> QED BY <1>1, <1>5, <1>6

LEMMA WriteEndSkipIs ==
  ASSUME ListInv, PlaceInv, WriteEndSkip
  PROVE  /\ at = Len(bbl) + 1 /\ pc = "write" /\ pc' = "close"
         /\ last_block = EndAt(bbl, Len(bbl)) /\ last_block \in Nat /\ last_block <= ImageBlocks
         /\ bbl' = bbl /\ want' = want /\ header' = header /\ format' = format
         /\ UNCHANGED queueVars /\ UNCHANGED readVars
         /\ ~broken' => /\ ~broken /\ crc32' = crc32
                        /\ last_block = ImageBlocks => UNCHANGED <<chunks, plain, pos>>
                        /\ last_block # ImageBlocks => PutSkip(ImageBlocks - last_block)
         /\ ImageBlocks - last_block \in Nat
         /\ Covers(SkipOf(ImageBlocks - last_block), want, last_block)
<1>1. /\ pc = "write" /\ pc' = "close" /\ at > Len(bbl) /\ header' = header /\ format' = format
      /\ UNCHANGED queueVars /\ UNCHANGED readVars
      /\ \/ last_block = ImageBlocks /\ UNCHANGED <<chunks, plain, pos, crc32, broken>>
         \/ Fails
         \/ /\ last_block # ImageBlocks
            /\ PutSkip(ImageBlocks - last_block) /\ crc32' = crc32 /\ broken' = broken
  BY DEF WriteEndSkip
<1>2. at = Len(bbl) + 1 /\ last_block \in Nat /\ last_block <= ImageBlocks
  BY <1>1, BblIs DEF ListInv, FrontOK
<1>3. last_block = EndAt(bbl, Len(bbl))
  <2>1. at - 1 = Len(bbl) /\ ~(at <= Len(bbl))
    BY <1>2, BblIs
  <2> QED BY <1>1, <2>1 DEF PlaceInv
<1>4. ImageBlocks - last_block \in Nat /\ ImageBlocks \in Nat
  BY <1>2, BblIs
<1>5. ASSUME NEW k \in 1 .. Len(bbl)
      PROVE  EndOf(bbl[k]) <= last_block \/ ImageBlocks <= bbl[k].block
  <2>1. Len(bbl) \in 0 .. Len(bbl)
    BY BblIs
  <2> QED BY <1>3, <2>1, EndAtIs
<1>6. Covers(SkipOf(ImageBlocks - last_block), want, last_block)
  <2>1. ImageBlocks <= ImageBlocks
    BY <1>4
  <2> QED BY <1>2, <1>4, <1>5, <2>1, SkipCovers
<1>7. ~broken' => /\ ~broken /\ crc32' = crc32
                  /\ last_block = ImageBlocks => UNCHANGED <<chunks, plain, pos>>
                  /\ last_block # ImageBlocks => PutSkip(ImageBlocks - last_block)
  BY <1>1 DEF Fails
<1>8. bbl' = bbl /\ want' = want
  BY <1>1 DEF queueVars
<1> QED BY <1>1, <1>2, <1>3, <1>4, <1>6, <1>7, <1>8

LEMMA CloseIs ==
  ASSUME ListInv, CloseOutput
  PROVE  /\ pc = "close" /\ pc' = "closed"
         /\ bbl' = bbl /\ want' = want /\ header' = header /\ format' = format
         /\ UNCHANGED queueVars /\ UNCHANGED readVars
         /\ ~broken' =>
              /\ ~broken /\ crc32' = crc32 /\ plain' = plain /\ pos' = pos
              /\ format.sparse /\ format.crc => chunks' = Append(chunks, [type |-> "crc", sz |-> 0, cells |-> crc32])
              /\ ~(format.sparse /\ format.crc) => chunks' = chunks
<1>1. /\ pc = "close" /\ pc' = "closed" /\ header' = header /\ format' = format
      /\ UNCHANGED queueVars /\ UNCHANGED readVars
      /\ \/ Fails
         \/ /\ chunks' = IF format.sparse /\ format.crc
                         THEN Append(chunks, [type |-> "crc", sz |-> 0, cells |-> crc32]) ELSE chunks
            /\ plain' = plain /\ pos' = pos /\ crc32' = crc32 /\ broken' = broken
  BY DEF CloseOutput
<1>2. bbl' = bbl /\ want' = want
  BY <1>1 DEF queueVars
<1>3. CASE Fails
  BY <1>1, <1>2, <1>3 DEF Fails
<1>4. CASE /\ chunks' = IF format.sparse /\ format.crc
                        THEN Append(chunks, [type |-> "crc", sz |-> 0, cells |-> crc32]) ELSE chunks
           /\ plain' = plain /\ pos' = pos /\ crc32' = crc32 /\ broken' = broken
  BY <1>1, <1>2, <1>4
<1> QED BY <1>1, <1>3, <1>4

LEMMA OpenIs ==
  ASSUME OpenOutput
  PROVE  /\ pc = "queue" /\ pc' \in {"write", "refused"}
         /\ pc' = "refused" => broken'
         /\ bbl' = bbl /\ want' = want /\ UNCHANGED queueVars /\ UNCHANGED readVars
         /\ header'.chunks = CountChunks + (IF format'.crc THEN 1 ELSE 0) /\ header'.blks = ImageBlocks
         /\ chunks' = chunks /\ plain' = plain /\ pos' = pos /\ crc32' = crc32
         /\ at' = at /\ last_block' = last_block
<1>1. /\ pc = "queue" /\ UNCHANGED queueVars /\ UNCHANGED readVars
      /\ header' = [chunks |-> CountChunks + IF format'.crc THEN 1 ELSE 0, blks |-> ImageBlocks]
      /\ \/ pc' = "write"
         \/ broken' = TRUE /\ pc' = "refused"
      /\ chunks' = chunks /\ plain' = plain /\ pos' = pos /\ crc32' = crc32
      /\ at' = at /\ last_block' = last_block
  BY DEF OpenOutput
<1> QED BY <1>1 DEF queueVars

\* The steps of the reader, and no step.
ReaderPlaces == {"closed", "read", "accepted", "refused", "crashed", "undefined"}
Untouched ==
  /\ UNCHANGED queueVars /\ UNCHANGED outVars
  /\ \/ pc' = pc
     \/ pc \in {"closed", "read"} /\ pc' \in ReaderPlaces \ {"closed"}

LEMMA ReaderUntouched ==
  ASSUME ListInv,
         StartRead \/ ReadChunk \/ ReadChecksum \/ ReadPlainBlock \/ EndRead \/ UNCHANGED sparseVars
  PROVE  Untouched
<1>1. CASE StartRead
  BY <1>1 DEF StartRead, Untouched, ReaderPlaces
<1>2. CASE ReadChunk
  <2>1. UNCHANGED queueVars /\ UNCHANGED outVars /\ pc = "read"
    BY <1>2 DEF ReadChunk
  <2>2. pc' \in {"read", "undefined"}
    <3>1. CASE chunks[rpos].type = "skip"
      BY <1>2, <2>1, <3>1, ReadChunkIs
    <3>2. CASE chunks[rpos].type # "skip"
      BY <1>2, <3>2, ReadChunkIs DEF Keep
    <3> QED BY <3>1, <3>2
  <2> QED BY <2>1, <2>2 DEF Untouched, ReaderPlaces
<1>3. CASE ReadChecksum
  BY <1>3 DEF ReadChecksum, Untouched, ReaderPlaces
<1>4. CASE ReadPlainBlock
  <2>1. pc' \in {"read", "undefined"}
    BY <1>4, ReadPlainIs DEF Keep
  <2> QED BY <1>4, <2>1, ReadPlainIs DEF Untouched, ReaderPlaces
<1>5. CASE EndRead
  BY <1>5 DEF EndRead, Untouched, ReaderPlaces
<1>6. CASE UNCHANGED sparseVars
  BY <1>6 DEF sparseVars, Untouched
<1> QED BY <1>1, <1>2, <1>3, <1>4, <1>5, <1>6

\* Every step is one of these.
LEMMA StepIs ==
  ASSUME ListInv, [SparseNext]_sparseVars
  PROVE  \/ \E p \in Pieces : Queue(p) \/ QueueAfterFree(p)
         \/ OpenOutput \/ WriteSkip \/ WriteBlock \/ WriteEndSkip \/ CloseOutput
         \/ Untouched
BY ReaderUntouched DEF SparseNext, SparseStep

LEMMA QueueIs ==
  ASSUME NEW p \in Pieces, Queue(p) \/ QueueAfterFree(p)
  PROVE  pc = "queue" /\ pc' \in {"queue", "undefined"} /\ UNCHANGED outVars /\ UNCHANGED readVars
BY DEF Queue, QueueAfterFree

-----------------------------------------------------------------------------
(* The chunks of a sparse file no write of which failed.                   *)

Whole == format.sparse /\ ~broken /\ pc \notin {"queue", "undefined"}
EndOne(l) == IF EndAt(l, Len(l)) < ImageBlocks THEN 1 ELSE 0
CrcOne(fm) == IF fm.crc THEN 1 ELSE 0
FrontOne(l, a, b) == IF b > EndAt(l, a - 1) THEN 1 ELSE 0
\* The chunks written so far are those sparse_count_chunks counted so far.
Counted(f) ==
  /\ CountTo(bbl, f)
  /\ header.blks = ImageBlocks /\ header.chunks = f[Len(bbl)] + EndOne(bbl) + CrcOne(format)
  /\ pc = "write" => Len(chunks) = f[at - 1] + FrontOne(bbl, at, last_block)
  /\ pc = "close" => Len(chunks) = f[Len(bbl)] + EndOne(bbl)
  /\ pc \notin {"write", "close"} => Len(chunks) = header.chunks
\* They stand one behind the other for the image so far.
Placed(s) ==
  /\ Laid(chunks, want, s)
  /\ s[Len(chunks)] = IF pc = "write" THEN last_block ELSE ImageBlocks
CountInv == Whole => \E f : Counted(f)
PlacedInv == Whole => \E s : Placed(s)
ChunkInv == StartInv /\ PlaceInv /\ CountInv /\ PlacedInv

LEMMA UntouchedIs ==
  ASSUME Untouched
  PROVE  /\ bbl' = bbl /\ want' = want /\ header' = header /\ format' = format /\ chunks' = chunks
         /\ plain' = plain /\ pos' = pos /\ at' = at /\ last_block' = last_block
         /\ crc32' = crc32 /\ broken' = broken
         /\ pc = "queue" => pc' = "queue"
         /\ pc' = "queue" => pc = "queue"
         /\ pc = "write" <=> pc' = "write"
         /\ pc = "close" <=> pc' = "close"
         /\ pc = "undefined" => pc' = "undefined"
<1>1. /\ bbl' = bbl /\ want' = want /\ header' = header /\ format' = format /\ chunks' = chunks
      /\ plain' = plain /\ pos' = pos /\ at' = at /\ last_block' = last_block
      /\ crc32' = crc32 /\ broken' = broken
  BY DEF Untouched, queueVars, outVars
<1>2. \/ pc' = pc
      \/ pc \in {"closed", "read"} /\ pc' \in {"read", "accepted", "refused", "crashed", "undefined"}
  BY DEF Untouched, ReaderPlaces
<1> QED BY <1>1, <1>2

LEMMA StartKept == ASSUME ListInv, StartInv, PlaceInv, [SparseNext]_sparseVars PROVE StartInv' /\ PlaceInv'
<1>1. CASE \E p \in Pieces : Queue(p) \/ QueueAfterFree(p)
  <2>1. pc = "queue" /\ pc' \in {"queue", "undefined"} /\ UNCHANGED outVars
    BY <1>1, QueueIs
  <2>2. UNCHANGED <<chunks, crc32, pos, plain, broken>>
    BY <2>1 DEF outVars
  <2> QED BY <2>1, <2>2 DEF StartInv, PlaceInv, Units
<1>2. CASE OpenOutput
  <2>1. at = 1 /\ last_block = 0 /\ at' = at /\ last_block' = last_block /\ bbl' = bbl /\ pc' # "queue"
    BY <1>2, OpenIs DEF ListInv, FrontOK
  <2>2. EndAt(bbl', at' - 1) = 0
    BY <2>1 DEF EndAt
  <2> QED BY <2>1, <2>2 DEF StartInv, PlaceInv
<1>3. CASE WriteSkip
  <2>1. pc' = "write" /\ at' = at /\ last_block' = bbl[at].block /\ bbl' = bbl /\ at \in 1 .. Len(bbl)
    BY <1>3, WriteSkipIs
  <2> QED BY <2>1 DEF StartInv, PlaceInv
<1>4. CASE WriteBlock
  <2>1. \/ pc' = "close"
        \/ pc' = "write" /\ last_block' = EndAt(bbl, at) /\ at' = at + 1
    BY <1>4, WriteBlockIs
  <2>2. bbl' = bbl /\ at \in 1 .. Len(bbl)
    BY <1>4, WriteBlockIs
  <2>3. (at + 1) - 1 = at
    BY <2>2
  <2>4. pc' = "write" => last_block' = EndAt(bbl', at' - 1)
    BY <2>1, <2>2, <2>3
  <2> QED BY <2>1, <2>4 DEF StartInv, PlaceInv
<1>5. CASE WriteEndSkip
  BY <1>5, WriteEndSkipIs DEF StartInv, PlaceInv
<1>6. CASE CloseOutput
  BY <1>6, CloseIs DEF StartInv, PlaceInv
<1>7. CASE Untouched
  BY <1>7, UntouchedIs DEF StartInv, PlaceInv
<1> QED BY <1>1, <1>2, <1>3, <1>4, <1>5, <1>6, <1>7, StepIs

LEMMA CountKept == ASSUME ListInv, ChunkInv, [SparseNext]_sparseVars PROVE CountInv'
<1> SUFFICES ASSUME Whole' PROVE \E f : Counted(f)'
  BY DEF CountInv
<1>0. format'.sparse /\ ~broken' /\ pc' \notin {"queue", "undefined"}
  BY DEF Whole
<1>n. PICK n \in Nat : n = Len(bbl)
  BY BblIs
<1>c. PICK m \in Nat : m = Len(chunks) /\ \A c \in ChunkSet : Len(Append(chunks, c)) = m + 1
  BY DEF ListInv, OutOK
<1>1. CASE \E p \in Pieces : Queue(p) \/ QueueAfterFree(p)
  BY <1>0, <1>1, QueueIs
<1>2. CASE OpenOutput
  <2>1. /\ pc' = "write" /\ bbl' = bbl /\ header'.blks = ImageBlocks
        /\ header'.chunks = CountChunks + CrcOne(format')
        /\ chunks' = <<>> /\ at' = 1 /\ last_block' = 0
    BY <1>0, <1>2, OpenIs DEF ListInv, FrontOK, ChunkInv, StartInv, CrcOne
  <2>2. PICK f : CountTo(bbl, f) /\ CountChunks = f[n] + EndOne(bbl)
    BY <1>n, CountIs DEF EndOne
  <2>3. f[0] = 0 /\ f[n] \in Nat
    BY <1>n, <2>2 DEF CountTo
  <2>4. FrontOne(bbl', 1, 0) = 0
    BY DEF FrontOne, EndAt
  <2>5. Len(chunks') = f[at' - 1] + FrontOne(bbl', at', last_block')
    BY <2>1, <2>3, <2>4
  <2> QED BY <1>n, <2>1, <2>2, <2>5 DEF Counted
<1>3. CASE WriteSkip
  <2>1. /\ at \in 1 .. n /\ pc = "write" /\ pc' = "write"
        /\ last_block = EndAt(bbl, at - 1) /\ last_block \in Nat
        /\ bbl[at].block \in Nat /\ last_block < bbl[at].block
        /\ last_block' = bbl[at].block /\ at' = at
        /\ bbl' = bbl /\ header' = header /\ format' = format
        /\ ~broken /\ PutSkip(bbl[at].block - last_block) /\ bbl[at].block - last_block \in Nat
    BY <1>0, <1>3, <1>n, WriteSkipIs DEF ChunkInv
  <2>2. PICK f : Counted(f)
    BY <1>0, <2>1 DEF ChunkInv, CountInv, Whole
  <2>3. Len(chunks') = m + 1
    <3>1. PICK c \in ChunkSet : c = SkipOf(bbl[at].block - last_block)
      BY <2>1, SkipIs
    <3> QED BY <1>0, <1>c, <2>1, <3>1 DEF PutSkip
  <2>4. FrontOne(bbl, at, last_block) = 0 /\ FrontOne(bbl', at', last_block') = 1
    BY <2>1 DEF FrontOne
  <2>5. f[at - 1] \in Nat /\ m = f[at - 1]
    <3>1. f[at - 1] \in Nat
      BY <1>n, <2>1, <2>2 DEF Counted, CountTo
    <3> QED BY <1>c, <2>1, <2>2, <2>4, <3>1 DEF Counted
  <2>6. Len(chunks') = f[at' - 1] + FrontOne(bbl', at', last_block')
    BY <2>1, <2>3, <2>4, <2>5
  <2> QED BY <2>1, <2>2, <2>6 DEF Counted
<1>4. CASE WriteBlock
  <2>1. /\ at \in 1 .. n /\ pc = "write" /\ pc' = "write"
        /\ last_block = bbl[at].block /\ last_block \in Nat
        /\ last_block' = EndAt(bbl, at) /\ at' = at + 1
        /\ bbl' = bbl /\ header' = header /\ format' = format
        /\ ~broken /\ chunks' = Append(chunks, ChunkOf(bbl[at])) /\ bbl[at] \in Upto(ImageBlocks)
    BY <1>0, <1>4, <1>n, WriteBlockIs
  <2>2. PICK f : Counted(f)
    BY <1>0, <2>1 DEF ChunkInv, CountInv, Whole
  <2>3. Len(chunks') = m + 1
    <3>1. PICK c \in ChunkSet : c = ChunkOf(bbl[at])
      BY <2>1, ChunkOfIs
    <3> QED BY <1>c, <2>1, <3>1
  <2>4. /\ f[at] = f[at - 1] + IF last_block > EndAt(bbl, at - 1) THEN 2 ELSE 1
        /\ f[at] \in Nat /\ f[at - 1] \in Nat
    BY <1>n, <2>1, <2>2 DEF Counted, CountTo
  <2>5. m = f[at - 1] + IF last_block > EndAt(bbl, at - 1) THEN 1 ELSE 0
    BY <1>c, <2>1, <2>2 DEF Counted, FrontOne
  <2>6. m + 1 = f[at]
    BY <2>4, <2>5
  <2>7. at' - 1 = at /\ FrontOne(bbl', at', last_block') = 0
    <3>1. EndAt(bbl, at) \in Nat /\ (at + 1) - 1 = at
      BY <1>n, <2>1, EndAtIs
    <3> QED BY <2>1, <3>1 DEF FrontOne
  <2>8. Len(chunks') = f[at' - 1] + FrontOne(bbl', at', last_block')
    BY <2>3, <2>4, <2>6, <2>7
  <2> QED BY <2>1, <2>2, <2>8 DEF Counted
<1>5. CASE WriteEndSkip
  <2>1. /\ at = n + 1 /\ pc = "write" /\ pc' = "close"
        /\ last_block = EndAt(bbl, n) /\ last_block \in Nat /\ last_block <= ImageBlocks
        /\ bbl' = bbl /\ header' = header /\ format' = format /\ ~broken
        /\ last_block = ImageBlocks => chunks' = chunks
        /\ last_block # ImageBlocks => PutSkip(ImageBlocks - last_block)
        /\ ImageBlocks - last_block \in Nat /\ ImageBlocks \in Nat
    BY <1>0, <1>5, <1>n, WriteEndSkipIs, BblIs DEF ChunkInv
  <2>2. PICK f : Counted(f)
    BY <1>0, <2>1 DEF ChunkInv, CountInv, Whole
  <2>3. f[n] \in Nat /\ m = f[n]
    <3>1. at - 1 = n /\ FrontOne(bbl, at, last_block) = 0
      <4>1. at - 1 = n
        BY <2>1
      <4>2. ~(last_block > EndAt(bbl, at - 1))
        BY <2>1, <4>1
      <4> QED BY <4>1, <4>2 DEF FrontOne
    <3>2. f[n] \in Nat
      BY <1>n, <2>2 DEF Counted, CountTo
    <3> QED BY <1>c, <2>1, <2>2, <3>1, <3>2 DEF Counted
  <2>4. Len(chunks') = m + EndOne(bbl)
    <3>1. CASE last_block = ImageBlocks
      <4>1. EndOne(bbl) = 0
        BY <1>n, <2>1, <3>1 DEF EndOne
      <4> QED BY <1>c, <2>1, <3>1, <4>1
    <3>2. CASE last_block # ImageBlocks
      <4>1. EndOne(bbl) = 1
        BY <1>n, <2>1, <3>2 DEF EndOne
      <4>2. PICK c \in ChunkSet : c = SkipOf(ImageBlocks - last_block)
        BY <2>1, SkipIs
      <4>3. chunks' = Append(chunks, c)
        BY <1>0, <2>1, <3>2, <4>2 DEF PutSkip
      <4> QED BY <1>c, <4>1, <4>3
    <3> QED BY <3>1, <3>2
  <2> QED BY <1>n, <2>1, <2>2, <2>3, <2>4 DEF Counted
<1>6. CASE CloseOutput
  <2>1. /\ pc = "close" /\ pc' = "closed" /\ bbl' = bbl /\ header' = header /\ format' = format /\ ~broken
        /\ format.crc => chunks' = Append(chunks, [type |-> "crc", sz |-> 0, cells |-> crc32])
        /\ ~format.crc => chunks' = chunks
    BY <1>0, <1>6, CloseIs
  <2>2. PICK f : Counted(f)
    BY <1>0, <2>1 DEF ChunkInv, CountInv, Whole
  <2>3. Len(chunks') = m + CrcOne(format)
    <3>1. CASE format.crc
      <4>1. PICK c \in ChunkSet : c = [type |-> "crc", sz |-> 0, cells |-> crc32]
        BY CrcIs DEF ListInv, OutOK
      <4>2. chunks' = Append(chunks, c)
        BY <2>1, <3>1, <4>1
      <4> QED BY <1>c, <3>1, <4>2 DEF CrcOne
    <3>2. CASE ~format.crc
      BY <1>c, <2>1, <3>2 DEF CrcOne
    <3> QED BY <3>1, <3>2
  <2>4. Len(chunks') = header'.chunks
    BY <1>c, <2>1, <2>2, <2>3 DEF Counted
  <2> QED BY <2>1, <2>2, <2>4 DEF Counted
<1>7. CASE Untouched
  <2>1. Whole
    BY <1>0, <1>7, UntouchedIs DEF Whole
  <2>2. PICK f : Counted(f)
    BY <2>1 DEF ChunkInv, CountInv
  <2> QED BY <1>7, <2>2, UntouchedIs DEF Counted
<1> QED BY <1>1, <1>2, <1>3, <1>4, <1>5, <1>6, <1>7, StepIs

LEMMA PlacedKept == ASSUME ListInv, ChunkInv, [SparseNext]_sparseVars PROVE PlacedInv'
<1> SUFFICES ASSUME Whole' PROVE \E s : Placed(s)'
  BY DEF PlacedInv
<1>0. format'.sparse /\ ~broken' /\ pc' \notin {"queue", "undefined"} /\ chunks \in Seq(ChunkSet)
  BY DEF Whole, ListInv, OutOK
<1>a. ASSUME NEW s, Laid(chunks, want, s), NEW c \in ChunkSet, NEW e, e = s[Len(chunks)], Covers(c, want, e),
             NEW f, f = e + c.sz
      PROVE  \E t : Laid(Append(chunks, c), want, t) /\ t[Len(Append(chunks, c))] = f
  BY <1>0, <1>a, LaidAppend
<1>1. CASE \E p \in Pieces : Queue(p) \/ QueueAfterFree(p)
  BY <1>0, <1>1, QueueIs
<1>2. CASE OpenOutput
  <2>1. pc' = "write" /\ chunks' = <<>> /\ last_block' = 0
    BY <1>0, <1>2, OpenIs DEF ListInv, FrontOK, ChunkInv, StartInv
  <2>2. PICK cs : cs = chunks'
    OBVIOUS
  <2>3. Len(cs) = 0
    BY <2>1, <2>2
  <2>4. PICK s : s = [k \in 0 .. 0 |-> 0]
    OBVIOUS
  <2>5. s \in [0 .. Len(cs) -> Nat] /\ s[0] = 0 /\ \A k \in 1 .. Len(cs) : FALSE
    BY <2>3, <2>4
  <2>6. Laid(cs, want', s)
    BY <2>5 DEF Laid
  <2> QED BY <2>1, <2>2, <2>3, <2>5, <2>6 DEF Placed
<1>3. CASE WriteSkip
  <2>1. /\ pc = "write" /\ pc' = "write" /\ last_block \in Nat /\ bbl[at].block \in Nat
        /\ last_block' = bbl[at].block /\ want' = want /\ format' = format
        /\ ~broken /\ PutSkip(bbl[at].block - last_block) /\ bbl[at].block - last_block \in Nat
        /\ Covers(SkipOf(bbl[at].block - last_block), want, last_block)
    BY <1>0, <1>3, WriteSkipIs DEF ChunkInv
  <2>2. PICK s : Placed(s)
    BY <1>0, <2>1 DEF ChunkInv, PlacedInv, Whole
  <2>3. Laid(chunks, want, s) /\ last_block = s[Len(chunks)]
    BY <2>1, <2>2 DEF Placed
  <2>4. PICK c \in ChunkSet : c = SkipOf(bbl[at].block - last_block)
    BY <2>1, SkipIs
  <2>5. chunks' = Append(chunks, c) /\ Covers(c, want, last_block)
    BY <1>0, <2>1, <2>4 DEF PutSkip
  <2>6. c.sz = bbl[at].block - last_block
    BY <2>4 DEF SkipOf
  <2>7. last_block' = last_block + c.sz
    BY <2>1, <2>6
  <2>8. \E t : Laid(Append(chunks, c), want, t) /\ t[Len(Append(chunks, c))] = last_block'
    BY <1>a, <2>3, <2>5, <2>7
  <2> QED BY <2>1, <2>5, <2>8 DEF Placed
<1>4. CASE WriteBlock
  <2>1. /\ pc = "write" /\ pc' = "write" /\ at \in 1 .. Len(bbl) /\ last_block \in Nat
        /\ last_block = bbl[at].block /\ last_block' = EndAt(bbl, at) /\ want' = want /\ format' = format
        /\ ~broken /\ chunks' = Append(chunks, ChunkOf(bbl[at])) /\ bbl[at] \in Upto(ImageBlocks)
    BY <1>0, <1>4, WriteBlockIs
  <2>2. PICK s : Placed(s)
    BY <1>0, <2>1 DEF ChunkInv, PlacedInv, Whole
  <2>3. Laid(chunks, want, s) /\ last_block = s[Len(chunks)]
    BY <2>1, <2>2 DEF Placed
  <2>4. PICK c \in ChunkSet : c = ChunkOf(bbl[at])
    BY <2>1, ChunkOfIs
  <2>5. chunks' = Append(chunks, c) /\ Covers(c, want, last_block) /\ c.sz = EndOf(bbl[at]) - last_block
    BY <2>1, <2>4, ChunkCovers
  <2>6. EndAt(bbl, at) = EndOf(bbl[at]) /\ EndOf(bbl[at]) \in Nat
    BY <2>1, EndAtIs, BblIs
  <2>7. last_block' = last_block + c.sz
    BY <2>1, <2>5, <2>6
  <2>8. \E t : Laid(Append(chunks, c), want, t) /\ t[Len(Append(chunks, c))] = last_block'
    BY <1>a, <2>3, <2>5, <2>7
  <2> QED BY <2>1, <2>5, <2>8 DEF Placed
<1>5. CASE WriteEndSkip
  <2>1. /\ pc = "write" /\ pc' = "close" /\ last_block \in Nat /\ want' = want /\ format' = format /\ ~broken
        /\ last_block = ImageBlocks => chunks' = chunks
        /\ last_block # ImageBlocks => PutSkip(ImageBlocks - last_block)
        /\ ImageBlocks - last_block \in Nat /\ ImageBlocks \in Nat
        /\ Covers(SkipOf(ImageBlocks - last_block), want, last_block)
    BY <1>0, <1>5, WriteEndSkipIs, BblIs DEF ChunkInv
  <2>2. PICK s : Placed(s)
    BY <1>0, <2>1 DEF ChunkInv, PlacedInv, Whole
  <2>3. Laid(chunks, want, s) /\ last_block = s[Len(chunks)]
    BY <2>1, <2>2 DEF Placed
  <2>4. CASE last_block = ImageBlocks
    BY <2>1, <2>3, <2>4 DEF Placed
  <2>5. CASE last_block # ImageBlocks
    <3>1. PICK c \in ChunkSet : c = SkipOf(ImageBlocks - last_block)
      BY <2>1, SkipIs
    <3>2. chunks' = Append(chunks, c) /\ Covers(c, want, last_block)
      BY <1>0, <2>1, <2>5, <3>1 DEF PutSkip
    <3>3. c.sz = ImageBlocks - last_block
      BY <3>1 DEF SkipOf
    <3>4. ImageBlocks = last_block + c.sz
      BY <2>1, <3>3
    <3>5. \E t : Laid(Append(chunks, c), want, t) /\ t[Len(Append(chunks, c))] = ImageBlocks
      BY <1>a, <2>3, <3>2, <3>4
    <3> QED BY <2>1, <3>2, <3>5 DEF Placed
  <2> QED BY <2>4, <2>5
<1>6. CASE CloseOutput
  <2>1. /\ pc = "close" /\ pc' = "closed" /\ want' = want /\ format' = format /\ ~broken
        /\ format.crc => chunks' = Append(chunks, [type |-> "crc", sz |-> 0, cells |-> crc32])
        /\ ~format.crc => chunks' = chunks
    BY <1>0, <1>6, CloseIs
  <2>2. PICK s : Placed(s)
    BY <1>0, <2>1 DEF ChunkInv, PlacedInv, Whole
  <2>3. Laid(chunks, want, s) /\ ImageBlocks = s[Len(chunks)]
    BY <2>1, <2>2 DEF Placed
  <2>4. CASE ~format.crc
    BY <2>1, <2>3, <2>4 DEF Placed
  <2>5. CASE format.crc
    <3>1. PICK c \in ChunkSet : c = [type |-> "crc", sz |-> 0, cells |-> crc32]
      BY CrcIs DEF ListInv, OutOK
    <3>2. c.type = "crc" /\ c.sz = 0
      BY <3>1
    <3>3. \A b : Covers(c, want, b)
      BY <3>2 DEF Covers
    <3>4. ImageBlocks = ImageBlocks + c.sz
      BY <3>2, BblIs
    <3>5. \E t : Laid(Append(chunks, c), want, t) /\ t[Len(Append(chunks, c))] = ImageBlocks
      BY <1>a, <2>3, <3>3, <3>4
    <3> QED BY <2>1, <2>5, <3>1, <3>5 DEF Placed
  <2> QED BY <2>4, <2>5
<1>7. CASE Untouched
  <2>1. Whole
    BY <1>0, <1>7, UntouchedIs DEF Whole
  <2>2. PICK s : Placed(s)
    BY <2>1 DEF ChunkInv, PlacedInv
  <2> QED BY <1>7, <2>2, UntouchedIs DEF Placed
<1> QED BY <1>1, <1>2, <1>3, <1>4, <1>5, <1>6, <1>7, StepIs

LEMMA ChunkInit == ASSUME SparseInit PROVE ChunkInv
BY DEF SparseInit, ChunkInv, StartInv, PlaceInv, CountInv, PlacedInv, Whole

THEOREM ChunkInvariance == SparseSpec => [](ListInv /\ ChunkInv)
<1>1. SparseInit => ListInv /\ ChunkInv
  BY ListInit, ChunkInit
<1>2. ListInv /\ ChunkInv /\ [SparseNext]_sparseVars => ListInv' /\ ChunkInv'
  BY ListStep, StartKept, CountKept, PlacedKept DEF ChunkInv
<1> QED BY <1>1, <1>2, PTL DEF SparseSpec

\* The sizes of chunks that are laid out add up to where the last one ends.
LEMMA SizesAddUp ==
  ASSUME NEW cs \in Seq(ChunkSet), NEW w, NEW s, Laid(cs, w, s), NEW x,
         x = [k \in 0 .. Len(cs) |-> IF k = 0 THEN 0 ELSE x[k - 1] + cs[k].sz]
  PROVE  \A k \in 0 .. Len(cs) : x[k] = s[k]
<1>1. PICK n \in Nat : n = Len(cs)
  OBVIOUS
<1>2. x[0] = 0 /\ s[0] = 0
  BY <1>1 DEF Laid
<1>3. \A k \in 1 .. n : x[k] = x[k - 1] + cs[k].sz
  BY <1>1
<1>4. \A k \in 1 .. n : s[k] = s[k - 1] + cs[k].sz
  BY <1>1 DEF Laid
<1>5. PICK T : T = {k \in 0 .. n : x[k] = s[k]}
  OBVIOUS
<1>6. 0 \in T
  BY <1>2, <1>5
<1>7. ASSUME NEW k \in 0 .. n - 1, k \in T PROVE k + 1 \in T
  <2>1. PICK j : j = k + 1
    OBVIOUS
  <2>2. j \in 1 .. n /\ j - 1 = k
    BY <2>1
  <2>3. x[j] = s[j]
    BY <1>3, <1>4, <1>5, <1>7, <2>2
  <2> QED BY <1>5, <2>1, <2>2, <2>3
<1>8. 0 .. n \subseteq T
  BY <1>6, <1>7, NatSetInduction
<1> QED BY <1>1, <1>5, <1>8

LEMMA ChunkInvDescribes == ASSUME ListInv, ChunkInv PROVE HeaderDescribesChunks
<1> DEFINE Eq(u) == u = [k \in 0 .. Len(chunks) |-> IF k = 0 THEN 0 ELSE u[k - 1] + chunks[k].sz]
           sum == CHOOSE u : Eq(u)
<1>1. SUFFICES ASSUME Closed, format.sparse, ~broken
      PROVE    header.chunks = Len(chunks) /\ header.blks = sum[Len(chunks)]
  BY DEF HeaderDescribesChunks
<1>2. Whole /\ pc \notin {"write", "close"}
  BY <1>1 DEF Closed, Whole
<1>3. PICK f : Counted(f)
  BY <1>2 DEF ChunkInv, CountInv
<1>4. PICK s : Placed(s)
  BY <1>2 DEF ChunkInv, PlacedInv
<1>5. chunks \in Seq(ChunkSet) /\ Laid(chunks, want, s) /\ s[Len(chunks)] = ImageBlocks
  BY <1>2, <1>4 DEF ListInv, OutOK, Placed
<1>6. Eq(s)
  BY <1>5 DEF Laid
<1>7. Eq(sum)
  <2> HIDE DEF Eq
  <2>1. \E u : Eq(u)
    BY <1>6
  <2> QED BY <2>1
<1> HIDE DEF sum
<1>8. sum[Len(chunks)] = s[Len(chunks)]
  <2>1. PICK x : x = sum
    OBVIOUS
  <2>2. x = [k \in 0 .. Len(chunks) |-> IF k = 0 THEN 0 ELSE x[k - 1] + chunks[k].sz]
    BY <1>7, <2>1
  <2>3. \A k \in 0 .. Len(chunks) : x[k] = s[k]
    <3> HIDE DEF Eq
    <3> QED BY <1>5, <2>2, SizesAddUp
  <2>4. Len(chunks) \in 0 .. Len(chunks)
    BY <1>5
  <2> QED BY <2>1, <2>3, <2>4
<1> QED BY <1>2, <1>3, <1>5, <1>8 DEF Counted

\* sparse_file_write: when no write failed, the number of chunks and of blocks
\* in the header of a sparse file, taken from the list before anything is
\* written, are those of the chunks that follow it.
THEOREM HeaderAlwaysDescribes == SparseSpec => []HeaderDescribesChunks
BY ChunkInvariance, ChunkInvDescribes, PTL

-----------------------------------------------------------------------------
(* The cells of a plain file no write of which failed.                     *)

\* Up to unit o the file p is the image w; it is empty from there.
PlainUpto(p, w, o) == \A u \in Units : IF u < o THEN Seen(p[u]) = Seen(w[u]) ELSE p[u] = Hole
PlainInv ==
  ~format.sparse /\ ~broken /\ pc \notin {"queue", "undefined"} =>
    /\ pc = "write" => pos = last_block * BlockSize /\ PlainUpto(plain, want, pos)
    /\ pc # "write" => \A u \in Units : Seen(plain[u]) = Seen(want[u])

LEMMA SkipIsHole ==
  ASSUME NEW n \in Nat, NEW a \in Nat, Covers(SkipOf(n), want, a),
         NEW u \in Int, a * BlockSize <= u, u < (a + n) * BlockSize
  PROVE  want[u] = Hole /\ (a + n) * BlockSize = a * BlockSize + n * BlockSize
<1>1. PICK x \in Nat : x = a * BlockSize
  BY UnitOrder
<1>2. PICK y \in Nat : y = n * BlockSize
  BY UnitOrder
<1>3. (a + n) * BlockSize = x + y
  BY <1>1, <1>2, BlockSizeAssumption
<1>4. PICK i : i = u - x
  OBVIOUS
<1>5. i \in 0 .. y - 1 /\ x + i = u
  BY <1>1, <1>3, <1>4
<1>6. SkipOf(n).type = "skip" /\ SkipOf(n).sz = n
  BY DEF SkipOf
<1>7. \A j \in 0 .. y - 1 : want[x + j] = Hole
  BY <1>1, <1>2, <1>6 DEF Covers
<1> QED BY <1>1, <1>2, <1>3, <1>5, <1>7

LEMMA PlainSkip ==
  ASSUME NEW n \in Nat, NEW a \in Nat, Covers(SkipOf(n), want, a), NEW p, PlainUpto(p, want, a * BlockSize)
  PROVE  PlainUpto(p, want, (a + n) * BlockSize)
<1>1. PICK x \in Nat : x = a * BlockSize
  BY UnitOrder
<1>2. PICK z \in Nat : z = (a + n) * BlockSize
  BY UnitOrder
<1>3. x <= z
  BY <1>1, <1>2, UnitOrder
<1>4. ASSUME NEW u \in Units PROVE IF u < z THEN Seen(p[u]) = Seen(want[u]) ELSE p[u] = Hole
  <2>1. u \in Int
    BY DEF Units
  <2>2. IF u < x THEN Seen(p[u]) = Seen(want[u]) ELSE p[u] = Hole
    BY <1>1 DEF PlainUpto
  <2>3. CASE u < x
    BY <1>3, <2>1, <2>2, <2>3
  <2>4. CASE x <= u /\ u < z
    <3>1. want[u] = Hole
      BY <1>1, <1>2, <2>1, <2>4, SkipIsHole
    <3> QED BY <2>1, <2>2, <2>4, <3>1
  <2>5. CASE z <= u
    BY <1>3, <2>1, <2>2, <2>5
  <2> QED BY <2>1, <2>3, <2>4, <2>5
<1> QED BY <1>2, <1>4 DEF PlainUpto

\* write_normal_data_chunk and write_normal_fill_chunk.
LEMMA PlainPut ==
  ASSUME ListInv, NEW k \in 1 .. Len(bbl), PutPlain(Cells(bbl[k]), bbl[k].len),
         pos = bbl[k].block * BlockSize, PlainUpto(plain, want, pos)
  PROVE  pos' = EndOf(bbl[k]) * BlockSize /\ PlainUpto(plain', want, pos')
<1>1. PICK p \in Upto(ImageBlocks) : p = bbl[k]
  BY BblIs
<1>2. PICK n \in Nat \ {0} : n = BlocksIn(p.len)
  BY CellsAre
<1>3. PICK m \in Nat : m = n * BlockSize
  BY <1>2, UnitOrder
<1>4. PICK x \in Nat : x = p.block * BlockSize
  BY HoldsIs
<1>5. p.block \in Nat /\ EndOf(p) = p.block + n
  BY <1>1, <1>2, BblIs DEF EndOf
<1>6. UnitsOf(p) = x .. x + m - 1 /\ EndOf(p) * BlockSize = x + m
  <2>1. (p.block + n) * BlockSize = x + m
    BY <1>2, <1>3, <1>4, <1>5, BlockSizeAssumption
  <2>2. EndOf(p) * BlockSize = x + m
    BY <1>5, <2>1
  <2>3. PICK y : y = p.block * BlockSize
    OBVIOUS
  <2>4. PICK z : z = EndOf(p) * BlockSize
    OBVIOUS
  <2>5. UnitsOf(p) = y .. z - 1
    BY <2>3, <2>4 DEF UnitsOf
  <2>6. y = x /\ z = x + m
    BY <1>4, <2>2, <2>3, <2>4
  <2> QED BY <2>2, <2>5, <2>6
<1>7. PICK len \in Nat : len = p.len /\ len <= m /\ (p.type = "fill" => len = m)
  BY <1>2, <1>3, CellsAre
<1>8. /\ pos = x /\ pos' = x + m
      /\ plain' = [u \in Units |-> IF u \in x .. x + len - 1 THEN Cells(p)[u - x + 1] ELSE plain[u]]
  <2>1. pos = x /\ Len(Cells(p)) = m
    BY <1>1, <1>2, <1>3, <1>4, CellsAre
  <2> QED BY <1>1, <1>7, <2>1 DEF PutPlain
<1>9. ASSUME NEW u \in UnitsOf(p) PROVE Seen(plain'[u]) = Seen(want[u])
  <2>1. u \in Units /\ want[u] = CellOf(p, u - x)
    BY <1>1, <1>4, PieceIsWanted
  <2>2. Cells(p)[u - x + 1] = CellOf(p, u - x)
    BY <1>4, HoldsIs
  <2>3. u \in x .. x + m - 1
    BY <1>6
  <2>4. CASE u < x + len
    <3>1. u \in x .. x + len - 1
      BY <1>7, <2>3, <2>4
    <3>2. plain'[u] = want[u]
      BY <1>8, <2>1, <2>2, <3>1
    <3> QED BY <3>2
  <2>5. CASE ~(u < x + len)
    <3>1. u \notin x .. x + len - 1 /\ ~(u - x < len) /\ len # m
      BY <1>7, <2>3, <2>5
    <3>2. plain'[u] = plain[u]
      BY <1>8, <2>1, <3>1
    <3>3. plain[u] = Hole
      <4>1. ~(u < pos)
        BY <1>8, <2>3
      <4> QED BY <2>1, <4>1 DEF PlainUpto
    <3>4. want[u] = Zero
      BY <1>7, <2>1, <3>1 DEF CellOf
    <3> QED BY <3>2, <3>3, <3>4 DEF Seen
  <2> QED BY <2>4, <2>5
<1>10. ASSUME NEW u \in Units PROVE IF u < x + m THEN Seen(plain'[u]) = Seen(want[u]) ELSE plain'[u] = Hole
  <2>1. u \in Nat
    BY UnitsAre DEF Units
  <2>2. IF u < x THEN Seen(plain[u]) = Seen(want[u]) ELSE plain[u] = Hole
    BY <1>8 DEF PlainUpto
  <2>3. CASE u < x
    <3>1. u \notin x .. x + len - 1
      BY <2>3
    <3>2. plain'[u] = plain[u]
      BY <1>8, <3>1
    <3> QED BY <2>1, <2>2, <2>3, <3>2
  <2>4. CASE x <= u /\ u < x + m
    <3>1. u \in UnitsOf(p)
      BY <1>6, <2>1, <2>4
    <3> QED BY <1>9, <2>4, <3>1
  <2>5. CASE x + m <= u
    <3>1. u \notin x .. x + len - 1 /\ ~(u < x)
      BY <1>7, <2>1, <2>5
    <3>2. plain'[u] = plain[u]
      BY <1>8, <3>1
    <3> QED BY <2>1, <2>2, <2>5, <3>1, <3>2
  <2> QED BY <2>1, <2>3, <2>4, <2>5
<1>11. PlainUpto(plain', want, x + m)
  BY <1>10 DEF PlainUpto
<1> QED BY <1>1, <1>6, <1>8, <1>11

LEMMA AllIsPlain ==
  ASSUME NEW p, NEW w, PlainUpto(p, w, ImageBlocks * BlockSize)
  PROVE  \A u \in Units : Seen(p[u]) = Seen(w[u])
<1>1. PICK z \in Nat : z = ImageBlocks * BlockSize
  BY UnitsAre
<1>2. \A u \in Units : u < z
  BY <1>1 DEF Units
<1> QED BY <1>1, <1>2 DEF PlainUpto

LEMMA PlainKept ==
  ASSUME ListInv, StartInv, PlaceInv, PlainInv, [SparseNext]_sparseVars
  PROVE  PlainInv'
<1> SUFFICES ASSUME ~format'.sparse, ~broken', pc' \notin {"queue", "undefined"}
    PROVE    /\ pc' = "write" => pos' = last_block' * BlockSize /\ PlainUpto(plain', want', pos')
             /\ pc' # "write" => \A u \in Units : Seen(plain'[u]) = Seen(want'[u])
  BY DEF PlainInv
<1>1. CASE \E p \in Pieces : Queue(p) \/ QueueAfterFree(p)
  BY <1>1, QueueIs
<1>2. CASE OpenOutput
  <2>1. /\ pc' = "write" /\ pos' = 0 /\ last_block' = 0 /\ plain' = [u \in Units |-> Hole]
    BY <1>2, OpenIs DEF ListInv, FrontOK, StartInv
  <2>2. \A u \in Units : ~(u < 0) /\ plain'[u] = Hole
    BY <2>1 DEF Units
  <2>3. PlainUpto(plain', want', 0)
    BY <2>2 DEF PlainUpto
  <2>4. 0 * BlockSize = 0
    BY BlockSizeAssumption
  <2> QED BY <2>1, <2>3, <2>4
<1>3. CASE WriteSkip
  <2>1. PICK b \in Nat : b = bbl[at].block
    BY <1>3, WriteSkipIs
  <2>2. /\ pc = "write" /\ pc' = "write" /\ last_block \in Nat /\ last_block' = b /\ want' = want
        /\ format' = format /\ ~broken /\ PutSkip(b - last_block) /\ b - last_block \in Nat
        /\ Covers(SkipOf(b - last_block), want, last_block)
    BY <1>3, <2>1, WriteSkipIs
  <2>3. pos = last_block * BlockSize /\ PlainUpto(plain, want, pos)
    BY <2>2 DEF PlainInv
  <2>4. pos' = pos + (b - last_block) * BlockSize /\ plain' = plain
    BY <2>2 DEF PutSkip
  <2>5. PICK n \in Nat : n = b - last_block /\ b = last_block + n
    BY <2>1, <2>2
  <2>6. (last_block + n) * BlockSize = last_block * BlockSize + n * BlockSize
    BY <2>2, <2>5, BlockSizeAssumption
  <2>7. pos' = b * BlockSize
    BY <2>3, <2>4, <2>5, <2>6
  <2>8. PlainUpto(plain, want, (last_block + n) * BlockSize)
    BY <2>2, <2>3, <2>5, PlainSkip
  <2> QED BY <2>2, <2>4, <2>5, <2>7, <2>8
<1>4. CASE WriteBlock
  <2>1. /\ pc = "write" /\ pc' = "write" /\ at \in 1 .. Len(bbl) /\ last_block = bbl[at].block
        /\ last_block' = EndAt(bbl, at) /\ want' = want /\ format' = format /\ ~broken
        /\ PutPlain(Cells(bbl[at]), bbl[at].len)
    BY <1>4, WriteBlockIs
  <2>2. pos = last_block * BlockSize /\ PlainUpto(plain, want, pos)
    BY <2>1 DEF PlainInv
  <2>3. pos' = EndOf(bbl[at]) * BlockSize /\ PlainUpto(plain', want, pos')
    BY <2>1, <2>2, PlainPut
  <2>4. EndAt(bbl, at) = EndOf(bbl[at])
    BY <2>1, EndAtIs
  <2> QED BY <2>1, <2>3, <2>4
<1>5. CASE WriteEndSkip
  <2>1. /\ pc = "write" /\ pc' = "close" /\ last_block \in Nat /\ want' = want /\ format' = format /\ ~broken
        /\ last_block = ImageBlocks => plain' = plain
        /\ last_block # ImageBlocks => PutSkip(ImageBlocks - last_block)
        /\ ImageBlocks - last_block \in Nat /\ ImageBlocks \in Nat
        /\ Covers(SkipOf(ImageBlocks - last_block), want, last_block)
    BY <1>5, WriteEndSkipIs, BblIs
  <2>2. pos = last_block * BlockSize /\ PlainUpto(plain, want, pos)
    BY <2>1 DEF PlainInv
  <2>3. plain' = plain
    BY <2>1 DEF PutSkip
  <2>4. PICK n \in Nat : n = ImageBlocks - last_block /\ ImageBlocks = last_block + n
    BY <2>1
  <2>5. PlainUpto(plain, want, (last_block + n) * BlockSize)
    BY <2>1, <2>2, <2>4, PlainSkip
  <2>6. PlainUpto(plain, want, ImageBlocks * BlockSize)
    BY <2>4, <2>5
  <2> QED BY <2>1, <2>3, <2>6, AllIsPlain
<1>6. CASE CloseOutput
  BY <1>6, CloseIs DEF PlainInv
<1>7. CASE Untouched
  <2>1. pc \notin {"queue", "undefined"} /\ ~format.sparse /\ ~broken
    BY <1>7, UntouchedIs
  <2> QED BY <1>7, <2>1, UntouchedIs DEF PlainInv
<1> QED BY <1>1, <1>2, <1>3, <1>4, <1>5, <1>6, <1>7, StepIs

\* write_normal_data_chunk, write_normal_fill_chunk and write_skip_chunk: when
\* no write failed, every cell of a plain file is where the image has it,
\* though the padding of a piece and the gaps are never written.
THEOREM PlainAlwaysImage == SparseSpec => []PlainIsImage
<1>1. SparseInit => PlainInv
  BY DEF SparseInit, PlainInv
<1>2. ListInv /\ ChunkInv /\ PlainInv /\ [SparseNext]_sparseVars => PlainInv'
  BY PlainKept DEF ChunkInv
<1>3. PlainInv => PlainIsImage
  BY DEF PlainInv, PlainIsImage, Closed
<1> QED BY <1>1, <1>2, <1>3, ChunkInvariance, PTL DEF SparseSpec

-----------------------------------------------------------------------------
(* The file as its reader sees it.                                         *)

LEMMA ConcatIs ==
  ASSUME NEW S, NEW a \in Seq(S), NEW b \in Seq(S)
  PROVE  /\ a \o b \in Seq(S) /\ Len(a \o b) = Len(a) + Len(b)
         /\ \A i \in 1 .. Len(a) : (a \o b)[i] = a[i]
         /\ \A j \in 1 .. Len(b) : (a \o b)[Len(a) + j] = b[j]
<1>1. a \o b \in Seq(S) /\ Len(a \o b) = Len(a) + Len(b)
  BY ConcatProperties
<1>2. \A q \in 1 .. Len(a) + Len(b) : (a \o b)[q] = IF q <= Len(a) THEN a[q] ELSE b[q - Len(a)]
  BY ConcatProperties
<1>3. ASSUME NEW i \in 1 .. Len(a) PROVE (a \o b)[i] = a[i]
  BY <1>2
<1>4. ASSUME NEW j \in 1 .. Len(b) PROVE (a \o b)[Len(a) + j] = b[j]
  <2>1. PICK q : q = Len(a) + j
    OBVIOUS
  <2>2. q \in 1 .. Len(a) + Len(b) /\ ~(q <= Len(a)) /\ q - Len(a) = j
    BY <2>1
  <2> QED BY <1>2, <2>1, <2>2
<1> QED BY <1>1, <1>3, <1>4

LEMMA HeaderIs == \E h \in Seq(FileCells) : h = <<<<"header", 0>>>> /\ Len(h) = 1
<1>1. PICK y : y = <<"header", 0>>
  OBVIOUS
<1>2. y \in FileCells
  BY <1>1 DEF FileCells
<1>3. Len(<<y>>) = 1 /\ <<y>> \in Seq(FileCells)
  BY <1>2
<1> QED BY <1>1, <1>3

\* What is in the file after k chunks stays where it is.
LEMMA StreamGrows ==
  ASSUME chunks \in Seq(ChunkSet), NEW k \in 0 .. Len(chunks), NEW o \in 1 .. Len(Stream[k])
  PROVE  Stream[Len(chunks)][o] = Stream[k][o]
<1>1. PICK n \in Nat : n = Len(chunks)
  OBVIOUS
<1>2. PICK f : f = Stream
  OBVIOUS
<1>3. /\ \A j \in 0 .. n : f[j] \in Seq(FileCells)
      /\ \A j \in 1 .. n : f[j] = f[j - 1] \o <<<<"header", 0>>>> \o chunks[j].cells
  BY <1>1, <1>2, StreamIs
<1>4. PICK h \in Seq(FileCells) : h = <<<<"header", 0>>>>
  BY HeaderIs
<1>5. \A j \in 1 .. n : chunks[j].cells \in Seq(FileCells)
  <2>1. \A j \in 1 .. n : chunks[j].cells \in Seq(CellSet)
    BY <1>1 DEF ChunkSet
  <2>2. \A y \in Seq(CellSet) : y \in Seq(FileCells)
    BY DEF FileCells
  <2> QED BY <2>1, <2>2
<1>6. ASSUME NEW x \in Seq(FileCells), NEW y \in Seq(FileCells), NEW z \in Seq(FileCells), NEW i \in 1 .. Len(x)
      PROVE  i \in 1 .. Len(x \o y \o z) /\ (x \o y \o z)[i] = x[i]
  <2>1. PICK v \in Seq(FileCells) : v = x \o y /\ Len(v) = Len(x) + Len(y) /\ v[i] = x[i]
    BY ConcatIs, ZenonT(60)
  <2>2. i \in 1 .. Len(v)
    BY <2>1
  <2>3. Len(v \o z) = Len(v) + Len(z) /\ (v \o z)[i] = v[i]
    BY <2>2, ConcatIs
  <2>4. i \in 1 .. Len(v \o z)
    BY <2>2, <2>3
  <2> QED BY <2>1, <2>3, <2>4
<1>7. PICK T : T = {d \in 0 .. n - k : o \in 1 .. Len(f[k + d]) /\ f[k + d][o] = f[k][o]}
  OBVIOUS
<1>8. k \in 0 .. n /\ n - k \in Nat
  BY <1>1
<1>9. 0 \in T
  BY <1>2, <1>7, <1>8
<1>10. ASSUME NEW d \in 0 .. (n - k) - 1, d \in T PROVE d + 1 \in T
  <2>1. PICK j : j = k + (d + 1)
    OBVIOUS
  <2>2. j \in 1 .. n /\ j - 1 = k + d /\ j - 1 \in 0 .. n /\ d + 1 \in 0 .. n - k
    BY <1>8, <2>1
  <2>3. f[j] = f[j - 1] \o h \o chunks[j].cells /\ f[j - 1] \in Seq(FileCells) /\ chunks[j].cells \in Seq(FileCells)
    BY <1>3, <1>4, <1>5, <2>2
  <2>4. o \in 1 .. Len(f[j - 1]) /\ f[j - 1][o] = f[k][o]
    BY <1>7, <1>10, <2>2
  <2>5. o \in 1 .. Len(f[j]) /\ f[j][o] = f[k][o]
    <3>1. PICK x \in Seq(FileCells) : x = f[j - 1]
      BY <2>3
    <3>2. PICK z \in Seq(FileCells) : z = chunks[j].cells
      BY <2>3
    <3>3. o \in 1 .. Len(x \o h \o z) /\ (x \o h \o z)[o] = x[o]
      BY <1>6, <2>4, <3>1
    <3> QED BY <2>3, <2>4, <3>1, <3>2, <3>3
  <2> QED BY <1>7, <2>1, <2>2, <2>5
<1>11. 0 .. n - k \subseteq T
  BY <1>8, <1>9, <1>10, NatSetInduction
<1>12. n - k \in T /\ k + (n - k) = n
  BY <1>8, <1>11
<1> QED BY <1>1, <1>2, <1>7, <1>12

\* BodyOffset: the cells of a chunk are behind its header.
LEMMA BodyIs ==
  ASSUME chunks \in Seq(ChunkSet), NEW k \in 1 .. Len(chunks), NEW i \in 1 .. Len(chunks[k].cells)
  PROVE  BodyOffset(k) \in Nat /\ Stream[Len(chunks)][BodyOffset(k) + i] = chunks[k].cells[i]
<1>1. PICK x \in Seq(FileCells) : x = Stream[k - 1]
  <2>1. k - 1 \in 0 .. Len(chunks)
    OBVIOUS
  <2> QED BY <2>1, StreamIs
<1>2. PICK h \in Seq(FileCells) : h = <<<<"header", 0>>>> /\ Len(h) = 1
  BY HeaderIs
<1>3. PICK z \in Seq(FileCells) : z = chunks[k].cells
  <2>1. chunks[k].cells \in Seq(CellSet)
    BY DEF ChunkSet
  <2>2. \A y \in Seq(CellSet) : y \in Seq(FileCells)
    BY DEF FileCells
  <2> QED BY <2>1, <2>2
<1>4. Stream[k] = x \o h \o z
  BY <1>1, <1>2, <1>3, StreamIs
<1>5. PICK v \in Seq(FileCells) : v = x \o h /\ Len(v) = Len(x) + 1
  <2>1. Len(h) = 1
    BY <1>2
  <2>2. x \o h \in Seq(FileCells) /\ Len(x \o h) = Len(x) + Len(h)
    BY ConcatIs
  <2> QED BY <2>1, <2>2
<1>6. Len(v) = Len(x) + 1
  BY <1>5
<1>7. Len(v \o z) = Len(v) + Len(z) /\ \A j \in 1 .. Len(z) : (v \o z)[Len(v) + j] = z[j]
  BY ConcatIs
<1>8. PICK o : o = Len(v) + i
  OBVIOUS
<1>9. o \in 1 .. Len(v \o z) /\ (v \o z)[o] = z[i]
  BY <1>3, <1>6, <1>7, <1>8
<1>10. k \in 0 .. Len(chunks) /\ o \in 1 .. Len(Stream[k]) /\ Stream[k][o] = z[i]
  BY <1>4, <1>5, <1>9
<1>11. Stream[Len(chunks)][o] = z[i]
  BY <1>10, StreamGrows
<1>12. BodyOffset(k) = Len(v)
  BY <1>1, <1>6 DEF BodyOffset
<1> QED BY <1>3, <1>6, <1>8, <1>11, <1>12

\* Only the reader's own list names the image.
NameInv == \A u \in Units : want[u][1] # "image"

LEMMA NameKept == ASSUME ListInv, NameInv, [SparseNext]_sparseVars PROVE NameInv'
<1>1. CASE UNCHANGED want
  BY <1>1 DEF NameInv, Units
<1>2. CASE \E p \in Pieces : Queue(p) \/ QueueAfterFree(p)
  <2>1. PICK p \in Pieces : Queue(p) \/ QueueAfterFree(p)
    BY <1>2
  <2>2. CASE want' # want
    <3>1. want' = Asked(want, p) /\ p \in Upto(ImageBlocks) /\ p.src # "image"
      BY <2>1, <2>2, PiecesUpto, PiecesAssumption DEF Queue, QueueAfterFree, Asked, queueVars
    <3>2. \A i : CellOf(p, i)[1] # "image"
      BY <3>1 DEF CellOf, Zero
    <3>3. ASSUME NEW u \in Units PROVE want'[u][1] # "image"
      <4>1. CASE u \in UnitsOf(p)
        <5>1. want'[u] = CellOf(p, u - p.block * BlockSize)
          BY <3>1, <4>1, HoldsIs DEF Asked
        <5> QED BY <3>2, <5>1
      <4>2. CASE u \notin UnitsOf(p)
        <5>1. want'[u] = want[u]
          BY <3>1, <4>2 DEF Asked
        <5> QED BY <5>1 DEF NameInv
      <4> QED BY <4>1, <4>2
    <3> QED BY <3>3 DEF NameInv, Units
  <2> QED BY <1>1, <2>2
<1>3. CASE OpenOutput
  BY <1>1, <1>3, OpenIs
<1>4. CASE WriteSkip \/ WriteBlock \/ WriteEndSkip \/ CloseOutput
  <2>1. want' = want
    BY <1>4 DEF WriteSkip, WriteBlock, WriteEndSkip, CloseOutput, queueVars
  <2> QED BY <1>1, <2>1
<1>5. CASE Untouched
  BY <1>1, <1>5, UntouchedIs
<1> QED BY <1>2, <1>3, <1>4, <1>5, StepIs

-----------------------------------------------------------------------------
(* What the reader keeps of the file resolves to the image.                *)

LEMMA CoversAt ==
  ASSUME NEW c \in ChunkSet, NEW w, NEW a \in Nat, Covers(c, w, a),
         NEW u \in Int, a * BlockSize <= u, u < (a + c.sz) * BlockSize
  PROVE  /\ u - a * BlockSize \in 0 .. c.sz * BlockSize - 1
         /\ c.type = "raw" => w[u] = c.cells[u - a * BlockSize + 1]
         /\ c.type = "fill" => w[u] = c.cells[1]
         /\ c.type = "skip" => w[u] = Hole
<1>1. PICK n \in Nat : n = c.sz
  BY DEF ChunkSet
<1>2. PICK x \in Nat : x = a * BlockSize
  BY UnitOrder
<1>3. PICK y \in Nat : y = n * BlockSize
  BY UnitOrder
<1>4. (a + n) * BlockSize = x + y
  BY <1>2, <1>3, BlockSizeAssumption
<1>5. PICK i : i = u - x
  OBVIOUS
<1>6. i \in 0 .. y - 1 /\ x + i = u
  BY <1>1, <1>2, <1>4, <1>5
<1>7. \A j \in 0 .. y - 1 : /\ c.type = "raw" => w[x + j] = c.cells[j + 1]
                            /\ c.type = "fill" => w[x + j] = c.cells[1]
                            /\ c.type = "skip" => w[x + j] = Hole
  BY <1>1, <1>2, <1>3 DEF Covers
<1> QED BY <1>1, <1>2, <1>3, <1>5, <1>6, <1>7

LEMMA ChunkPieceReads ==
  ASSUME ListInv, NameInv, format.sparse, NEW k \in 1 .. Len(chunks), chunks[k].type \in {"raw", "fill"},
         Covers(chunks[k], want, cur_block), NEW u \in Units, NEW c, Holds(PieceOf(chunks[k], k), u, c)
  PROVE  Resolved(c) = Seen(want[u])
<1>1. chunks \in Seq(ChunkSet) /\ cur_block \in Nat /\ want \in [Units -> CellSet \cup {Hole}]
  BY DEF ListInv, OutOK, ReadOK, ImageOK
<1>2. PICK d \in ChunkSet : d = chunks[k]
  BY <1>1
<1>3. PICK n \in Nat : n = d.sz
  BY DEF ChunkSet
<1>4. PICK p : p = PieceOf(d, k)
  OBVIOUS
<1>5. p \in Upto(cur_block + n) /\ p.block = cur_block /\ EndOf(p) = cur_block + n /\ p.len = n * BlockSize
  BY <1>1, <1>2, <1>3, <1>4, PieceOfIs DEF PieceOf
<1>6. PICK x \in Nat : x = cur_block * BlockSize
  BY <1>1, UnitOrder
<1>7. PICK y \in Nat : y = n * BlockSize
  BY UnitOrder
<1>8. u \in UnitsOf(p) /\ c = CellOf(p, u - x)
  BY <1>2, <1>4, <1>5, <1>6, HoldsIs
<1>9. u \in Int /\ x <= u /\ u < (cur_block + n) * BlockSize
  <2>1. PICK z \in Nat : z = (cur_block + n) * BlockSize
    BY <1>1, UnitOrder
  <2>2. u \in x .. z - 1
    BY <1>5, <1>6, <1>8, <2>1 DEF UnitsOf
  <2> QED BY <2>1, <2>2
<1>10. PICK i : i = u - x
  OBVIOUS
<1>11. /\ i \in 0 .. y - 1
       /\ d.type = "raw" => want[u] = d.cells[i + 1]
       /\ d.type = "fill" => want[u] = d.cells[1]
  <2>1. Covers(d, want, cur_block)
    BY <1>2
  <2>2. cur_block * BlockSize <= u /\ u < (cur_block + d.sz) * BlockSize
    BY <1>3, <1>6, <1>9
  <2>3. /\ u - cur_block * BlockSize \in 0 .. d.sz * BlockSize - 1
        /\ d.type = "raw" => want[u] = d.cells[u - cur_block * BlockSize + 1]
        /\ d.type = "fill" => want[u] = d.cells[1]
    BY <1>1, <1>9, <2>1, <2>2, CoversAt
  <2> QED BY <1>3, <1>6, <1>7, <1>10, <2>3
<1>12. CASE d.type = "fill"
  <2>1. PICK src \in Sources : d.cells = <<<<src, 0>>>>
    BY <1>12 DEF ChunkSet
  <2>2. p.type = "fill" /\ p.src = src
    BY <1>4, <1>12, <2>1 DEF PieceOf
  <2>3. c = <<src, 0>>
    BY <1>8, <2>2 DEF CellOf
  <2>4. want[u] = <<src, 0>>
    BY <1>11, <1>12, <2>1
  <2>5. src # "image"
    BY <2>4 DEF NameInv
  <2> QED BY <2>3, <2>4, <2>5 DEF Resolved
<1>13. CASE d.type = "raw"
  <2>1. Len(d.cells) = y /\ d.cells \in Seq(CellSet)
    BY <1>3, <1>7, <1>13 DEF ChunkSet
  <2>2. PICK j : j = i + 1
    OBVIOUS
  <2>3. j \in 1 .. Len(d.cells)
    BY <1>11, <2>1, <2>2
  <2>4. PICK b \in Nat : b = BodyOffset(k)
    BY <1>1, <1>2, <2>3, BodyIs
  <2>5. Stream[Len(chunks)][b + j] = d.cells[j]
    BY <1>1, <1>2, <2>3, <2>4, BodyIs
  <2>6. p.type = "fd" /\ p.src = "image" /\ p.off = b
    BY <1>4, <1>13, <2>4 DEF PieceOf
  <2>7. c = <<"image", b + i>>
    <3>1. i < p.len /\ c = CellOf(p, i)
      BY <1>5, <1>7, <1>8, <1>10, <1>11
    <3> QED BY <2>6, <3>1 DEF CellOf
  <2>8. Resolved(c) = Seen(FileCell(b + i))
    BY <2>7 DEF Resolved
  <2>9. FileCell(b + i) = Stream[Len(chunks)][b + j]
    <3>1. b + i + 1 = b + j
      BY <1>11, <2>2
    <3> QED BY <3>1 DEF FileCell
  <2>10. want[u] = d.cells[j]
    BY <1>11, <1>13, <2>2
  <2> QED BY <2>5, <2>8, <2>9, <2>10
<1> QED BY <1>2, <1>12, <1>13

\* The first two cells of a block are of one piece, or of none.
LEMMA UniformIsFill ==
  ASSUME ListInv, NameInv, NEW b \in Nat, b < ImageBlocks, NEW u, NEW v, u = b * BlockSize, v = u + 1,
         Seen(want[u]) = Seen(want[v])
  PROVE  \E src : src # "image" /\ Seen(want[u]) = <<src, 0>>
<1>1. /\ ImageBlocks \in Nat /\ BlockSize \in Nat /\ BlockSize > 1 /\ Cover(bbl, want)
  BY PiecesAssumption, BlockSizeAssumption DEF ListInv, ImageOK
<1>2. u \in Nat /\ u \in Units /\ v \in Units
  <2>1. u \in Nat /\ u + BlockSize <= ImageBlocks * BlockSize /\ ImageBlocks * BlockSize \in Nat
    BY <1>1, UnitOrder
  <2> QED BY <1>1, <2>1 DEF Units
<1>3. CASE \A c : ~Has(bbl, u, c)
  <2>1. want[u] = Hole
    BY <1>1, <1>2, <1>3 DEF Cover
  <2> QED BY <2>1 DEF Seen, Zero
<1>4. CASE \E c : Has(bbl, u, c)
  <2>1. PICK c : Has(bbl, u, c)
    BY <1>4
  <2>2. PICK k \in 1 .. Len(bbl) : Holds(bbl[k], u, c)
    BY <2>1 DEF Has
  <2>3. PICK p \in Upto(ImageBlocks) : p = bbl[k] /\ p.block \in Nat /\ EndOf(p) \in Nat
    BY BblIs
  <2>4. PICK x \in Nat : x = p.block * BlockSize
    BY <2>3, UnitOrder
  <2>5. PICK y \in Nat : y = EndOf(p) * BlockSize
    BY <2>3, UnitOrder
  <2>6. u \in x .. y - 1 /\ UnitsOf(p) = x .. y - 1
    BY <2>2, <2>3, <2>4, <2>5 DEF Holds, UnitsOf
  <2>7. b < EndOf(p)
    <3>1. EndOf(p) <= b => y <= u
      BY <2>3, <2>5, UnitOrder
    <3> QED BY <1>2, <2>3, <2>6, <3>1
  <2>8. u + BlockSize <= y
    BY <2>3, <2>5, <2>7, UnitOrder
  <2>9. v \in UnitsOf(p) /\ u \in UnitsOf(p)
    BY <1>1, <1>2, <2>6, <2>8
  <2>10. PICK i \in Nat : i = u - x /\ v - x = i + 1
    BY <1>2, <2>6
  <2>11. want[u] = CellOf(p, i) /\ want[v] = CellOf(p, i + 1)
    BY <2>3, <2>4, <2>9, <2>10, PieceIsWanted
  <2>12. want[u] # Hole /\ want[v] # Hole
    BY <2>3, <2>10, <2>11, CellsAre, UnitsAre, SMTT(60)
  <2>13. Seen(want[u]) = want[u] /\ want[u] = want[v] /\ want[u][1] # "image"
    BY <1>2, <2>12 DEF Seen, NameInv
  <2>14. p.off \in Nat /\ p.len \in Nat
    BY <2>3, UptoIs DEF IsPiece
  <2>15. CASE p.type = "fill"
    <3>1. want[u] = <<p.src, 0>>
      BY <2>11, <2>15 DEF CellOf
    <3> QED BY <2>13, <3>1
  <2>16. CASE p.type # "fill" /\ ~(i < p.len)
    <3>1. want[u] = Zero
      BY <2>11, <2>16 DEF CellOf
    <3> QED BY <2>13, <3>1 DEF Zero
  <2>17. CASE p.type # "fill" /\ i < p.len
    <3>1. want[u] = <<p.src, p.off + i>>
      BY <2>11, <2>17 DEF CellOf
    <3>2. CASE i + 1 < p.len
      <4>1. want[v] = <<p.src, p.off + (i + 1)>>
        BY <2>11, <2>17, <3>2 DEF CellOf
      <4>2. PICK f : f = p.off + i
        OBVIOUS
      <4>3. PICK g : g = p.off + (i + 1)
        OBVIOUS
      <4>4. f # g
        BY <2>14, <4>2, <4>3
      <4>5. <<p.src, f>> = <<p.src, g>>
        BY <2>13, <3>1, <4>1, <4>2, <4>3
      <4> QED BY <4>4, <4>5
    <3>3. CASE ~(i + 1 < p.len)
      <4>1. want[v] = Zero
        BY <2>11, <2>17, <3>3 DEF CellOf
      <4> QED BY <2>13, <4>1 DEF Zero
    <3> QED BY <3>2, <3>3
  <2> QED BY <2>15, <2>16, <2>17
<1> QED BY <1>3, <1>4

LEMMA PlainPieceReads ==
  ASSUME ListInv, NameInv, ~format.sparse, cur_block < ImageBlocks,
         \A u \in Units : Seen(plain[u]) = Seen(want[u]),
         NEW u \in Units, NEW c, Holds(PlainPiece, u, c)
  PROVE  Resolved(c) = Seen(want[u])
<1>1. /\ plain \in [Units -> CellSet \cup {Hole}] /\ cur_block \in Nat
      /\ BlockSize \in Nat /\ BlockSize > 1
  BY BlockSizeAssumption, PiecesAssumption DEF ListInv, OutOK, ReadOK
<1>2. PICK p : p = PlainPiece
  OBVIOUS
<1>3. p \in Upto(cur_block + 1) /\ p.block = cur_block /\ EndOf(p) = cur_block + 1
  BY <1>1, <1>2, PlainPieceIs
<1>4. PICK x \in Nat : x = cur_block * BlockSize
  BY <1>1, UnitOrder
<1>5. \A i \in 0 .. BlockSize - 1 : x + i \in Units
  BY <1>1, <1>4, PlainPieceIs
<1>6. u \in UnitsOf(p) /\ c = CellOf(p, u - x)
  BY <1>2, <1>3, <1>4, HoldsIs
<1>7. PICK i : i = u - x
  OBVIOUS
<1>8. i \in 0 .. BlockSize - 1 /\ u = x + i
  <2>1. (cur_block + 1) * BlockSize = x + BlockSize
    BY <1>1, <1>4
  <2>2. PICK z : z = EndOf(p) * BlockSize
    OBVIOUS
  <2>3. u \in x .. z - 1
    BY <1>3, <1>4, <1>6, <2>2 DEF UnitsOf
  <2>4. z = x + BlockSize
    BY <1>3, <2>1, <2>2
  <2> QED BY <1>1, <1>7, <2>3, <2>4
<1>9. \A j \in 0 .. BlockSize - 1 : PlainCell(j) = Seen(plain[x + j]) /\ PlainCell(j) = Seen(want[x + j])
  BY <1>4, <1>5 DEF PlainCell, Seen
<1>10. CASE Uniform
  <2>1. 0 \in 0 .. BlockSize - 1 /\ 1 \in 0 .. BlockSize - 1 /\ x + 0 = x
    BY <1>1
  <2>2. PICK v : v = x + 1
    OBVIOUS
  <2>3. Seen(want[x]) = Seen(want[v]) /\ PlainCell(0) = Seen(want[x]) /\ PlainCell(0) = Seen(want[u])
    BY <1>8, <1>9, <1>10, <2>1, <2>2 DEF Uniform
  <2>4. PICK src : src # "image" /\ Seen(want[x]) = <<src, 0>>
    BY <1>1, <1>4, <2>2, <2>3, UniformIsFill
  <2>5. p.type = "fill" /\ p.src = src
    BY <1>2, <1>10, <2>3, <2>4 DEF PlainPiece
  <2>6. c = <<src, 0>>
    BY <1>6, <2>5 DEF CellOf
  <2>7. Seen(c) = c
    <3>1. CASE c = Hole
      <4>1. Seen(want[x]) = Hole
        BY <2>4, <2>6, <3>1
      <4>2. Zero # Hole
        BY DEF Zero, Hole
      <4> QED BY <4>1, <4>2 DEF Seen
    <3>2. CASE c # Hole
      BY <3>2 DEF Seen
    <3> QED BY <3>1, <3>2
  <2> QED BY <2>3, <2>4, <2>6, <2>7 DEF Resolved
<1>11. CASE ~Uniform
  <2>1. p.type = "fd" /\ p.src = "image" /\ p.off = x /\ p.len = BlockSize
    BY <1>2, <1>4, <1>11 DEF PlainPiece
  <2>2. i < p.len /\ c = CellOf(p, i)
    BY <1>1, <1>6, <1>7, <1>8, <2>1
  <2>3. c = <<"image", u>>
    BY <1>8, <2>1, <2>2 DEF CellOf
  <2>4. Resolved(c) = Seen(plain[u])
    BY <2>3 DEF Resolved, FileCell
  <2> QED BY <2>4
<1> QED BY <1>10, <1>11

\* Up to block b the list l resolves to the image.
CellsRead(l, b) ==
  \A u \in Units :
    /\ \A c : Has(l, u, c) => Resolved(c) = Seen(want[u])
    /\ u < b * BlockSize => (\E c : Has(l, u, c)) \/ Seen(want[u]) = Zero

LEMMA CellsGrow ==
  ASSUME NEW l, NEW m, NEW a \in Nat, NEW e \in Nat, NEW p \in Upto(e), p.block = a, EndOf(p) = e,
         CellsRead(l, a), \A u, c : Has(m, u, c) <=> Has(l, u, c) \/ Holds(p, u, c),
         \A u \in Units : \A c : Holds(p, u, c) => Resolved(c) = Seen(want[u])
  PROVE  CellsRead(m, e)
<1> SUFFICES ASSUME NEW u \in Units
    PROVE    /\ \A c : Has(m, u, c) => Resolved(c) = Seen(want[u])
             /\ u < e * BlockSize => (\E c : Has(m, u, c)) \/ Seen(want[u]) = Zero
  BY DEF CellsRead
<1>1. /\ \A c : Has(l, u, c) => Resolved(c) = Seen(want[u])
      /\ u < a * BlockSize => (\E c : Has(l, u, c)) \/ Seen(want[u]) = Zero
  BY DEF CellsRead
<1>2. \A c : Has(m, u, c) => Resolved(c) = Seen(want[u])
  BY <1>1
<1>3. ASSUME u < e * BlockSize PROVE (\E c : Has(m, u, c)) \/ Seen(want[u]) = Zero
  <2>1. CASE u < a * BlockSize
    BY <1>1, <2>1
  <2>2. CASE ~(u < a * BlockSize)
    <3>1. u \in UnitsOf(p)
      <4>1. PICK x \in Nat : x = a * BlockSize
        BY UnitOrder
      <4>2. PICK y \in Nat : y = e * BlockSize
        BY UnitOrder
      <4>3. u \in x .. y - 1
        BY <1>3, <2>2, <4>1, <4>2 DEF Units
      <4> QED BY <4>1, <4>2, <4>3 DEF UnitsOf
    <3>2. PICK c : c = CellOf(p, u - p.block * BlockSize)
      OBVIOUS
    <3>3. Holds(p, u, c)
      BY <3>1, <3>2, HoldsIs
    <3> QED BY <3>3
  <2> QED BY <2>1, <2>2
<1> QED BY <1>2, <1>3

-----------------------------------------------------------------------------
(* The checksum.                                                           *)

AfterSum(c, y) == IF c.type = "crc" THEN y ELSE y \o Expanded(c)
\* x[k] is what the reader has summed after k chunks.
SumTo(cs, x) ==
  /\ x \in [0 .. Len(cs) -> Seq(CellSet)] /\ x[0] = <<>>
  /\ \A k \in 1 .. Len(cs) : x[k] = AfterSum(cs[k], x[k - 1])
Apart(cs) == \E k \in 1 .. Len(cs) : SummedApart(cs[k])
\* Unless a chunk is summed differently, the writer has summed y.
SumIs(cs, y) == \E x : SumTo(cs, x) /\ x[Len(cs)] = y
Checksums(cs, y) == Apart(cs) \/ SumIs(cs, y)
NoCrc(cs) == \A k \in 1 .. Len(cs) : cs[k].type # "crc"
CrcLast(cs, y) == \A k \in 1 .. Len(cs) : cs[k].type = "crc" => k = Len(cs) /\ cs[k].cells = y
CrcInv ==
  Whole =>
    /\ Checksums(chunks, crc32) /\ CrcLast(chunks, crc32)
    /\ pc \in {"write", "close"} \/ ~format.crc => NoCrc(chunks)

LEMMA AppendIs ==
  ASSUME NEW cs \in Seq(ChunkSet), NEW c \in ChunkSet, NEW ds, ds = Append(cs, c)
  PROVE  /\ Len(ds) = Len(cs) + 1 /\ ds[Len(cs) + 1] = c
         /\ \A k \in 1 .. Len(ds) : k # Len(ds) => k \in 1 .. Len(cs) /\ ds[k] = cs[k]
         /\ \A k \in 1 .. Len(cs) : ds[k] = cs[k]
OBVIOUS

LEMMA SumAppend ==
  ASSUME NEW cs \in Seq(ChunkSet), NEW a, SumIs(cs, a), NEW c \in ChunkSet, NEW y \in Seq(CellSet),
         y = AfterSum(c, a), NEW ds, ds = Append(cs, c)
  PROVE  SumIs(ds, y)
<1>0. PICK x : SumTo(cs, x) /\ a = x[Len(cs)]
  BY DEF SumIs
<1>1. PICK n \in Nat : n = Len(cs)
  OBVIOUS
<1>2. Len(ds) = n + 1 /\ ds[n + 1] = c /\ \A k \in 1 .. n : ds[k] = cs[k]
  BY <1>1, AppendIs
<1>3. x \in [0 .. n -> Seq(CellSet)] /\ x[0] = <<>>
  BY <1>0, <1>1 DEF SumTo
<1>4. PICK z : z = [k \in 0 .. n + 1 |-> IF k = n + 1 THEN y ELSE x[k]]
  OBVIOUS
<1>5. z \in [0 .. n + 1 -> Seq(CellSet)] /\ z[0] = <<>> /\ z[n + 1] = y /\ \A k \in 0 .. n : z[k] = x[k]
  BY <1>1, <1>3, <1>4
<1>6. ASSUME NEW k \in 1 .. n + 1
      PROVE  z[k] = AfterSum(ds[k], z[k - 1])
  <2>1. CASE k = n + 1
    <3>1. k - 1 = n /\ n \in 0 .. n
      BY <1>1, <2>1
    <3>2. z[k - 1] = x[n] /\ ds[k] = c /\ z[k] = y
      BY <1>2, <1>5, <2>1, <3>1
    <3> QED BY <1>0, <1>1, <3>2
  <2>2. CASE k # n + 1
    <3>1. k \in 1 .. n /\ k - 1 \in 0 .. n /\ k \in 0 .. n
      BY <1>1, <2>2
    <3>2. z[k] = x[k] /\ z[k - 1] = x[k - 1] /\ ds[k] = cs[k]
      BY <1>2, <1>5, <3>1
    <3>3. x[k] = AfterSum(cs[k], x[k - 1])
      BY <1>0, <1>1, <3>1 DEF SumTo
    <3> QED BY <3>2, <3>3
  <2> QED BY <2>1, <2>2
<1>7. SumTo(ds, z)
  BY <1>2, <1>5, <1>6 DEF SumTo
<1> QED BY <1>2, <1>5, <1>7 DEF SumIs

LEMMA ChecksumsAppend ==
  ASSUME NEW cs \in Seq(ChunkSet), NEW y, Checksums(cs, y), NEW c \in ChunkSet, NEW z \in Seq(CellSet),
         SummedApart(c) \/ z = AfterSum(c, y), NEW ds, ds = Append(cs, c)
  PROVE  Checksums(ds, z)
<1>1. PICK n \in Nat : n = Len(cs)
  OBVIOUS
<1>2. Len(ds) = n + 1 /\ ds[n + 1] = c /\ \A k \in 1 .. n : ds[k] = cs[k]
  BY <1>1, AppendIs
<1>3. CASE SummedApart(c)
  <2>1. n + 1 \in 1 .. Len(ds)
    BY <1>2
  <2> QED BY <1>2, <1>3, <2>1 DEF Checksums, Apart
<1>4. CASE Apart(cs)
  <2>1. PICK k \in 1 .. n : SummedApart(cs[k])
    BY <1>1, <1>4 DEF Apart
  <2>2. k \in 1 .. Len(ds) /\ SummedApart(ds[k])
    BY <1>2, <2>1
  <2> QED BY <2>2 DEF Checksums, Apart
<1>5. CASE ~SummedApart(c) /\ ~Apart(cs)
  <2>1. SumIs(cs, y) /\ z = AfterSum(c, y)
    BY <1>5 DEF Checksums
  <2> QED BY <2>1, SumAppend DEF Checksums
<1> QED BY <1>3, <1>4, <1>5

LEMMA CrcAppend ==
  ASSUME NEW cs \in Seq(ChunkSet), NoCrc(cs), NEW c \in ChunkSet, NEW y, NEW ds, ds = Append(cs, c)
  PROVE  /\ c.type # "crc" => NoCrc(ds) /\ CrcLast(ds, y)
         /\ c.type = "crc" /\ c.cells = y => CrcLast(ds, y)
<1>1. ASSUME NEW k \in 1 .. Len(ds), ds[k].type = "crc" PROVE k = Len(ds) /\ ds[k] = c
  BY <1>1, AppendIs DEF NoCrc
<1> QED BY <1>1 DEF NoCrc, CrcLast

\* The writer and the reader sum a raw chunk and a fill of one block alike.
LEMMA ExpandedIs ==
  ASSUME NEW e, NEW p \in Upto(e), NEW c, c = ChunkOf(p), ~SummedApart(c)
  PROVE  Expanded(c) = Checksum(p)
<1>1. /\ Cells(p) \in Seq(CellSet) /\ Len(Cells(p)) = BlocksIn(p.len) * BlockSize /\ BlocksIn(p.len) \in Nat \ {0}
      /\ \A i \in 1 .. BlocksIn(p.len) * BlockSize : Cells(p)[i] = CellOf(p, i - 1)
  BY CellsAre
<1>2. c.sz = BlocksIn(p.len)
  BY DEF ChunkOf
<1>3. CASE p.type = "fill"
  <2>1. c.type = "fill" /\ c.cells[1] = <<p.src, 0>>
    BY <1>3 DEF ChunkOf
  <2>2. c.sz = 1
    BY <1>1, <1>2, <2>1 DEF SummedApart
  <2>3. 1 * BlockSize = BlockSize /\ BlockSize \in Nat
    BY BlockSizeAssumption
  <2>4. Expanded(c) = [u \in 1 .. BlockSize |-> <<p.src, 0>>]
    <3>1. \A u : (CASE c.type = "raw" -> c.cells[u] [] c.type = "fill" -> c.cells[1] [] c.type = "skip" -> Zero) = <<p.src, 0>>
      BY <2>1
    <3>2. c.sz * BlockSize = BlockSize
      BY <2>2, <2>3
    <3> QED BY <3>1, <3>2 DEF Expanded
  <2>5. Cells(p) = [u \in 1 .. BlockSize |-> <<p.src, 0>>]
    <3>1. \A u : CellOf(p, u) = <<p.src, 0>>
      BY <1>3 DEF CellOf
    <3>2. BlocksIn(p.len) * BlockSize = BlockSize
      BY <1>2, <2>2, <2>3
    <3> QED BY <3>1, <3>2 DEF Cells
  <2>6. Checksum(p) = [u \in 1 .. BlockSize |-> Cells(p)[u]]
    <3>1. SubSeq(Cells(p), 1, BlockSize) = [u \in 1 .. BlockSize |-> Cells(p)[u]]
      <4>1. Len(Cells(p)) = BlockSize
        BY <1>1, <1>2, <2>2, <2>3
      <4> QED BY <1>1, <2>3, <4>1, SubSeqProperties
    <3> QED BY <1>3, <3>1 DEF Checksum
  <2> QED BY <2>4, <2>5, <2>6
<1>4. CASE p.type # "fill"
  <2>1. c.type = "raw" /\ c.cells = Cells(p) /\ Checksum(p) = Cells(p)
    BY <1>4 DEF ChunkOf, Checksum
  <2>2. \A u : (CASE c.type = "raw" -> c.cells[u] [] c.type = "fill" -> c.cells[1] [] c.type = "skip" -> Zero) = Cells(p)[u]
    BY <2>1
  <2>3. Expanded(c) = [u \in 1 .. BlocksIn(p.len) * BlockSize |-> Cells(p)[u]]
    BY <1>2, <2>2 DEF Expanded
  <2>4. Cells(p) = [u \in 1 .. BlocksIn(p.len) * BlockSize |-> Cells(p)[u]]
    BY DEF Cells
  <2> QED BY <2>1, <2>3, <2>4
<1> QED BY <1>3, <1>4

LEMMA CrcKept == ASSUME ListInv, ChunkInv, CrcInv, [SparseNext]_sparseVars PROVE CrcInv'
<1> SUFFICES ASSUME Whole'
    PROVE  /\ Checksums(chunks', crc32') /\ CrcLast(chunks', crc32')
           /\ pc' \in {"write", "close"} \/ ~format'.crc => NoCrc(chunks')
  BY DEF CrcInv
<1>0. /\ format'.sparse /\ ~broken' /\ pc' \notin {"queue", "undefined"}
      /\ chunks \in Seq(ChunkSet) /\ crc32 \in Seq(CellSet)
  BY DEF Whole, ListInv, OutOK
<1>s. ASSUME NEW n \in Nat, Checksums(chunks, crc32), NoCrc(chunks), chunks' = Append(chunks, SkipOf(n)), crc32' = crc32
      PROVE  Checksums(chunks', crc32') /\ CrcLast(chunks', crc32') /\ NoCrc(chunks')
  <2>1. PICK c \in ChunkSet : c = SkipOf(n)
    BY SkipIs
  <2>2. c.type = "skip" /\ SummedApart(c) /\ c.type # "crc"
    BY <2>1 DEF SkipOf, SummedApart
  <2>3. chunks' = Append(chunks, c)
    BY <1>s, <2>1
  <2>4. NoCrc(chunks') /\ CrcLast(chunks', crc32)
    BY <1>0, <1>s, <2>2, <2>3, CrcAppend
  <2>5. Checksums(chunks', crc32)
    BY <1>0, <1>s, <2>2, <2>3, ChecksumsAppend
  <2> QED BY <1>s, <2>4, <2>5
<1>1. CASE \E p \in Pieces : Queue(p) \/ QueueAfterFree(p)
  BY <1>0, <1>1, QueueIs
<1>2. CASE OpenOutput
  <2>1. chunks' = <<>> /\ crc32' = <<>>
    BY <1>2, OpenIs DEF ChunkInv, StartInv
  <2>2. PICK cs : cs = chunks'
    OBVIOUS
  <2>3. PICK x : x = [k \in 0 .. 0 |-> <<>>]
    OBVIOUS
  <2>4. Len(cs) = 0 /\ \A k \in 1 .. Len(cs) : FALSE
    BY <2>1, <2>2
  <2>5. x \in [0 .. 0 -> Seq(CellSet)] /\ x[0] = <<>>
    BY <2>3
  <2>6. SumTo(cs, x)
    BY <2>4, <2>5 DEF SumTo
  <2>7. Checksums(cs, <<>>)
    BY <2>4, <2>5, <2>6 DEF Checksums, SumIs
  <2>8. CrcLast(cs, crc32') /\ NoCrc(cs)
    BY <2>4 DEF CrcLast, NoCrc
  <2> QED BY <2>1, <2>2, <2>7, <2>8
<1>3. CASE WriteSkip
  <2>1. PICK n \in Nat : n = bbl[at].block - last_block
    BY <1>3, WriteSkipIs DEF ChunkInv
  <2>2. pc = "write" /\ format' = format /\ ~broken /\ PutSkip(n) /\ crc32' = crc32
    BY <1>0, <1>3, <2>1, WriteSkipIs DEF ChunkInv
  <2>3. Checksums(chunks, crc32) /\ NoCrc(chunks)
    BY <1>0, <2>2 DEF CrcInv, Whole
  <2>4. chunks' = Append(chunks, SkipOf(n))
    BY <1>0, <2>2 DEF PutSkip
  <2> QED BY <1>s, <2>2, <2>3, <2>4
<1>4. CASE WriteBlock
  <2>1. /\ pc = "write" /\ at \in 1 .. Len(bbl) /\ format' = format
        /\ ~broken /\ chunks' = Append(chunks, ChunkOf(bbl[at])) /\ bbl[at] \in Upto(ImageBlocks)
        /\ crc32' = crc32 \o Checksum(bbl[at])
    BY <1>0, <1>4, WriteBlockIs, SMTT(60)
  <2>2. Checksums(chunks, crc32) /\ NoCrc(chunks)
    BY <1>0, <2>1 DEF CrcInv, Whole
  <2>3. PICK p \in Upto(ImageBlocks) : p = bbl[at]
    BY <2>1
  <2>4. PICK c \in ChunkSet : c = ChunkOf(p)
    BY ChunkOfIs
  <2>5. c.type # "crc" /\ chunks' = Append(chunks, c)
    BY <2>1, <2>3, <2>4 DEF ChunkOf
  <2>6. PICK z \in Seq(CellSet) : z = crc32'
    BY <1>0, <2>1, ChecksumOK, ConcatProperties
  <2>7. SummedApart(c) \/ z = AfterSum(c, crc32)
    BY <2>1, <2>3, <2>4, <2>5, <2>6, ExpandedIs DEF AfterSum
  <2>8. Checksums(chunks', z)
    BY <1>0, <2>2, <2>5, <2>7, ChecksumsAppend
  <2>9. NoCrc(chunks') /\ CrcLast(chunks', z)
    BY <1>0, <2>2, <2>5, CrcAppend
  <2> QED BY <2>6, <2>8, <2>9
<1>5. CASE WriteEndSkip
  <2>1. PICK n \in Nat : n = ImageBlocks - last_block
    BY <1>5, WriteEndSkipIs DEF ChunkInv
  <2>2. /\ pc = "write" /\ format' = format /\ ~broken /\ crc32' = crc32
        /\ last_block = ImageBlocks => chunks' = chunks
        /\ last_block # ImageBlocks => PutSkip(n)
    BY <1>0, <1>5, <2>1, WriteEndSkipIs DEF ChunkInv
  <2>3. Checksums(chunks, crc32) /\ NoCrc(chunks) /\ CrcLast(chunks, crc32)
    BY <1>0, <2>2 DEF CrcInv, Whole
  <2>4. CASE last_block = ImageBlocks
    BY <2>2, <2>3, <2>4
  <2>5. CASE last_block # ImageBlocks
    <3>1. chunks' = Append(chunks, SkipOf(n))
      BY <1>0, <2>2, <2>5 DEF PutSkip
    <3> QED BY <1>s, <2>2, <2>3, <3>1
  <2> QED BY <2>4, <2>5
<1>6. CASE CloseOutput
  <2>1. /\ pc = "close" /\ pc' = "closed" /\ format' = format /\ ~broken /\ crc32' = crc32
        /\ format.crc => chunks' = Append(chunks, [type |-> "crc", sz |-> 0, cells |-> crc32])
        /\ ~format.crc => chunks' = chunks
    BY <1>0, <1>6, CloseIs
  <2>2. Checksums(chunks, crc32) /\ NoCrc(chunks) /\ CrcLast(chunks, crc32)
    BY <1>0, <2>1 DEF CrcInv, Whole
  <2>3. CASE ~format.crc
    BY <2>1, <2>2, <2>3
  <2>4. CASE format.crc
    <3>1. PICK c \in ChunkSet : c = [type |-> "crc", sz |-> 0, cells |-> crc32]
      BY <1>0, CrcIs
    <3>2. c.type = "crc" /\ c.cells = crc32 /\ chunks' = Append(chunks, c)
      BY <2>1, <2>4, <3>1
    <3>3. crc32 = AfterSum(c, crc32)
      BY <3>2 DEF AfterSum
    <3>4. Checksums(chunks', crc32)
      BY <1>0, <2>2, <3>2, <3>3, ChecksumsAppend
    <3>5. CrcLast(chunks', crc32)
      BY <1>0, <2>2, <3>2, CrcAppend
    <3> QED BY <2>1, <2>4, <3>4, <3>5
  <2> QED BY <2>3, <2>4
<1>7. CASE Untouched
  <2>1. Whole
    BY <1>0, <1>7, UntouchedIs DEF Whole
  <2> QED BY <1>7, <2>1, UntouchedIs DEF CrcInv
<1> QED BY <1>1, <1>2, <1>3, <1>4, <1>5, <1>6, <1>7, StepIs

-----------------------------------------------------------------------------
(* Reading the file back.                                                  *)

Idle == pc \in {"queue", "write", "close", "closed"}
Reading == ~broken /\ pc \in {"read", "accepted", "refused", "crashed"}
RestInv == Idle => rpos = 1 /\ cur_block = 0 /\ rcrc = <<>> /\ rlist = <<>>
\* Chunk r starts at block b; before it the reader has summed q.
SpotAt(cs, w, r, b) ==
  r \in 1 .. Len(cs) + 1 /\ \E s : Laid(cs, w, s) /\ s[Len(cs)] = ImageBlocks /\ b = s[r - 1]
SumAt(cs, y, r, q) == Apart(cs) \/ \E x : SumTo(cs, x) /\ x[Len(cs)] = y /\ q = x[r - 1]
SpotInv == Reading /\ format.sparse => SpotAt(chunks, want, rpos, cur_block)
SumInv == Reading /\ format.sparse /\ checked => SumAt(chunks, crc32, rpos, rcrc)
CellsInv == Reading => CellsRead(rlist, cur_block)
VerdictInv ==
  ~broken =>
    /\ pc = "refused" => checked /\ Apart(chunks)
    /\ pc = "crashed" => format.crc /\ ~checked
    /\ pc = "accepted" => cur_block = ImageBlocks
ReadInv == RestInv /\ SpotInv /\ SumInv /\ CellsInv /\ VerdictInv
FileInv == ListInv /\ ChunkInv /\ PlainInv /\ NameInv /\ CrcInv

LEMMA WriterReads ==
  ASSUME FileInv, ReadInv,
         \/ \E p \in Pieces : Queue(p) \/ QueueAfterFree(p)
         \/ OpenOutput \/ WriteSkip \/ WriteBlock \/ WriteEndSkip \/ CloseOutput
  PROVE  ReadInv'
<1>1. /\ UNCHANGED readVars /\ pc \in {"queue", "write", "close"}
      /\ pc' \in {"queue", "undefined", "write", "close", "closed"} \/ broken'
  <2>1. CASE \E p \in Pieces : Queue(p) \/ QueueAfterFree(p)
    BY <2>1, QueueIs
  <2>2. CASE OpenOutput
    BY <2>2, OpenIs
  <2>3. CASE WriteSkip
    BY <2>3 DEF WriteSkip
  <2>4. CASE WriteBlock
    BY <2>4 DEF WriteBlock
  <2>5. CASE WriteEndSkip
    BY <2>5 DEF WriteEndSkip
  <2>6. CASE CloseOutput
    BY <2>6 DEF CloseOutput
  <2> QED BY <2>1, <2>2, <2>3, <2>4, <2>5, <2>6
<1>2. rpos' = 1 /\ cur_block' = 0 /\ rcrc' = <<>> /\ rlist' = <<>>
  BY <1>1 DEF ReadInv, RestInv, Idle, readVars
<1>3. RestInv'
  BY <1>2 DEF RestInv
<1>4. ~Reading'
  BY <1>1 DEF Reading
<1>5. SpotInv' /\ SumInv' /\ CellsInv'
  BY <1>4 DEF SpotInv, SumInv, CellsInv
<1>6. VerdictInv'
  BY <1>1 DEF VerdictInv
<1> QED BY <1>3, <1>5, <1>6 DEF ReadInv

LEMMA ReaderKeeps ==
  ASSUME UNCHANGED queueVars, UNCHANGED outVars
  PROVE  /\ want' = want /\ format' = format /\ chunks' = chunks /\ crc32' = crc32 /\ broken' = broken
         /\ header' = header
         /\ \A l, b : CellsRead(l, b)' <=> CellsRead(l, b)
<1>1. /\ want' = want /\ format' = format /\ chunks' = chunks /\ crc32' = crc32 /\ broken' = broken
      /\ header' = header /\ plain' = plain
  BY DEF queueVars, outVars
<1>2. ASSUME NEW c PROVE Resolved(c)' = Resolved(c)
  BY <1>1 DEF Resolved, FileCell, Stream
<1>3. ASSUME NEW l, NEW b PROVE CellsRead(l, b)' <=> CellsRead(l, b)
  BY <1>1, <1>2 DEF CellsRead, Units
<1> QED BY <1>1, <1>3

LEMMA StartReads == ASSUME FileInv, ReadInv, StartRead PROVE ReadInv'
<1>1. /\ pc = "closed" /\ pc' = "read" /\ UNCHANGED queueVars /\ UNCHANGED outVars
      /\ rlist' = rlist /\ rpos' = rpos /\ cur_block' = cur_block /\ rcrc' = rcrc
  BY DEF StartRead
<1>2. rpos' = 1 /\ cur_block' = 0 /\ rcrc' = <<>> /\ rlist' = <<>>
  BY <1>1 DEF ReadInv, RestInv, Idle
<1>3. /\ want' = want /\ format' = format /\ chunks' = chunks /\ crc32' = crc32 /\ broken' = broken
      /\ chunks \in Seq(ChunkSet)
  BY <1>1, ReaderKeeps DEF FileInv, ListInv, OutOK
<1>4. SpotInv'
  <2>1. SUFFICES ASSUME ~broken, format.sparse PROVE SpotAt(chunks, want, 1, 0)
    BY <1>2, <1>3 DEF SpotInv, Reading
  <2>2. Whole
    BY <1>1, <2>1 DEF Whole
  <2>3. PICK s : Placed(s)
    BY <2>2 DEF FileInv, ChunkInv, PlacedInv
  <2>4. Laid(chunks, want, s) /\ s[Len(chunks)] = ImageBlocks /\ s[0] = 0
    BY <1>1, <2>3 DEF Placed, Laid
  <2>5. 1 \in 1 .. Len(chunks) + 1 /\ 1 - 1 = 0
    BY <1>3
  <2> QED BY <2>4, <2>5 DEF SpotAt
<1>5. SumInv'
  <2>1. SUFFICES ASSUME ~broken, format.sparse PROVE SumAt(chunks, crc32, 1, <<>>)
    BY <1>2, <1>3 DEF SumInv, Reading
  <2>2. Checksums(chunks, crc32)
    BY <1>1, <2>1 DEF Whole, FileInv, CrcInv
  <2>3. ASSUME NEW x, SumTo(chunks, x) PROVE x[1 - 1] = <<>>
    BY <2>3 DEF SumTo
  <2> QED BY <2>2, <2>3 DEF SumAt, Checksums, SumIs
<1>6. CellsInv'
  <2>1. PICK l : l = rlist'
    OBVIOUS
  <2>2. \A u, c : ~Has(l, u, c)
    BY <1>2, <2>1, EmptyList
  <2>3. 0 * BlockSize = 0
    BY BlockSizeAssumption
  <2>4. ASSUME NEW u \in Units PROVE ~(u < 0)
    BY DEF Units
  <2>5. CellsRead(l, 0)
    BY <2>2, <2>3, <2>4 DEF CellsRead
  <2>6. CellsRead(l, 0)'
    BY <1>1, <2>5, ReaderKeeps
  <2> QED BY <1>2, <2>1, <2>6 DEF CellsInv
<1> QED BY <1>1, <1>4, <1>5, <1>6 DEF ReadInv, RestInv, Idle, VerdictInv

\* A chunk on: where it starts, and what is summed then.
LEMMA SpotOn ==
  ASSUME NEW cs \in Seq(ChunkSet), NEW w, NEW r \in 1 .. Len(cs), NEW b, SpotAt(cs, w, r, b)
  PROVE  SpotAt(cs, w, r + 1, b + cs[r].sz) /\ Covers(cs[r], w, b) /\ b \in Nat
<1>1. PICK s : Laid(cs, w, s) /\ s[Len(cs)] = ImageBlocks /\ b = s[r - 1]
  BY DEF SpotAt
<1>2. s[r] = b + cs[r].sz /\ Covers(cs[r], w, b) /\ b \in Nat
  BY <1>1 DEF Laid
<1>3. PICK t : t = r + 1
  OBVIOUS
<1>4. t \in 1 .. Len(cs) + 1 /\ t - 1 = r
  BY <1>3
<1>5. SpotAt(cs, w, t, b + cs[r].sz)
  BY <1>1, <1>2, <1>4 DEF SpotAt
<1> QED BY <1>2, <1>3, <1>5

LEMMA SumOn ==
  ASSUME NEW cs \in Seq(ChunkSet), NEW y, NEW r \in 1 .. Len(cs), NEW q, SumAt(cs, y, r, q)
  PROVE  SumAt(cs, y, r + 1, AfterSum(cs[r], q))
<1>1. CASE Apart(cs)
  BY <1>1 DEF SumAt
<1>2. CASE ~Apart(cs)
  <2>1. PICK x : SumTo(cs, x) /\ x[Len(cs)] = y /\ q = x[r - 1]
    BY <1>2 DEF SumAt
  <2>2. x[r] = AfterSum(cs[r], q)
    BY <2>1 DEF SumTo
  <2>3. PICK t : t = r + 1 /\ t - 1 = r
    OBVIOUS
  <2> QED BY <2>1, <2>2, <2>3 DEF SumAt
<1> QED BY <1>1, <1>2

LEMMA ChunkReads == ASSUME FileInv, ReadInv, ReadChunk PROVE ReadInv'
<1>1. /\ pc = "read" /\ pc' \in {"read", "undefined"} /\ UNCHANGED queueVars /\ UNCHANGED outVars
      /\ format.sparse /\ checked' = checked /\ rpos' = rpos + 1 /\ rpos \in 1 .. Len(chunks)
      /\ cur_block' = cur_block + chunks[rpos].sz
      /\ rcrc' = IF checked THEN rcrc \o Expanded(chunks[rpos]) ELSE rcrc
  <2>1. ListInv /\ pc' \in {"read", "undefined"}
    <3>1. ListInv
      BY DEF FileInv
    <3>2. CASE chunks[rpos].type = "skip"
      BY <3>1, <3>2, ReadChunkIs
    <3>3. CASE chunks[rpos].type # "skip"
      BY <3>1, <3>3, ReadChunkIs DEF Keep
    <3> QED BY <3>1, <3>2, <3>3
  <2> QED BY <2>1, ReadChunkIs DEF ReadChunk
<1>2. /\ want' = want /\ format' = format /\ chunks' = chunks /\ crc32' = crc32 /\ broken' = broken
      /\ chunks \in Seq(ChunkSet) /\ ListInv /\ NameInv /\ cur_block \in Nat
  BY <1>1, ReaderKeeps DEF FileInv, ListInv, OutOK, ReadOK
<1>3. PICK d \in ChunkSet : d = chunks[rpos] /\ d.type # "crc"
  BY <1>1, <1>2, ReadChunkIs
<1>4. ASSUME ~broken
      PROVE  SpotAt(chunks, want, rpos', cur_block') /\ Covers(d, want, cur_block)
  <2>1. SpotAt(chunks, want, rpos, cur_block)
    BY <1>1, <1>4 DEF ReadInv, SpotInv, Reading
  <2> QED BY <1>1, <1>2, <1>3, <2>1, SpotOn
<1>5. SpotInv'
  BY <1>2, <1>4 DEF SpotInv, Reading
<1>6. SumInv'
  <2>1. SUFFICES ASSUME ~broken, checked PROVE SumAt(chunks, crc32, rpos', rcrc')
    BY <1>1, <1>2 DEF SumInv, Reading
  <2>2. SumAt(chunks, crc32, rpos, rcrc)
    BY <1>1, <2>1 DEF ReadInv, SumInv, Reading
  <2>3. rcrc' = AfterSum(chunks[rpos], rcrc)
    BY <1>1, <1>3, <2>1 DEF AfterSum
  <2> QED BY <1>1, <1>2, <2>2, <2>3, SumOn
<1>7. CellsInv'
  <2>1. SUFFICES ASSUME ~broken, pc' = "read" PROVE CellsRead(rlist', cur_block')
    <3>1. SUFFICES ASSUME Reading' PROVE CellsRead(rlist, cur_block)'
      BY DEF CellsInv
    <3>2. ~broken /\ pc' = "read"
      BY <1>1, <1>2, <3>1 DEF Reading
    <3>3. PICK l : l = rlist'
      OBVIOUS
    <3>4. PICK b : b = cur_block'
      OBVIOUS
    <3>5. CellsRead(l, b)
      BY <2>1, <3>2, <3>3, <3>4
    <3>6. CellsRead(l, b)'
      BY <1>1, <3>5, ReaderKeeps
    <3> QED BY <3>3, <3>4, <3>6 DEF CellsRead
  <2>2. CellsRead(rlist, cur_block) /\ Covers(d, want, cur_block)
    BY <1>1, <1>4, <2>1 DEF ReadInv, CellsInv, Reading
  <2>3. PICK e \in Nat : e = cur_block'
    BY <1>1, <1>2, <1>3 DEF ChunkSet
  <2>4. CASE d.type = "skip"
    <3>1. rlist' = rlist
      BY <1>2, <1>3, <2>4, ReadChunkIs
    <3>2. ASSUME NEW u \in Units, u < e * BlockSize
          PROVE  (\E c : Has(rlist, u, c)) \/ Seen(want[u]) = Zero
      <4>1. CASE u < cur_block * BlockSize
        BY <2>2, <4>1 DEF CellsRead
      <4>2. CASE ~(u < cur_block * BlockSize)
        <5>1. u \in Int /\ cur_block * BlockSize \in Nat
          BY <1>2, UnitOrder DEF Units
        <5>2. cur_block * BlockSize <= u /\ u < (cur_block + d.sz) * BlockSize
          BY <1>1, <1>3, <2>3, <3>2, <4>2, <5>1
        <5>3. want[u] = Hole
          BY <1>2, <2>2, <2>4, <5>1, <5>2, CoversAt
        <5> QED BY <5>3 DEF Seen
      <4> QED BY <4>1, <4>2
    <3>3. CellsRead(rlist, e)
      BY <2>2, <3>2 DEF CellsRead
    <3> QED BY <2>3, <3>1, <3>3
  <2>5. CASE d.type # "skip"
    <3>1. d.type \in {"raw", "fill"}
      BY <1>3, <2>5 DEF ChunkSet
    <3>2. PICK p : p = PieceOf(d, rpos)
      OBVIOUS
    <3>3. p \in Upto(e) /\ p.block = cur_block /\ EndOf(p) = e /\ Keep(p)
      BY <1>1, <1>2, <1>3, <2>3, <2>5, <3>1, <3>2, PieceOfIs, ReadChunkIs
    <3>4. \A u, c : Has(rlist', u, c) <=> Has(rlist, u, c) \/ Holds(p, u, c)
      <4>1. ReadOK(rlist, rlast, cur_block) /\ cur_block <= e
        <5>1. d.sz \in Nat
          BY DEF ChunkSet
        <5> QED BY <1>1, <1>2, <1>3, <2>3, <5>1 DEF ListInv
      <4> QED BY <2>1, <3>3, <4>1, KeepOK
    <3>5. \A u \in Units : \A c : Holds(p, u, c) => Resolved(c) = Seen(want[u])
      BY <1>1, <1>2, <1>3, <2>2, <3>1, <3>2, ChunkPieceReads
    <3>6. CellsRead(rlist', e)
      BY <1>2, <2>2, <3>3, <3>4, <3>5, CellsGrow
    <3> QED BY <2>3, <3>6
  <2> QED BY <2>4, <2>5
<1> QED BY <1>1, <1>5, <1>6, <1>7 DEF ReadInv, RestInv, Idle, VerdictInv

\* The reader is done with a step that leaves its list and its block alone.
LEMMA ListStays ==
  ASSUME FileInv, ReadInv, pc = "read", UNCHANGED queueVars, UNCHANGED outVars,
         rlist' = rlist, cur_block' = cur_block
  PROVE  CellsInv'
<1>1. SUFFICES ASSUME Reading' PROVE CellsRead(rlist, cur_block)'
  BY DEF CellsInv
<1>2. ~broken
  BY <1>1, ReaderKeeps DEF Reading
<1>3. PICK l : l = rlist
  OBVIOUS
<1>4. PICK b : b = cur_block
  OBVIOUS
<1>5. CellsRead(l, b)
  BY <1>2, <1>3, <1>4 DEF ReadInv, CellsInv, Reading
<1>6. CellsRead(l, b)'
  BY <1>5, ReaderKeeps
<1> QED BY <1>3, <1>4, <1>6 DEF CellsRead

LEMMA ChecksumReads == ASSUME FileInv, ReadInv, ReadChecksum PROVE ReadInv'
<1>1. /\ pc = "read" /\ UNCHANGED queueVars /\ UNCHANGED outVars /\ format.sparse
      /\ checked' = checked /\ rpos' = rpos + 1 /\ cur_block' = cur_block
      /\ rlist' = rlist /\ rcrc' = rcrc
      /\ pc' = IF ~checked THEN "crashed" ELSE IF chunks[rpos].cells = rcrc THEN "read" ELSE "refused"
  BY DEF ReadChecksum
<1>2. /\ want' = want /\ format' = format /\ chunks' = chunks /\ crc32' = crc32 /\ broken' = broken
      /\ chunks \in Seq(ChunkSet) /\ rpos \in Nat \ {0} /\ cur_block \in Nat
  BY <1>1, ReaderKeeps DEF FileInv, ListInv, OutOK, ReadOK
<1>3. rpos \in 1 .. Len(chunks) /\ rpos <= Len(chunks)
  BY <1>2 DEF ReadChecksum
<1>4. PICK d \in ChunkSet : d = chunks[rpos] /\ d.type = "crc" /\ d.sz = 0
  BY <1>2, <1>3 DEF ReadChecksum, ChunkSet
<1>5. ASSUME ~broken
      PROVE  CrcLast(chunks, crc32) /\ (~format.crc => NoCrc(chunks))
  BY <1>1, <1>5 DEF FileInv, CrcInv, Whole
<1>6. SpotInv'
  <2>1. SUFFICES ASSUME ~broken PROVE SpotAt(chunks, want, rpos', cur_block')
    BY <1>2 DEF SpotInv, Reading
  <2>2. SpotAt(chunks, want, rpos, cur_block)
    BY <1>1, <2>1 DEF ReadInv, SpotInv, Reading
  <2>3. SpotAt(chunks, want, rpos + 1, cur_block + chunks[rpos].sz)
    BY <1>2, <1>3, <2>2, SpotOn
  <2>4. cur_block + chunks[rpos].sz = cur_block'
    BY <1>1, <1>2, <1>4
  <2> QED BY <1>1, <2>3, <2>4
<1>7. SumInv'
  <2>1. SUFFICES ASSUME ~broken, checked PROVE SumAt(chunks, crc32, rpos', rcrc')
    BY <1>1, <1>2 DEF SumInv, Reading
  <2>2. SumAt(chunks, crc32, rpos, rcrc)
    BY <1>1, <2>1 DEF ReadInv, SumInv, Reading
  <2>3. rcrc' = AfterSum(chunks[rpos], rcrc)
    BY <1>1, <1>4 DEF AfterSum
  <2> QED BY <1>1, <1>2, <1>3, <2>2, <2>3, SumOn
<1>8. VerdictInv'
  <2>1. SUFFICES ASSUME ~broken
        PROVE    /\ pc' = "refused" => checked' /\ Apart(chunks')
                 /\ pc' = "crashed" => format'.crc /\ ~checked'
                 /\ pc' = "accepted" => cur_block' = ImageBlocks
    BY <1>2 DEF VerdictInv
  <2>2. ASSUME pc' = "refused" PROVE checked' /\ Apart(chunks')
    <3>1. checked /\ d.cells # rcrc
      BY <1>1, <1>4, <2>2
    <3>2. rpos = Len(chunks) /\ d.cells = crc32
      BY <1>3, <1>4, <1>5, <2>1 DEF CrcLast
    <3>3. SumAt(chunks, crc32, rpos, rcrc)
      BY <1>1, <2>1, <3>1 DEF ReadInv, SumInv, Reading
    <3>4. ASSUME ~Apart(chunks) PROVE FALSE
      <4>1. PICK x : SumTo(chunks, x) /\ x[Len(chunks)] = crc32 /\ rcrc = x[rpos - 1]
        BY <3>3, <3>4 DEF SumAt
      <4>2. x[rpos] = AfterSum(d, rcrc)
        BY <1>3, <1>4, <4>1 DEF SumTo
      <4>3. x[rpos] = rcrc
        BY <1>4, <4>2 DEF AfterSum
      <4> QED BY <3>1, <3>2, <4>1, <4>3
    <3> QED BY <1>1, <1>2, <3>1, <3>4
  <2>3. ASSUME pc' = "crashed" PROVE format'.crc /\ ~checked'
    <3>1. ~checked
      BY <1>1, <2>3
    <3>2. format.crc
      BY <1>3, <1>4, <1>5, <2>1 DEF NoCrc
    <3> QED BY <1>1, <1>2, <3>1, <3>2
  <2>4. pc' # "accepted"
    BY <1>1
  <2> QED BY <2>2, <2>3, <2>4
<1>9. CellsInv' /\ RestInv'
  <2>1. ~Idle'
    BY <1>1 DEF Idle
  <2> QED BY <1>1, <2>1, ListStays DEF RestInv
<1> QED BY <1>6, <1>7, <1>8, <1>9 DEF ReadInv

LEMMA PlainReads == ASSUME FileInv, ReadInv, ReadPlainBlock PROVE ReadInv'
<1>1. /\ pc = "read" /\ UNCHANGED queueVars /\ UNCHANGED outVars /\ ~format.sparse
      /\ cur_block' = cur_block + 1 /\ cur_block < ImageBlocks
      /\ Keep(PlainPiece) /\ PlainPiece \in Upto(cur_block + 1) /\ PlainPiece.block = cur_block
      /\ checked' = checked
  BY ReadPlainIs DEF FileInv, ReadPlainBlock
<1>2. /\ want' = want /\ format' = format /\ chunks' = chunks /\ broken' = broken
      /\ ListInv /\ NameInv /\ ReadOK(rlist, rlast, cur_block) /\ cur_block \in Nat
      /\ plain \in [Units -> CellSet \cup {Hole}]
  BY <1>1, ReaderKeeps DEF FileInv, ListInv, OutOK, ReadOK
<1>3. PICK e \in Nat : e = cur_block + 1
  BY <1>2
<1>4. PICK p \in Upto(e) : p = PlainPiece
  BY <1>1, <1>3
<1>5. p.block = cur_block /\ EndOf(p) = e /\ Keep(p) /\ cur_block <= e
  BY <1>1, <1>2, <1>3, <1>4, PlainPieceIs
<1>6. /\ pc' \in {"read", "undefined"}
      /\ pc' = "read" => \A u, c : Has(rlist', u, c) <=> Has(rlist, u, c) \/ Holds(p, u, c)
  BY <1>2, <1>5, KeepOK
<1>7. CellsInv'
  <2>1. SUFFICES ASSUME Reading' PROVE CellsRead(rlist, cur_block)'
    BY DEF CellsInv
  <2>2. ~broken /\ pc' = "read"
    BY <1>2, <1>6, <2>1 DEF Reading
  <2>3. CellsRead(rlist, cur_block)
    BY <1>1, <2>2 DEF ReadInv, CellsInv, Reading
  <2>4. \A u \in Units : Seen(plain[u]) = Seen(want[u])
    BY <1>1, <2>2 DEF FileInv, PlainInv
  <2>5. \A u \in Units : \A c : Holds(p, u, c) => Resolved(c) = Seen(want[u])
    BY <1>1, <1>2, <1>4, <2>4, PlainPieceReads
  <2>6. PICK l : l = rlist'
    OBVIOUS
  <2>7. CellsRead(l, e)
    BY <1>2, <1>5, <1>6, <2>2, <2>3, <2>5, <2>6, CellsGrow
  <2>8. CellsRead(l, e)'
    BY <1>1, <2>7, ReaderKeeps
  <2> QED BY <1>1, <1>3, <2>6, <2>8 DEF CellsRead
<1>8. RestInv' /\ SpotInv' /\ SumInv' /\ VerdictInv'
  <2>1. ~Idle' /\ ~format'.sparse /\ pc' \notin {"refused", "crashed", "accepted"}
    BY <1>1, <1>2, <1>6 DEF Idle
  <2> QED BY <2>1 DEF RestInv, SpotInv, SumInv, VerdictInv
<1> QED BY <1>7, <1>8 DEF ReadInv

LEMMA EndReads == ASSUME FileInv, ReadInv, EndRead PROVE ReadInv'
<1>1. /\ pc = "read" /\ UNCHANGED queueVars /\ UNCHANGED outVars /\ UNCHANGED readVars
      /\ format.sparse => rpos > header.chunks \/ rpos > Len(chunks)
      /\ ~format.sparse => cur_block = ImageBlocks /\ pc' = "accepted"
      /\ format.sparse => pc' = IF rpos <= header.chunks \/ cur_block # header.blks
                                THEN "refused" ELSE "accepted"
  BY DEF EndRead
<1>2. /\ rlist' = rlist /\ rpos' = rpos /\ cur_block' = cur_block /\ rcrc' = rcrc /\ checked' = checked
      /\ want' = want /\ format' = format /\ chunks' = chunks /\ crc32' = crc32 /\ broken' = broken
      /\ chunks \in Seq(ChunkSet)
  BY <1>1, ReaderKeeps DEF readVars, FileInv, ListInv, OutOK
<1>3. SpotInv' /\ SumInv'
  BY <1>1, <1>2 DEF ReadInv, SpotInv, SumInv, Reading
<1>4. CellsInv'
  BY <1>1, <1>2, ListStays
<1>5. pc' \in {"accepted", "refused"}
  BY <1>1
<1>6. VerdictInv'
  <2>1. SUFFICES ASSUME ~broken PROVE pc' = "accepted" /\ cur_block = ImageBlocks
    BY <1>2 DEF VerdictInv
  <2>2. CASE ~format.sparse
    BY <1>1, <2>2
  <2>3. CASE format.sparse
    <3>1. Whole
      BY <1>1, <2>1, <2>3 DEF Whole
    <3>2. PICK f : Counted(f)
      BY <3>1 DEF FileInv, ChunkInv, CountInv
    <3>3. header.chunks = Len(chunks) /\ header.blks = ImageBlocks
      BY <1>1, <3>2 DEF Counted
    <3>4. SpotAt(chunks, want, rpos, cur_block)
      BY <1>1, <2>1, <2>3 DEF ReadInv, SpotInv, Reading
    <3>5. PICK s : s[Len(chunks)] = ImageBlocks /\ cur_block = s[rpos - 1]
      BY <3>4 DEF SpotAt
    <3>6. rpos \in 1 .. Len(chunks) + 1
      BY <3>4 DEF SpotAt
    <3>7. ~(rpos <= header.chunks) /\ rpos - 1 = Len(chunks)
      BY <1>1, <1>2, <2>3, <3>3, <3>6
    <3> QED BY <1>1, <2>3, <3>3, <3>5, <3>7
  <2> QED BY <2>2, <2>3
<1>7. RestInv'
  BY <1>5 DEF RestInv, Idle
<1> QED BY <1>3, <1>4, <1>6, <1>7 DEF ReadInv

LEMMA ReadStays == ASSUME ReadInv, UNCHANGED sparseVars PROVE ReadInv'
<1>1. UNCHANGED queueVars /\ UNCHANGED outVars /\ UNCHANGED readVars /\ pc' = pc
  BY DEF sparseVars
<1>2. /\ rlist' = rlist /\ rpos' = rpos /\ cur_block' = cur_block /\ rcrc' = rcrc /\ checked' = checked
      /\ want' = want /\ format' = format /\ chunks' = chunks /\ crc32' = crc32 /\ broken' = broken
  BY <1>1, ReaderKeeps DEF readVars
<1>3. RestInv' /\ SpotInv' /\ SumInv' /\ VerdictInv'
  BY <1>1, <1>2 DEF ReadInv, RestInv, Idle, SpotInv, SumInv, VerdictInv, Reading
<1>4. CellsInv'
  <2>1. SUFFICES ASSUME Reading' PROVE CellsRead(rlist, cur_block)'
    BY DEF CellsInv
  <2>2. CellsRead(rlist, cur_block)
    BY <1>1, <1>2, <2>1 DEF ReadInv, CellsInv, Reading
  <2>3. PICK l : l = rlist
    OBVIOUS
  <2>4. PICK b : b = cur_block
    OBVIOUS
  <2>5. CellsRead(l, b)
    BY <2>2, <2>3, <2>4
  <2>6. CellsRead(l, b)'
    BY <1>1, <2>5, ReaderKeeps
  <2> QED BY <1>2, <2>3, <2>4, <2>6 DEF CellsRead
<1> QED BY <1>3, <1>4 DEF ReadInv

LEMMA ReadStep == ASSUME FileInv, ReadInv, [SparseNext]_sparseVars PROVE ReadInv'
<1>1. CASE UNCHANGED sparseVars
  BY <1>1, ReadStays
<1>2. CASE \E p \in Pieces : Queue(p) \/ QueueAfterFree(p)
  BY <1>2, WriterReads
<1>3. CASE OpenOutput \/ WriteSkip \/ WriteBlock \/ WriteEndSkip \/ CloseOutput
  BY <1>3, WriterReads
<1>4. CASE StartRead \/ ReadChunk \/ ReadChecksum \/ ReadPlainBlock \/ EndRead
  BY <1>4, StartReads, ChunkReads, ChecksumReads, PlainReads, EndReads
<1>5. CASE SparseStep
  BY <1>3, <1>4, <1>5 DEF SparseStep
<1>6. CASE SparseEnded /\ UNCHANGED sparseVars
  BY <1>1, <1>6
<1> QED BY <1>1, <1>2, <1>5, <1>6 DEF SparseNext

LEMMA ReadInit == ASSUME SparseInit PROVE PlainInv /\ NameInv /\ CrcInv /\ ReadInv
<1>1. /\ pc = "queue" /\ rpos = 1 /\ cur_block = 0 /\ rcrc = <<>> /\ rlist = <<>>
      /\ want = [u \in Units |-> Hole]
  BY DEF SparseInit
<1>2. PlainInv /\ CrcInv
  BY <1>1 DEF PlainInv, CrcInv, Whole
<1>3. NameInv
  BY <1>1 DEF NameInv, Hole
<1>4. ReadInv
  BY <1>1 DEF ReadInv, RestInv, SpotInv, SumInv, CellsInv, VerdictInv, Reading
<1> QED BY <1>2, <1>3, <1>4

\* The inductive invariant of a file from its first piece to the verdict of
\* its reader.
THEOREM FileInvariance == SparseSpec => [](FileInv /\ ReadInv)
<1>1. SparseInit => PlainInv /\ NameInv /\ CrcInv /\ ReadInv
  BY ReadInit
<1>2. ListInv /\ ChunkInv /\ PlainInv /\ [SparseNext]_sparseVars => PlainInv'
  BY PlainKept DEF ChunkInv
<1>3. ListInv /\ NameInv /\ [SparseNext]_sparseVars => NameInv'
  BY NameKept
<1>4. ListInv /\ ChunkInv /\ CrcInv /\ [SparseNext]_sparseVars => CrcInv'
  BY CrcKept
<1>5. FileInv /\ ReadInv /\ [SparseNext]_sparseVars => ReadInv'
  BY ReadStep
<1>6. FileInv <=> ListInv /\ ChunkInv /\ PlainInv /\ NameInv /\ CrcInv
  BY DEF FileInv
<1> QED BY <1>1, <1>2, <1>3, <1>4, <1>5, <1>6, ChunkInvariance, PTL DEF SparseSpec

LEMMA ReadInvReadsBack == ASSUME FileInv, ReadInv PROVE ReadBack
<1>1. chunks \in Seq(ChunkSet) /\ rlist \in Seq(Upto(cur_block))
  BY DEF FileInv, ListInv, OutOK, ReadOK, ListOK
<1>2. ASSUME ~broken, pc = "refused" PROVE checked /\ \E k \in DOMAIN chunks : SummedApart(chunks[k])
  BY <1>1, <1>2 DEF ReadInv, VerdictInv, Apart
<1>3. ASSUME ~broken, pc = "crashed" PROVE format.crc /\ ~checked
  BY <1>3 DEF ReadInv, VerdictInv
<1>4. ASSUME ~broken, pc = "accepted", NEW u \in Units
      PROVE  Resolved(CellInList(rlist, u)) = Seen(want[u])
  <2>1. CellsRead(rlist, cur_block) /\ cur_block = ImageBlocks
    BY <1>4 DEF ReadInv, CellsInv, VerdictInv, Reading
  <2>2. u < cur_block * BlockSize
    <3>1. PICK z \in Nat : z = ImageBlocks * BlockSize
      BY UnitsAre
    <3> QED BY <2>1, <3>1 DEF Units
  <2>3. /\ \A c : Has(rlist, u, c) => Resolved(c) = Seen(want[u])
        /\ (\E c : Has(rlist, u, c)) \/ Seen(want[u]) = Zero
    BY <2>1, <2>2 DEF CellsRead
  <2>4. CASE \E c : Has(rlist, u, c)
    <3>1. Has(rlist, u, CellInList(rlist, u))
      BY <1>1, <2>4, CellInListIs
    <3> QED BY <2>3, <3>1
  <2>5. CASE ~(\E c : Has(rlist, u, c))
    <3>1. CellInList(rlist, u) = Hole
      BY <1>1, <2>5, CellInListIs
    <3>2. Resolved(Hole) = Zero
      BY DEF Resolved, Seen, Hole
    <3> QED BY <2>3, <2>5, <3>1, <3>2
  <2> QED BY <2>4, <2>5
<1> QED BY <1>2, <1>3, <1>4 DEF ReadBack

\* sparse_file_read: a file written without a failure reads back as the image
\* in either format, refused only when a checksum is verified over a gap or a
\* long fill, which the two sides sum differently, and crashing its reader only
\* when a checksum is in it that the caller did not ask to verify.
THEOREM ReadAlwaysBack == SparseSpec => []ReadBack
BY FileInvariance, ReadInvReadsBack, PTL
=============================================================================

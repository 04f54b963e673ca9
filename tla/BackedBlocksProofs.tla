------------------------- MODULE BackedBlocksProofs -------------------------
(***************************************************************************)
(* What queue_bb, backed_block_split and backed_block_list_move do to a    *)
(* list, for every block size, list and piece.                             *)
(***************************************************************************)
EXTENDS BackedBlocks, Arithmetic, SequenceTheorems

\* Unit u of the image is in piece p, or in a piece of the list, and is cell c.
Holds(p, u, c) ==
  /\ u \in p.block * BlockSize .. EndOf(p) * BlockSize - 1
  /\ c = CellOf(p, u - p.block * BlockSize)
Has(l, u, c) == \E k \in 1 .. Len(l) : Holds(l[k], u, c)

Ordered(l) == \A i, j \in 1 .. Len(l) : i < j => EndOf(l[i]) <= l[j].block
Blocks(l) == {l[k].block : k \in 1 .. Len(l)}
\* backed_block_split may leave a first half without length.
IsPart(p) ==
  /\ p = [type |-> p.type, block |-> p.block, len |-> p.len, src |-> p.src, off |-> p.off]
  /\ p.type \in PieceTypes
  /\ p.block \in Nat /\ p.len \in Nat /\ p.off \in Nat
Beside(p, q) == p.block # q.block /\ (EndOf(p) <= q.block \/ EndOf(q) <= p.block)

Join(a, b) == [a EXCEPT !.len = @ + b.len]
\* The pieces that may be in a list: with two adjacent ones also what merge_bb
\* makes of them.
MergeClosed(P) ==
  /\ \A p \in P : IsPart(p)
  /\ \A a, b \in P : Mergeable(a, b) /\ EndOf(a) <= b.block => Join(a, b) \in P

-----------------------------------------------------------------------------
(* Pieces.                                                                 *)

\* Whole blocks that hold a length: no more than needed.
LEMMA BlocksInBounds ==
  ASSUME NEW len \in Nat
  PROVE  /\ BlocksIn(len) \in Nat
         /\ len <= BlocksIn(len) * BlockSize /\ BlocksIn(len) * BlockSize < len + BlockSize
         /\ len > 0 => BlocksIn(len) > 0
<1>1. BlockSize \in Nat \ {0} /\ len + BlockSize - 1 \in Nat
  BY BlockSizeAssumption
<1>2. PICK q : q = BlocksIn(len)
  OBVIOUS
<1>3. PICK r : r = (len + BlockSize - 1) % BlockSize
  OBVIOUS
<1>4. /\ q \in Nat /\ r \in 0 .. BlockSize - 1
      /\ len + BlockSize - 1 = q * BlockSize + r /\ q * BlockSize \in Nat
  BY <1>1, <1>2, <1>3, DivMod DEF BlocksIn
<1>5. q = 0 => q * BlockSize = 0
  BY <1>1
<1> QED BY <1>1, <1>2, <1>4, <1>5

LEMMA BlocksInIs ==
  ASSUME NEW len \in Nat, NEW q \in Nat, len <= q * BlockSize, q * BlockSize < len + BlockSize
  PROVE  BlocksIn(len) = q
<1>1. BlockSize \in Nat \ {0}
  BY BlockSizeAssumption
<1>2. PICK r : r = len + BlockSize - 1 - q * BlockSize
  OBVIOUS
<1>3. q * BlockSize \in Nat
  BY <1>1
<1>4. r \in 0 .. BlockSize - 1 /\ len + BlockSize - 1 = q * BlockSize + r
  BY <1>1, <1>2, <1>3
<1> QED BY <1>1, <1>4, Division DEF BlocksIn

\* Whole blocks in front of a length.
LEMMA BlocksInSum ==
  ASSUME NEW n \in Nat, NEW len \in Nat
  PROVE  BlocksIn(n * BlockSize + len) = n + BlocksIn(len)
<1>1. BlockSize \in Nat \ {0}
  BY BlockSizeAssumption
<1>2. PICK q \in Nat : q = BlocksIn(len) /\ len <= q * BlockSize /\ q * BlockSize < len + BlockSize
  BY BlocksInBounds
<1>3. (n + q) * BlockSize = n * BlockSize + q * BlockSize /\ n * BlockSize \in Nat /\ q * BlockSize \in Nat
  BY <1>1, <1>2
<1>4. n * BlockSize + len \in Nat /\ n + q \in Nat
  BY <1>2, <1>3
<1>5. n * BlockSize + len <= (n + q) * BlockSize /\ (n + q) * BlockSize < n * BlockSize + len + BlockSize
  BY <1>1, <1>2, <1>3
<1> QED BY <1>2, <1>4, <1>5, BlocksInIs

LEMMA EndIsBehind ==
  ASSUME NEW p, IsPiece(p)
  PROVE  p.block \in Nat /\ EndOf(p) \in Nat /\ p.block < EndOf(p)
BY BlocksInBounds DEF IsPiece, EndOf

LEMMA PieceIsPart == ASSUME NEW p PROVE IsPiece(p) <=> IsPart(p) /\ p.len # 0
BY DEF IsPiece, IsPart

\* A part ends where it starts, or behind.
LEMMA PartEnds ==
  ASSUME NEW p, IsPart(p)
  PROVE  p.block \in Nat /\ EndOf(p) \in Nat /\ p.block <= EndOf(p)
BY BlocksInBounds DEF IsPart, EndOf

\* Blocks are ordered as their units are.
LEMMA UnitOrder ==
  ASSUME NEW m \in Nat, NEW n \in Nat
  PROVE  /\ m * BlockSize \in Nat
         /\ m < n => m * BlockSize + BlockSize <= n * BlockSize
         /\ m <= n <=> m * BlockSize <= n * BlockSize
<1>1. BlockSize \in Nat \ {0}
  BY BlockSizeAssumption
<1>2. m * BlockSize \in Nat /\ n * BlockSize \in Nat
  BY <1>1
<1>3. ASSUME NEW a \in Nat, NEW b \in Nat, a < b PROVE a * BlockSize + BlockSize <= b * BlockSize
  <2>1. (b - a) \in Nat \ {0} /\ (b - a) * BlockSize >= BlockSize
    BY <1>1, <1>3
  <2>2. (b - a) * BlockSize = b * BlockSize - a * BlockSize /\ b * BlockSize \in Nat /\ a * BlockSize \in Nat
    BY <1>1
  <2> QED BY <1>1, <2>1, <2>2
<1>4. m < n => m * BlockSize + BlockSize <= n * BlockSize
  BY <1>3
<1>5. n < m => n * BlockSize + BlockSize <= m * BlockSize
  BY <1>3
<1> QED BY <1>1, <1>2, <1>4, <1>5

\* merge_bb: two pieces that do not overlap and that it merges leave the same
\* cells.
LEMMA JoinIs ==
  ASSUME NEW a, NEW b, IsPart(a), IsPart(b), Mergeable(a, b), EndOf(a) <= b.block
  PROVE  /\ IsPart(Join(a, b)) /\ Join(a, b).block = a.block /\ EndOf(Join(a, b)) = EndOf(b)
         /\ Join(a, b).type = a.type /\ Join(a, b).src = a.src /\ Join(a, b).len = a.len + b.len
         /\ b.type = a.type /\ a.len % BlockSize = 0
         /\ \A u, c : Holds(Join(a, b), u, c) <=> Holds(a, u, c) \/ Holds(b, u, c)
<1>1. BlockSize \in Nat \ {0}
  BY BlockSizeAssumption
<1>2. /\ Join(a, b) = [type |-> a.type, block |-> a.block, len |-> a.len + b.len, src |-> a.src, off |-> a.off]
      /\ a.block \in Nat /\ a.len \in Nat /\ b.block \in Nat /\ b.len \in Nat
      /\ a.off \in Nat /\ b.off \in Nat /\ b.type = a.type /\ a.type \in {"fill", "fd"} /\ b.src = a.src
  BY DEF IsPart, Join, Mergeable
<1>3. PICK n \in Nat : a.len = n * BlockSize /\ b.block = a.block + n /\ EndOf(a) = b.block /\ a.len % BlockSize = 0
  <2>1. PICK q : q = a.len \div BlockSize
    OBVIOUS
  <2>2. PICK r : r = a.len % BlockSize
    OBVIOUS
  <2>3. q \in Nat /\ r \in 0 .. BlockSize - 1 /\ a.len = q * BlockSize + r /\ q * BlockSize \in Nat
    BY <1>1, <1>2, <2>1, <2>2, DivMod
  <2>4. b.block = a.block + q
    BY <2>1 DEF Mergeable
  <2>5. /\ BlocksIn(a.len) \in Nat /\ a.len <= BlocksIn(a.len) * BlockSize
        /\ EndOf(a) = a.block + BlocksIn(a.len)
    BY <1>2, BlocksInBounds DEF EndOf
  <2>6. BlocksIn(a.len) <= q
    BY <1>2, <2>3, <2>4, <2>5
  <2>7. BlocksIn(a.len) * BlockSize <= q * BlockSize
    BY <2>3, <2>5, <2>6, UnitOrder
  <2>8. r = 0 /\ BlocksIn(a.len) * BlockSize = q * BlockSize
    <3>1. PICK x : x = BlocksIn(a.len) * BlockSize
      OBVIOUS
    <3>2. x \in Nat
      BY <2>5, <3>1, UnitOrder
    <3> QED BY <1>1, <1>2, <2>3, <2>5, <2>7, <3>1, <3>2
  <2>9. BlocksIn(a.len) = q
    BY <2>3, <2>5, <2>6, <2>8, UnitOrder
  <2> QED BY <2>2, <2>3, <2>4, <2>5, <2>8, <2>9
<1>4. EndOf(Join(a, b)) = EndOf(b)
  <2>1. BlocksIn(a.len + b.len) = n + BlocksIn(b.len) /\ BlocksIn(b.len) \in Nat
    BY <1>2, <1>3, BlocksInSum, BlocksInBounds
  <2> QED BY <1>2, <1>3, <2>1 DEF EndOf
<1>5. IsPart(Join(a, b))
  <2>1. a.len + b.len \in Nat /\ a.type \in PieceTypes
    BY <1>2 DEF IsPart
  <2> QED BY <1>2, <2>1 DEF IsPart
<1>6. ASSUME NEW u, NEW c PROVE Holds(Join(a, b), u, c) <=> Holds(a, u, c) \/ Holds(b, u, c)
  <2>1. PICK s : s = a.block * BlockSize
    OBVIOUS
  <2>2. PICK t : t = b.block * BlockSize
    OBVIOUS
  <2>3. PICK e : e = EndOf(b) * BlockSize
    OBVIOUS
  <2>4. s \in Nat /\ t \in Nat /\ e \in Nat /\ t = s + a.len /\ t <= e
    <3>1. EndOf(b) \in Nat /\ b.block <= EndOf(b)
      BY PartEnds
    <3>2. t <= e /\ t \in Nat /\ s \in Nat /\ e \in Nat
      BY <1>2, <2>1, <2>2, <2>3, <3>1, UnitOrder
    <3>3. (a.block + n) * BlockSize = a.block * BlockSize + n * BlockSize
      BY <1>1, <1>2
    <3> QED BY <1>1, <1>3, <2>1, <2>2, <3>2, <3>3
  <2>5. /\ Holds(a, u, c) <=> u \in s .. t - 1 /\ c = CellOf(a, u - s)
        /\ Holds(b, u, c) <=> u \in t .. e - 1 /\ c = CellOf(b, u - t)
        /\ Holds(Join(a, b), u, c) <=> u \in s .. e - 1 /\ c = CellOf(Join(a, b), u - s)
    BY <1>2, <1>3, <1>4, <2>1, <2>2, <2>3 DEF Holds
  <2>6. u \in s .. e - 1 <=> u \in s .. t - 1 \/ u \in t .. e - 1
    BY <1>2, <2>4
  <2>7. u \in s .. t - 1 => CellOf(Join(a, b), u - s) = CellOf(a, u - s)
    <3>1. u \in s .. t - 1 => u - s < a.len /\ u - s < a.len + b.len
      BY <1>2, <2>4
    <3> QED BY <1>2, <3>1 DEF CellOf
  <2>8. u \in t .. e - 1 => CellOf(Join(a, b), u - s) = CellOf(b, u - t)
    <3>1. SUFFICES ASSUME u \in t .. e - 1 PROVE CellOf(Join(a, b), u - s) = CellOf(b, u - t)
      OBVIOUS
    <3>2. CASE a.type = "fill"
      BY <1>2, <3>2 DEF CellOf
    <3>3. CASE a.type = "fd"
      <4>1. a.off + a.len = b.off
        BY <3>3 DEF Mergeable
      <4>2. (u - s < a.len + b.len <=> u - t < b.len) /\ a.off + (u - s) = b.off + (u - t)
        BY <1>2, <2>4, <3>1, <4>1
      <4> QED BY <1>2, <3>3, <4>2 DEF CellOf
    <3> QED BY <1>2, <3>2, <3>3
  <2>9. ~(u \in s .. t - 1 /\ u \in t .. e - 1)
    BY <2>4
  <2> QED BY <2>5, <2>6, <2>7, <2>8, <2>9
<1> QED BY <1>2, <1>3, <1>4, <1>5, <1>6

-----------------------------------------------------------------------------
(* Lists.                                                                  *)

\* Some pieces of a list, one more, and the last pieces of the list.
Splice(l, a, p, b) == SubSeq(l, 1, a) \o <<p>> \o SubSeq(l, b, Len(l))

LEMMA Spliced ==
  ASSUME NEW P, NEW l \in Seq(P), NEW p \in P, NEW a \in 0 .. Len(l), NEW b \in a + 1 .. Len(l) + 1
  PROVE  /\ Splice(l, a, p, b) \in Seq(P)
         /\ \A n \in Nat : n + b = a + 2 + Len(l) => Len(Splice(l, a, p, b)) = n
         /\ \A i \in 1 .. a : Splice(l, a, p, b)[i] = l[i]
         /\ Splice(l, a, p, b)[a + 1] = p
         /\ \A i \in b .. Len(l), j \in Nat : j + b = i + a + 2 => Splice(l, a, p, b)[j] = l[i]
<1>1. PICK n \in Nat : n = Len(l)
  OBVIOUS
<1>2. PICK x : x = SubSeq(l, 1, a)
  OBVIOUS
<1>3. PICK z : z = SubSeq(l, b, n)
  OBVIOUS
<1>4. \A i \in 1 .. n : l[i] \in P
  BY <1>1
<1>5. x \in Seq(P) /\ Len(x) = a /\ \A i \in 1 .. a : x[i] = l[i]
  <2>1. a \in Int /\ a \in 0 .. n /\ \A i \in 1 .. a : l[i] \in P
    BY <1>1, <1>4
  <2>2. /\ x \in Seq(P) /\ Len(x) = IF 1 <= a THEN a - 1 + 1 ELSE 0
        /\ \A i \in 1 .. a - 1 + 1 : x[i] = l[1 + i - 1]
    BY <1>2, <2>1, SubSeqProperties
  <2> QED BY <2>1, <2>2
<1>6. z \in Seq(P) /\ Len(z) = n + 1 - b /\ \A i \in b .. n : z[i - b + 1] = l[i]
  <2>1. b \in Int /\ n \in Int /\ b \in 1 .. n + 1 /\ \A i \in b .. n : l[i] \in P
    BY <1>1, <1>4
  <2>2. /\ z \in Seq(P) /\ Len(z) = IF b <= n THEN n - b + 1 ELSE 0
        /\ \A i \in 1 .. n - b + 1 : z[i] = l[b + i - 1]
    BY <1>3, <2>1, SubSeqProperties
  <2>3. ASSUME NEW i \in b .. n PROVE z[i - b + 1] = l[i]
    <3>1. i - b + 1 \in 1 .. n - b + 1 /\ b + (i - b + 1) - 1 = i
      BY <2>1
    <3> QED BY <2>2, <3>1
  <2> QED BY <2>1, <2>2, <2>3
<1>7. PICK y : y = x \o <<p>>
  OBVIOUS
<1>8. y \in Seq(P) /\ Len(y) = a + 1 /\ y[a + 1] = p /\ \A i \in 1 .. a : y[i] = l[i]
  <2>1. <<p>> \in Seq(P) /\ Len(<<p>>) = 1 /\ <<p>>[1] = p
    OBVIOUS
  <2>2. PICK w : w = <<p>>
    OBVIOUS
  <2>3. /\ y \in Seq(P) /\ Len(y) = Len(x) + Len(w)
        /\ \A i \in 1 .. Len(x) + Len(w) : y[i] = IF i <= Len(x) THEN x[i] ELSE w[i - Len(x)]
    BY <1>5, <1>7, <2>1, <2>2, ConcatProperties
  <2> QED BY <1>5, <2>1, <2>2, <2>3
<1> DEFINE m == Splice(l, a, p, b)
<1>9. m = y \o z
  BY <1>1, <1>2, <1>3, <1>7 DEF Splice
<1> HIDE DEF m
<1>10. /\ m \in Seq(P) /\ Len(m) = Len(y) + Len(z)
       /\ \A i \in 1 .. Len(y) + Len(z) : m[i] = IF i <= Len(y) THEN y[i] ELSE z[i - Len(y)]
  <2>1. y \in Seq(P) /\ z \in Seq(P)
    BY <1>6, <1>8
  <2> QED BY <1>9, <2>1, ConcatProperties
<1>11. b \in a + 1 .. n + 1 /\ a \in 0 .. n
  BY <1>1
<1>12. ASSUME NEW i \in b .. n, NEW j \in Nat, j + b = i + a + 2 PROVE m[j] = l[i]
  <2>1. j \in 1 .. Len(y) + Len(z) /\ ~(j <= Len(y)) /\ j - Len(y) = i - b + 1
    <3>1. Len(y) = a + 1 /\ Len(z) = n + 1 - b
      BY <1>6, <1>8
    <3>2. a \in Nat /\ b \in Nat /\ a + 1 <= b /\ b <= i /\ i <= n /\ j + b = i + a + 2 /\ j \in Nat /\ i \in Nat
      BY <1>11, <1>12
    <3> QED BY <3>1, <3>2
  <2> QED BY <1>6, <1>10, <2>1
<1>13. /\ \A i \in 1 .. a : m[i] = l[i]
       /\ m[a + 1] = p
  <2>1. \A i \in 1 .. a + 1 : i \in 1 .. Len(y) + Len(z) /\ i <= Len(y)
    BY <1>6, <1>8, <1>11
  <2>2. \A i \in 1 .. a + 1 : m[i] = y[i]
    BY <1>10, <2>1
  <2>3. a + 1 \in 1 .. a + 1 /\ \A i \in 1 .. a : i \in 1 .. a + 1
    BY <1>11
  <2> QED BY <1>8, <2>2, <2>3
<1>15. ASSUME NEW k \in Nat, k + b = a + 2 + Len(l) PROVE Len(m) = k
  BY <1>1, <1>6, <1>8, <1>10, <1>11, <1>15
<1> QED BY <1>1, <1>10, <1>12, <1>13, <1>15 DEF m

\* merge_bb on a list.
LEMMA MergeAtIs ==
  ASSUME NEW P, MergeClosed(P), NEW l \in Seq(P), Ordered(l), NEW k \in Int
  PROVE  LET m == MergeAt(l, k)
         IN  /\ m \in Seq(P) /\ Ordered(m) /\ Blocks(m) \subseteq Blocks(l)
             /\ \A u, c : Has(m, u, c) <=> Has(l, u, c)
<1> DEFINE m == MergeAt(l, k)
           n == Len(l)
<1>1. CASE ~(k \in 1 .. n - 1 /\ Mergeable(l[k], l[k + 1]))
  <2>1. m = l
    BY <1>1 DEF MergeAt
  <2> QED BY <2>1
<1>2. CASE k \in 1 .. n - 1 /\ Mergeable(l[k], l[k + 1])
  <2> DEFINE J == Join(l[k], l[k + 1])
  <2>1. n \in Nat /\ k \in 1 .. n /\ k + 1 \in 1 .. n /\ l[k] \in P /\ l[k + 1] \in P
    BY <1>2
  <2>2. EndOf(l[k]) <= l[k + 1].block
    BY <2>1 DEF Ordered
  <2>3. J \in P /\ IsPart(l[k]) /\ IsPart(l[k + 1])
    BY <1>2, <2>1, <2>2 DEF MergeClosed
  <2>4. /\ J.block = l[k].block /\ EndOf(J) = EndOf(l[k + 1])
        /\ \A u, c : Holds(J, u, c) <=> Holds(l[k], u, c) \/ Holds(l[k + 1], u, c)
    BY <1>2, <2>2, <2>3, JoinIs
  <2>5. m = SubSeq(l, 1, k - 1) \o <<J>> \o SubSeq(l, k + 2, n)
    BY <1>2 DEF MergeAt, Join
  <2> HIDE DEF J, m
  <2>6. /\ m \in Seq(P) /\ Len(m) = n - 1
        /\ \A i \in 1 .. n - 1 : m[i] = IF i < k THEN l[i] ELSE IF i = k THEN J ELSE l[i + 1]
    <3>1. PICK a \in 0 .. n : a = k - 1
      BY <2>1
    <3>2. PICK b \in a + 1 .. n + 1 : b = k + 2
      BY <1>2, <2>1, <3>1
    <3>3. m = Splice(l, a, J, b) /\ J \in P
      BY <2>3, <2>5, <3>1, <3>2 DEF Splice
    <3>9. /\ m \in Seq(P) /\ Len(m) = n - 1
          /\ \A i \in 1 .. a : m[i] = l[i]
          /\ m[a + 1] = J
          /\ \A i \in b .. n, j \in Nat : j + b = i + a + 2 => m[j] = l[i]
      <4>1. /\ m \in Seq(P) /\ \A w \in Nat : w + b = a + 2 + Len(l) => Len(m) = w
            /\ \A i \in 1 .. a : m[i] = l[i]
            /\ m[a + 1] = J
            /\ \A i \in b .. Len(l), j \in Nat : j + b = i + a + 2 => m[j] = l[i]
        BY <3>3, Spliced, SMTT(60)
      <4>2. n - 1 \in Nat /\ (n - 1) + b = a + 2 + Len(l)
        BY <1>2, <2>1, <3>1, <3>2
      <4> QED BY <4>1, <4>2
    <3>4. ASSUME NEW i \in k + 1 .. n - 1 PROVE m[i] = l[i + 1]
      <4>1. i + 1 \in b .. n /\ i \in Nat /\ i + b = (i + 1) + a + 2
        BY <2>1, <3>1, <3>2
      <4> QED BY <3>9, <4>1
    <3>5. ASSUME NEW i \in 1 .. n - 1 PROVE m[i] = IF i < k THEN l[i] ELSE IF i = k THEN J ELSE l[i + 1]
      <4>1. CASE i < k
        <5>1. i \in 1 .. a
          BY <2>1, <3>1, <4>1
        <5> QED BY <3>9, <4>1, <5>1
      <4>2. CASE i = k
        <5>1. ~(i < k) /\ m[i] = J
          BY <2>1, <3>1, <3>9, <4>2
        <5> QED BY <4>2, <5>1
      <4>3. CASE i > k
        <5>1. i \in k + 1 .. n - 1 /\ ~(i < k) /\ i # k
          BY <2>1, <4>3
        <5> QED BY <3>4, <5>1
      <4> QED BY <2>1, <4>1, <4>2, <4>3
    <3>6. Len(m) = n - 1
      BY <2>1, <3>1, <3>2, <3>9
    <3> QED BY <3>5, <3>6, <3>9
  <2>7. ASSUME NEW i \in 1 .. n - 1
        PROVE  \E a, b \in 1 .. n : /\ m[i].block = l[a].block /\ EndOf(m[i]) = EndOf(l[b])
                                    /\ i <= a /\ a <= b /\ b <= i + 1 /\ (i < k => b = i) /\ (i > k => a = i + 1)
    <3>1. CASE i < k
      BY <2>1, <2>6, <3>1
    <3>2. CASE i = k
      BY <2>1, <2>4, <2>6, <3>2
    <3>3. CASE i > k
      <4>1. i + 1 \in 1 .. n /\ m[i] = l[i + 1]
        BY <2>1, <2>6, <3>3
      <4> QED BY <2>1, <3>3, <4>1
    <3> QED BY <2>1, <3>1, <3>2, <3>3
  <2>8. Ordered(m)
    <3>1. SUFFICES ASSUME NEW i \in 1 .. n - 1, NEW j \in 1 .. n - 1, i < j
                   PROVE  EndOf(m[i]) <= m[j].block
      BY <2>6 DEF Ordered
    <3>2. PICK b \in 1 .. n : EndOf(m[i]) = EndOf(l[b]) /\ b <= i + 1 /\ (i < k => b = i)
      BY <2>7
    <3>3. PICK a \in 1 .. n : m[j].block = l[a].block /\ j <= a /\ (j > k => a = j + 1)
      BY <2>7
    <3>4. b < a
      BY <2>1, <3>1, <3>2, <3>3
    <3> QED BY <3>2, <3>3, <3>4 DEF Ordered
  <2>9. Blocks(m) \subseteq Blocks(l)
    <3>1. \A i \in 1 .. n - 1 : \E a \in 1 .. n : m[i].block = l[a].block
      BY <2>7
    <3>2. Len(m) = n - 1
      BY <2>6
    <3> QED BY <3>1, <3>2 DEF Blocks
  <2>10. ASSUME NEW u, NEW c PROVE Has(m, u, c) <=> Has(l, u, c)
    <3>1. ASSUME NEW i \in 1 .. n - 1, Holds(m[i], u, c) PROVE \E j \in 1 .. n : Holds(l[j], u, c)
      <4>1. CASE i < k
        BY <2>1, <2>6, <3>1, <4>1
      <4>2. CASE i = k
        BY <2>1, <2>4, <2>6, <3>1, <4>2
      <4>3. CASE i > k
        <5>1. i + 1 \in 1 .. n /\ m[i] = l[i + 1]
          BY <2>1, <2>6, <4>3
        <5> QED BY <3>1, <5>1
      <4> QED BY <2>1, <4>1, <4>2, <4>3
    <3>2. ASSUME NEW j \in 1 .. n, Holds(l[j], u, c) PROVE \E i \in 1 .. n - 1 : Holds(m[i], u, c)
      <4>1. CASE j < k
        BY <2>1, <2>6, <3>2, <4>1
      <4>2. CASE j = k \/ j = k + 1
        BY <2>1, <2>4, <2>6, <3>2, <4>2
      <4>3. CASE j > k + 1
        <5>1. j - 1 \in 1 .. n - 1 /\ j - 1 > k /\ (j - 1) + 1 = j
          BY <2>1, <4>3
        <5>2. m[j - 1] = l[j]
          BY <2>1, <2>6, <5>1
        <5> QED BY <3>2, <5>1, <5>2
      <4> QED BY <2>1, <4>1, <4>2, <4>3
    <3> QED BY <2>6, <3>1, <3>2 DEF Has
  <2> QED BY <2>6, <2>8, <2>9, <2>10 DEF m
<1> QED BY <1>1, <1>2

\* The place behind the first k pieces of a list is one for p.
Gap(l, k, p) ==
  \A j \in 1 .. Len(l) : IF j <= k THEN EndOf(l[j]) <= p.block ELSE EndOf(p) <= l[j].block
Insert(l, k, p) == SubSeq(l, 1, k) \o <<p>> \o SubSeq(l, k + 1, Len(l))

\* A piece put between those in front of it and those behind it.
LEMMA InsertIs ==
  ASSUME NEW P, NEW l \in Seq(P), Ordered(l), NEW p \in P, NEW k \in 0 .. Len(l), Gap(l, k, p)
  PROVE  /\ Insert(l, k, p) \in Seq(P) /\ Ordered(Insert(l, k, p))
         /\ Blocks(Insert(l, k, p)) = Blocks(l) \cup {p.block}
         /\ \A u, c : Has(Insert(l, k, p), u, c) <=> Has(l, u, c) \/ Holds(p, u, c)
<1> DEFINE n == Len(l)
           m == Insert(l, k, p)
<1>1. n \in Nat /\ k \in 0 .. n
  OBVIOUS
<1>2. PICK b \in k + 1 .. n + 1 : b = k + 1
  BY <1>1
<1>3. /\ m \in Seq(P) /\ \A w \in Nat : w + b = k + 2 + Len(l) => Len(m) = w
      /\ \A i \in 1 .. k : m[i] = l[i]
      /\ m[k + 1] = p
      /\ \A i \in b .. Len(l), j \in Nat : j + b = i + k + 2 => m[j] = l[i]
  <2>1. m = Splice(l, k, p, b)
    BY <1>2 DEF Splice, Insert
  <2> HIDE DEF m
  <2> QED BY <2>1, Spliced, SMTT(60)
<1> HIDE DEF m
<1>6. m \in Seq(P) /\ Len(m) = n + 1
  <2>1. n + 1 \in Nat /\ (n + 1) + b = k + 2 + Len(l)
    BY <1>1, <1>2
  <2> QED BY <1>3, <2>1
<1>7. /\ \A i \in 1 .. k : m[i] = l[i]
      /\ m[k + 1] = p
      /\ \A i \in k + 1 .. n : m[i + 1] = l[i]
  <2>1. \A i \in k + 1 .. n : i + 1 \in Nat /\ (i + 1) + b = i + k + 2 /\ i \in b .. Len(l)
    BY <1>1, <1>2
  <2>2. ASSUME NEW i \in k + 1 .. n PROVE m[i + 1] = l[i]
    <3>1. PICK j \in Nat : j = i + 1 /\ j + b = i + k + 2
      BY <2>1
    <3> QED BY <1>3, <2>1, <3>1
  <2> QED BY <1>2, <1>3, <2>1, <2>2
<1>8. Ordered(m)
  <2>9. \A j \in 1 .. n : IF j <= k THEN EndOf(l[j]) <= p.block ELSE EndOf(p) <= l[j].block
    BY DEF Gap
  <2>1. SUFFICES ASSUME NEW i \in 1 .. n + 1, NEW j \in 1 .. n + 1, i < j
                 PROVE  EndOf(m[i]) <= m[j].block
    BY <1>6 DEF Ordered
  <2>2. CASE j <= k
    BY <1>1, <1>7, <2>1, <2>2 DEF Ordered
  <2>3. CASE j = k + 1
    BY <1>1, <1>7, <2>1, <2>3, <2>9
  <2>4. CASE i <= k /\ j > k + 1
    <3>1. j - 1 \in k + 1 .. n /\ (j - 1) + 1 = j /\ i < j - 1 /\ i \in 1 .. n /\ j - 1 \in 1 .. n
      BY <1>1, <2>1, <2>4
    <3>2. m[j] = l[j - 1] /\ m[i] = l[i]
      BY <1>1, <1>7, <2>4, <3>1
    <3> QED BY <3>1, <3>2 DEF Ordered
  <2>5. CASE i = k + 1
    <3>1. j - 1 \in k + 1 .. n /\ (j - 1) + 1 = j /\ ~(j - 1 <= k) /\ j - 1 \in 1 .. n
      BY <1>1, <2>1, <2>5
    <3>2. m[j] = l[j - 1] /\ m[i] = p
      BY <1>7, <2>5, <3>1
    <3> QED BY <2>9, <3>1, <3>2
  <2>6. CASE i > k + 1
    <3>1. /\ j - 1 \in k + 1 .. n /\ (j - 1) + 1 = j /\ i - 1 \in k + 1 .. n /\ (i - 1) + 1 = i
          /\ i - 1 < j - 1 /\ i - 1 \in 1 .. n /\ j - 1 \in 1 .. n
      BY <1>1, <2>1, <2>6
    <3>2. m[j] = l[j - 1] /\ m[i] = l[i - 1]
      BY <1>7, <3>1
    <3> QED BY <3>1, <3>2 DEF Ordered
  <2> QED BY <1>1, <2>1, <2>2, <2>3, <2>4, <2>5, <2>6
<1>9. /\ \A i \in 1 .. n + 1 : m[i] = p \/ \E j \in 1 .. n : m[i] = l[j]
      /\ \A j \in 1 .. n : \E i \in 1 .. n + 1 : m[i] = l[j]
      /\ k + 1 \in 1 .. n + 1
  <2>1. ASSUME NEW i \in 1 .. n + 1 PROVE m[i] = p \/ \E j \in 1 .. n : m[i] = l[j]
    <3>1. CASE i <= k
      BY <1>1, <1>7, <3>1
    <3>2. CASE i = k + 1
      BY <1>7, <3>2
    <3>3. CASE i > k + 1
      <4>1. i - 1 \in k + 1 .. n /\ (i - 1) + 1 = i /\ i - 1 \in 1 .. n
        BY <1>1, <3>3
      <4> QED BY <1>7, <4>1
    <3> QED BY <1>1, <3>1, <3>2, <3>3
  <2>2. ASSUME NEW j \in 1 .. n PROVE \E i \in 1 .. n + 1 : m[i] = l[j]
    <3>1. CASE j <= k
      BY <1>1, <1>7, <3>1
    <3>2. CASE j > k
      <4>1. j \in k + 1 .. n /\ j + 1 \in 1 .. n + 1
        BY <1>1, <3>2
      <4> QED BY <1>7, <4>1
    <3> QED BY <1>1, <3>1, <3>2
  <2> QED BY <1>1, <2>1, <2>2
<1>10. Blocks(m) = Blocks(l) \cup {p.block}
  <2>1. Len(m) = n + 1 /\ m[k + 1] = p
    BY <1>6, <1>7
  <2>2. /\ \A i \in 1 .. n + 1 : m[i].block = p.block \/ \E j \in 1 .. n : m[i].block = l[j].block
        /\ \A j \in 1 .. n : \E i \in 1 .. n + 1 : m[i].block = l[j].block
        /\ \E i \in 1 .. n + 1 : m[i].block = p.block
    <3>1. ASSUME NEW i \in 1 .. n + 1 PROVE m[i].block = p.block \/ \E j \in 1 .. n : m[i].block = l[j].block
      BY <1>9
    <3>2. ASSUME NEW j \in 1 .. n PROVE \E i \in 1 .. n + 1 : m[i].block = l[j].block
      BY <1>9
    <3> QED BY <1>9, <2>1, <3>1, <3>2
  <2>3. ASSUME NEW e PROVE e \in Blocks(m) <=> e \in Blocks(l) \/ e = p.block
    <3>1. e \in Blocks(m) <=> \E i \in 1 .. n + 1 : e = m[i].block
      BY <2>1 DEF Blocks
    <3>2. e \in Blocks(l) <=> \E j \in 1 .. n : e = l[j].block
      BY DEF Blocks
    <3> QED BY <2>2, <3>1, <3>2
  <2> QED BY <2>3
<1>11. \A u, c : Has(m, u, c) <=> Has(l, u, c) \/ Holds(p, u, c)
  BY <1>6, <1>7, <1>9 DEF Has
<1> QED BY <1>6, <1>8, <1>10, <1>11 DEF m

\* Two pieces that do not overlap start in the order they end in.
LEMMA BesideIs ==
  ASSUME NEW a, NEW b, IsPart(a), IsPart(b), Beside(a, b)
  PROVE  /\ a.block <= b.block => a.block < b.block /\ EndOf(a) <= b.block
         /\ a.block >= b.block => a.block > b.block /\ EndOf(b) <= a.block
<1>1. a.block \in Nat /\ EndOf(a) \in Nat /\ a.block <= EndOf(a)
  BY PartEnds
<1>2. b.block \in Nat /\ EndOf(b) \in Nat /\ b.block <= EndOf(b)
  BY PartEnds
<1> QED BY <1>1, <1>2 DEF Beside

\* The search: it starts in front of the place of p and stops there.
LEMMA SearchIs ==
  ASSUME NEW P, \A q \in P : IsPart(q), NEW l \in Seq(P), Ordered(l), NEW p \in P,
         \A k \in 1 .. Len(l) : Beside(l[k], p),
         l # <<>>, l[1].block <= p.block, NEW last \in Blocks(l) \cup {Unset, Freed}
  PROVE  LET k == InsertAfter(l, Start(l, last, p), p)
         IN  k \in 1 .. Len(l) /\ Gap(l, k, p)
<1> DEFINE n == Len(l)
           s == Start(l, last, p)
           k == InsertAfter(l, s, p)
<1>1. n \in Nat \ {0} /\ DOMAIN l = 1 .. n /\ \A j \in 1 .. n : l[j] \in P
  <2>1. l \in Seq(P) /\ l # <<>>
    OBVIOUS
  <2> QED BY <2>1, EmptySeq
<1>2. p.block \in Nat
  BY PartEnds
<1>3. /\ \A j \in 1 .. n : l[j].block \in Nat /\ EndOf(l[j]) \in Nat /\ l[j].block <= EndOf(l[j])
      /\ \A j \in 1 .. n : l[j].block <= p.block => l[j].block < p.block /\ EndOf(l[j]) <= p.block
      /\ \A j \in 1 .. n : l[j].block >= p.block => EndOf(p) <= l[j].block
  <2>1. ASSUME NEW j \in 1 .. n
        PROVE  /\ l[j].block \in Nat /\ EndOf(l[j]) \in Nat /\ l[j].block <= EndOf(l[j])
               /\ l[j].block <= p.block => l[j].block < p.block /\ EndOf(l[j]) <= p.block
               /\ l[j].block >= p.block => EndOf(p) <= l[j].block
    <3>1. IsPart(l[j]) /\ IsPart(p) /\ Beside(l[j], p)
      BY <1>1
    <3> QED BY <3>1, PartEnds, BesideIs
  <2> QED BY <2>1
<1>4. \A i, j \in 1 .. n : i <= j => l[i].block <= l[j].block
  <2>2. ASSUME NEW i \in 1 .. n, NEW j \in 1 .. n, i < j PROVE l[i].block <= l[j].block
    <3>1. EndOf(l[i]) <= l[j].block
      BY <2>2 DEF Ordered
    <3> QED BY <1>3, <3>1
  <2> QED BY <1>3, <2>2
<1>5. s \in 1 .. n /\ l[s].block < p.block
  <2>1. CASE last \notin {Unset, Freed} /\ p.block > last
    <3>1. \E i \in DOMAIN l : l[i].block = last
      BY <1>1, <2>1 DEF Blocks
    <3>2. s = CHOOSE i \in DOMAIN l : l[i].block = last
      BY <2>1 DEF Start
    <3>3. s \in DOMAIN l /\ l[s].block = last
      <4> HIDE DEF s
      <4> QED BY <3>1, <3>2
    <3> QED BY <1>1, <1>2, <1>3, <2>1, <3>3
  <2>2. CASE ~(last \notin {Unset, Freed} /\ p.block > last)
    <3>1. s = 1
      BY <2>2 DEF Start
    <3>2. 1 \in 1 .. n
      BY <1>1
    <3> QED BY <1>3, <3>1, <3>2
  <2> QED BY <2>1, <2>2
<1> HIDE DEF s
<1> DEFINE Stop(i) == /\ \A j \in s + 1 .. i : l[j].block < p.block
                      /\ i = Len(l) \/ l[i + 1].block >= p.block
<1>6. \E i \in s .. n : Stop(i)
  <2> DEFINE S == {i \in s .. n : i = n \/ l[i + 1].block >= p.block}
  <2>1. S \in SUBSET Nat /\ S # {}
    BY <1>1, <1>5
  <2>2. PICK i \in S : \A j \in S : i <= j
    <3> HIDE DEF S
    <3> QED BY <2>1, LeastNat
  <2>3. ASSUME NEW j \in s + 1 .. i PROVE l[j].block < p.block
    <3>1. j - 1 \in s .. n /\ j - 1 # n /\ j - 1 < i /\ (j - 1) + 1 = j /\ j \in 1 .. n
      <4>1. i \in s .. n /\ s \in 1 .. n /\ n \in Nat /\ j \in s + 1 .. i
        BY <1>1, <1>5
      <4> QED BY <4>1
    <3>2. j - 1 \notin S
      BY <2>1, <2>2, <3>1
    <3> QED BY <1>2, <1>3, <3>1, <3>2
  <2> QED BY <2>2, <2>3
<1>7. k \in s .. n /\ Stop(k)
  <2>1. k = CHOOSE i \in s .. n : Stop(i)
    BY DEF InsertAfter
  <2> HIDE DEF k, Stop
  <2> QED BY <1>6, <2>1
<1> HIDE DEF k
<1>8. k \in 1 .. n
  <2>1. k \in s .. n /\ s \in 1 .. n /\ n \in Nat
    BY <1>1, <1>5, <1>7
  <2> QED BY <2>1
<1>9. ASSUME NEW j \in 1 .. n
      PROVE  IF j <= k THEN EndOf(l[j]) <= p.block ELSE EndOf(p) <= l[j].block
  <2>1. CASE j <= s
    <3>1. l[j].block <= l[s].block
      BY <1>4, <1>5, <2>1
    <3>2. l[j].block <= p.block
      BY <1>2, <1>3, <1>5, <3>1
    <3>3. j <= k
      BY <1>5, <1>8, <1>7, <2>1
    <3> QED BY <1>3, <3>2, <3>3
  <2>2. CASE s < j /\ j <= k
    <3>1. j \in s + 1 .. k
      BY <1>5, <1>8, <2>2
    <3>2. l[j].block <= p.block
      BY <1>2, <1>3, <1>7, <3>1
    <3> QED BY <1>3, <2>2, <3>2
  <2>3. CASE j > k
    <3>1. k # n /\ k + 1 \in 1 .. n /\ k + 1 <= j
      BY <1>8, <2>3
    <3>2. l[k + 1].block >= p.block /\ l[k + 1].block <= l[j].block
      BY <1>4, <1>7, <3>1
    <3>3. l[j].block >= p.block
      BY <1>2, <1>3, <3>1, <3>2
    <3>4. ~(j <= k)
      BY <1>8, <2>3
    <3> QED BY <1>3, <3>3, <3>4
  <2> QED BY <1>5, <1>8, <2>1, <2>2, <2>3
<1>10. Gap(l, k, p)
  BY <1>9 DEF Gap
<1> QED BY <1>8, <1>10 DEF k, s

\* queue_bb: a piece that overlaps none of the list, and starts where none
\* does, is put in its place.  Nothing is lost, moved or doubled, and last_used
\* is a piece of the list or known not to be.
LEMMA QueuedKeeps ==
  ASSUME NEW P, MergeClosed(P), NEW l \in Seq(P), Ordered(l), NEW p \in P,
         \A k \in 1 .. Len(l) : Beside(l[k], p),
         NEW last \in Blocks(l) \cup {Unset, Freed}
  PROVE  LET q == Queued(l, last, p)
         IN  /\ q.list \in Seq(P) /\ Ordered(q.list)
             /\ q.last \in Blocks(q.list) \cup {Unset, Freed}
             /\ Blocks(q.list) \subseteq Blocks(l) \cup {p.block}
             /\ \A u, c : Has(q.list, u, c) <=> Has(l, u, c) \/ Holds(p, u, c)
<1> DEFINE q == Queued(l, last, p)
           n == Len(l)
<1>1. \A r \in P : IsPart(r)
  BY DEF MergeClosed
<1>2. /\ Blocks(l) \in SUBSET Nat /\ p.block \in Nat
      /\ \A k \in 1 .. n : IsPart(l[k]) /\ l[k].block \in Nat
  <2>1. \A k \in 1 .. n : IsPart(l[k])
    BY <1>1
  <2>2. \A k \in 1 .. n : l[k].block \in Nat
    BY <2>1, PartEnds
  <2> QED BY <1>1, <2>1, <2>2, PartEnds DEF Blocks
<1>3. CASE l = <<>>
  <2>1. PICK w : w = <<p>>
    OBVIOUS
  <2>2. q.list = w /\ q.last = last
    BY <1>3, <2>1 DEF Queued
  <2>3. w \in Seq(P) /\ Len(w) = 1 /\ w[1] = p
    BY <2>1
  <2>4. Len(l) = 0
    BY <1>3
  <2>5. Blocks(l) = {} /\ \A u, c : ~Has(l, u, c)
    BY <2>4 DEF Blocks, Has
  <2>6. Ordered(w)
    BY <2>3 DEF Ordered
  <2>7. ASSUME NEW u, NEW c PROVE Has(w, u, c) <=> Holds(p, u, c)
    <3>1. \A k : k \in 1 .. 1 <=> k = 1
      OBVIOUS
    <3> QED BY <2>3, <3>1 DEF Has
  <2>8. Blocks(w) \subseteq {p.block}
    <3>1. \A k \in 1 .. Len(w) : w[k] = p
      BY <2>3
    <3> QED BY <3>1 DEF Blocks
  <2> QED BY <2>2, <2>3, <2>5, <2>6, <2>7, <2>8
<1>4. CASE l # <<>> /\ l[1].block > p.block
  <2>1. n \in Nat \ {0} /\ 0 \in 0 .. n
    BY <1>4, EmptySeq
  <2>2. ASSUME NEW j \in 1 .. n PROVE EndOf(p) <= l[j].block
    <3>1. IsPart(l[1]) /\ IsPart(l[j]) /\ IsPart(p) /\ Beside(l[j], p)
      BY <1>1, <2>1
    <3>2. l[1].block \in Nat /\ EndOf(l[1]) \in Nat /\ l[1].block <= EndOf(l[1]) /\ 1 \in 1 .. n
      BY <2>1, <3>1, PartEnds
    <3>3. 1 < j => EndOf(l[1]) <= l[j].block
      BY <3>2 DEF Ordered
    <3>4. p.block \in Nat /\ l[j].block \in Nat
      BY <3>1, PartEnds
    <3>5. l[j].block >= p.block
      <4>1. CASE j = 1
        BY <1>4, <3>2, <3>4, <4>1
      <4>2. CASE j > 1
        BY <1>4, <3>2, <3>3, <3>4, <4>2
      <4> QED BY <4>1, <4>2
    <3> QED BY <3>1, <3>5, BesideIs
  <2>3. Gap(l, 0, p)
    BY <2>1, <2>2 DEF Gap
  <2>4. PICK m : m = Insert(l, 0, p)
    OBVIOUS
  <2>5. /\ m \in Seq(P) /\ Ordered(m) /\ Blocks(m) = Blocks(l) \cup {p.block}
        /\ \A u, c : Has(m, u, c) <=> Has(l, u, c) \/ Holds(p, u, c)
    BY <2>1, <2>3, <2>4, InsertIs
  <2>6. m = <<p>> \o l
    <3>1. SubSeq(l, 1, 0) = <<>>
      BY SubSeqEmpty
    <3>2. SubSeq(l, 0 + 1, Len(l)) = l
      OBVIOUS
    <3>3. <<>> \o <<p>> = <<p>>
      OBVIOUS
    <3> QED BY <2>4, <3>1, <3>2, <3>3 DEF Insert
  <2>7. q.list = m /\ q.last = last
    BY <1>4, <2>6 DEF Queued
  <2> HIDE DEF q
  <2>8. last \in Blocks(m) \cup {Unset, Freed}
    BY <2>5
  <2>9. /\ q.list \in Seq(P) /\ Ordered(q.list)
        /\ q.last \in Blocks(q.list) \cup {Unset, Freed}
        /\ Blocks(q.list) \subseteq Blocks(l) \cup {p.block}
        /\ \A u, c : Has(q.list, u, c) <=> Has(l, u, c) \/ Holds(p, u, c)
    BY <2>5, <2>7, <2>8
  <2> QED BY <2>9 DEF q
<1>5. CASE l # <<>> /\ ~(l[1].block > p.block)
  <2>1. 1 \in 1 .. n
    <3>1. n \in Nat \ {0}
      BY <1>5, EmptySeq
    <3> QED BY <3>1
  <2>2. l[1].block <= p.block
    BY <1>2, <1>5, <2>1
  <2>3. PICK k : k = InsertAfter(l, Start(l, last, p), p)
    OBVIOUS
  <2>4. k \in 1 .. n /\ Gap(l, k, p)
    BY <1>1, <1>5, <2>2, <2>3, SearchIs
  <2>5. PICK w : w = Insert(l, k, p)
    OBVIOUS
  <2>6. /\ w \in Seq(P) /\ Ordered(w) /\ Blocks(w) = Blocks(l) \cup {p.block}
        /\ \A u, c : Has(w, u, c) <=> Has(l, u, c) \/ Holds(p, u, c)
    <3>1. k \in 0 .. Len(l)
      BY <2>4
    <3> QED BY <2>4, <2>5, <3>1, InsertIs
  <2>7. PICK x : x = MergeAt(w, k + 1)
    OBVIOUS
  <2>8. /\ x \in Seq(P) /\ Ordered(x) /\ Blocks(x) \subseteq Blocks(w) /\ \A u, c : Has(x, u, c) <=> Has(w, u, c)
    <3>1. k + 1 \in Int
      BY <2>4
    <3> QED BY <2>6, <2>7, <3>1, MergeAtIs
  <2>9. PICK y : y = MergeAt(x, k)
    OBVIOUS
  <2>10. /\ y \in Seq(P) /\ Ordered(y) /\ Blocks(y) \subseteq Blocks(x) /\ \A u, c : Has(y, u, c) <=> Has(x, u, c)
    <3>1. k \in Int /\ x \in Seq(P) /\ Ordered(x)
      BY <2>4, <2>8
    <3> QED BY <2>9, <3>1, MergeAtIs
  <2>11. q = [list |-> y, last |-> IF \A j \in DOMAIN y : y[j].block # p.block THEN Freed ELSE p.block]
    BY <1>5, <2>3, <2>5, <2>7, <2>9 DEF Queued, Insert
  <2>12. q.last \in Blocks(y) \cup {Unset, Freed}
    <3>1. DOMAIN y = 1 .. Len(y)
      BY <2>10
    <3> QED BY <2>11, <3>1 DEF Blocks
  <2>13. q.list = y
    BY <2>11
  <2> HIDE DEF q
  <2>14. ASSUME NEW u, NEW c PROVE Has(q.list, u, c) <=> Has(l, u, c) \/ Holds(p, u, c)
    BY <2>6, <2>8, <2>10, <2>13
  <2>15. /\ q.list \in Seq(P) /\ Ordered(q.list)
         /\ q.last \in Blocks(q.list) \cup {Unset, Freed}
         /\ Blocks(q.list) \subseteq Blocks(l) \cup {p.block}
         /\ \A u, c : Has(q.list, u, c) <=> Has(l, u, c) \/ Holds(p, u, c)
    BY <2>6, <2>8, <2>10, <2>12, <2>13, <2>14
  <2> QED BY <2>15 DEF q
<1> QED BY <1>3, <1>4, <1>5
-----------------------------------------------------------------------------
(* Splitting and moving.                                                   *)

\* No unit is in two pieces of a list, or in two lists.
Overlap(p, q) == \E u, c, d : Holds(p, u, c) /\ Holds(q, u, d)
Single(l) == \A i, j \in 1 .. Len(l) : Overlap(l[i], l[j]) => i = j
Clear(l, r) == \A u, c, d : ~(Has(l, u, c) /\ Has(r, u, d))

\* Some pieces of a list, those of another, and the last pieces of the list.
Lay(l, a, run, b) == SubSeq(l, 1, a) \o run \o SubSeq(l, b, Len(l))
IsLaid(m, P, l, a, run, b) ==
  /\ m \in Seq(P)
  /\ \A n \in Nat : n + b = a + Len(run) + Len(l) + 1 => Len(m) = n
  /\ \A i \in 1 .. a : m[i] = l[i]
  /\ \A i \in 1 .. Len(run) : m[a + i] = run[i]
  /\ \A i \in b .. Len(l), j \in Nat : j + b = i + a + Len(run) + 1 => m[j] = l[i]

LEMMA LayIsLaid ==
  ASSUME NEW P, NEW l \in Seq(P), NEW run \in Seq(P), NEW a \in 0 .. Len(l), NEW b \in a + 1 .. Len(l) + 1
  PROVE  IsLaid(Lay(l, a, run, b), P, l, a, run, b)
<1>1. PICK n \in Nat : n = Len(l)
  OBVIOUS
<1>2. PICK x : x = SubSeq(l, 1, a)
  OBVIOUS
<1>3. PICK z : z = SubSeq(l, b, n)
  OBVIOUS
<1>4. \A i \in 1 .. n : l[i] \in P
  BY <1>1
<1>5. x \in Seq(P) /\ Len(x) = a /\ \A i \in 1 .. a : x[i] = l[i]
  <2>1. a \in Int /\ a \in 0 .. n /\ \A i \in 1 .. a : l[i] \in P
    BY <1>1, <1>4
  <2>2. /\ x \in Seq(P) /\ Len(x) = IF 1 <= a THEN a - 1 + 1 ELSE 0
        /\ \A i \in 1 .. a - 1 + 1 : x[i] = l[1 + i - 1]
    BY <1>2, <2>1, SubSeqProperties
  <2> QED BY <2>1, <2>2
<1>6. z \in Seq(P) /\ Len(z) = n + 1 - b /\ \A i \in b .. n : z[i - b + 1] = l[i]
  <2>1. b \in Int /\ n \in Int /\ b \in 1 .. n + 1 /\ \A i \in b .. n : l[i] \in P
    BY <1>1, <1>4
  <2>2. /\ z \in Seq(P) /\ Len(z) = IF b <= n THEN n - b + 1 ELSE 0
        /\ \A i \in 1 .. n - b + 1 : z[i] = l[b + i - 1]
    BY <1>3, <2>1, SubSeqProperties
  <2>3. ASSUME NEW i \in b .. n PROVE z[i - b + 1] = l[i]
    <3>1. i - b + 1 \in 1 .. n - b + 1 /\ b + (i - b + 1) - 1 = i
      BY <2>1
    <3> QED BY <2>2, <3>1
  <2> QED BY <2>1, <2>2, <2>3
<1>7. PICK y : y = x \o run
  OBVIOUS
<1>8. PICK r \in Nat : r = Len(run)
  OBVIOUS
<1>9. /\ y \in Seq(P) /\ Len(y) = a + r /\ \A i \in 1 .. a : y[i] = l[i]
      /\ \A i \in 1 .. r : y[a + i] = run[i]
  <2>1. /\ y \in Seq(P) /\ Len(y) = Len(x) + Len(run)
        /\ \A i \in 1 .. Len(x) + Len(run) : y[i] = IF i <= Len(x) THEN x[i] ELSE run[i - Len(x)]
    BY <1>5, <1>7, ConcatProperties
  <2>2. Len(y) = a + r /\ \A i \in 1 .. a + r : y[i] = IF i <= a THEN x[i] ELSE run[i - a]
    BY <1>5, <1>8, <2>1
  <2>3. ASSUME NEW i \in 1 .. r PROVE y[a + i] = run[i]
    <3>1. a + i \in 1 .. a + r /\ ~(a + i <= a) /\ (a + i) - a = i
      BY <1>8
    <3> QED BY <2>2, <3>1
  <2>4. ASSUME NEW i \in 1 .. a PROVE y[i] = l[i]
    <3>1. i \in 1 .. a + r /\ i <= a
      BY <1>8
    <3> QED BY <1>5, <2>2, <3>1
  <2> QED BY <2>1, <2>2, <2>3, <2>4
<1> DEFINE m == Lay(l, a, run, b)
<1>10. m = y \o z
  BY <1>1, <1>2, <1>3, <1>7 DEF Lay
<1> HIDE DEF m
<1>11. /\ m \in Seq(P) /\ Len(m) = Len(y) + Len(z)
       /\ \A i \in 1 .. Len(y) + Len(z) : m[i] = IF i <= Len(y) THEN y[i] ELSE z[i - Len(y)]
  BY <1>6, <1>9, <1>10, ConcatProperties
<1>12. b \in a + 1 .. n + 1 /\ a \in 0 .. n
  BY <1>1
<1>13. PICK e \in Nat : e = n + 1 - b
  BY <1>12
<1>14. Len(m) = a + r + e /\ \A i \in 1 .. a + r + e : m[i] = IF i <= a + r THEN y[i] ELSE z[i - (a + r)]
  BY <1>6, <1>9, <1>11, <1>13
<1>15. ASSUME NEW i \in 1 .. a PROVE m[i] = l[i]
  <2>1. i \in 1 .. a + r + e /\ i <= a + r
    BY <1>8, <1>13
  <2> QED BY <1>9, <1>14, <2>1
<1>16. ASSUME NEW i \in 1 .. r PROVE m[a + i] = run[i]
  <2>1. a + i \in 1 .. a + r + e /\ a + i <= a + r
    BY <1>8, <1>13
  <2> QED BY <1>9, <1>14, <2>1
<1>17. ASSUME NEW i \in b .. n, NEW j \in Nat, j + b = i + a + r + 1 PROVE m[j] = l[i]
  <2>1. j \in 1 .. a + r + e /\ ~(j <= a + r) /\ j - (a + r) = i - b + 1
    BY <1>8, <1>12, <1>13, <1>17
  <2> QED BY <1>6, <1>14, <2>1
<1>18. ASSUME NEW k \in Nat, k + b = a + Len(run) + Len(l) + 1 PROVE Len(m) = k
  BY <1>1, <1>8, <1>12, <1>13, <1>14, <1>18
<1> QED BY <1>1, <1>8, <1>11, <1>15, <1>16, <1>17, <1>18 DEF m, IsLaid

\* Every position of m stands for one of the two lists.
StandsFor(m, l, a, run, b) ==
  /\ \A j \in 1 .. Len(m) :
       \/ j <= a /\ m[j] = l[j]
       \/ \E i \in 1 .. Len(run) : j = a + i /\ m[j] = run[i]
       \/ \E i \in b .. Len(l) : j + b = i + a + Len(run) + 1 /\ m[j] = l[i]
  /\ \A i \in 1 .. Len(l) : i <= a \/ i >= b => \E j \in 1 .. Len(m) : m[j] = l[i]
  /\ \A i \in 1 .. Len(run) : \E j \in 1 .. Len(m) : m[j] = run[i]

LEMMA LaidFrom ==
  ASSUME NEW P, NEW l \in Seq(P), NEW run \in Seq(P), NEW a \in 0 .. Len(l), NEW b \in a + 1 .. Len(l) + 1
  PROVE  StandsFor(Lay(l, a, run, b), l, a, run, b)
<1> DEFINE m == Lay(l, a, run, b)
<1>7. IsLaid(m, P, l, a, run, b)
  BY LayIsLaid
<1> HIDE DEF m
<1>1. PICK n \in Nat, r \in Nat : n = Len(l) /\ r = Len(run)
  OBVIOUS
<1>2. PICK e \in Nat : e + b = a + r + n + 1
  <2>1. (a + r + n + 1) - b \in Nat /\ ((a + r + n + 1) - b) + b = a + r + n + 1
    BY <1>1
  <2> QED BY <2>1
<1>3. /\ m \in Seq(P) /\ Len(m) = e
      /\ \A i \in 1 .. a : m[i] = l[i]
      /\ \A i \in 1 .. r : m[a + i] = run[i]
      /\ \A i \in b .. n, j \in Nat : j + b = i + a + r + 1 => m[j] = l[i]
  BY <1>1, <1>2, <1>7 DEF IsLaid
<1>4. ASSUME NEW j \in 1 .. e
      PROVE  \/ j <= a /\ m[j] = l[j]
             \/ \E i \in 1 .. r : j = a + i /\ m[j] = run[i]
             \/ \E i \in b .. n : j + b = i + a + r + 1 /\ m[j] = l[i]
  <2>1. CASE j <= a
    <3>1. j \in 1 .. a
      BY <2>1
    <3> QED BY <1>3, <2>1, <3>1
  <2>2. CASE a < j /\ j <= a + r
    <3>1. j - a \in 1 .. r /\ j = a + (j - a)
      BY <1>1, <2>2
    <3> QED BY <1>3, <3>1
  <2>3. CASE a + r < j
    <3>1. PICK i \in b .. n : j + b = i + a + r + 1
      <4>1. (j + b) - (a + r + 1) \in b .. n /\ j + b = ((j + b) - (a + r + 1)) + a + r + 1
        BY <1>1, <1>2, <2>3
      <4> QED BY <4>1
    <3>2. j \in Nat /\ i \in b .. n /\ j + b = i + a + r + 1
      BY <3>1
    <3>3. m[j] = l[i]
      BY <1>3, <3>2
    <3> QED BY <3>2, <3>3
  <2> QED BY <1>1, <2>1, <2>2, <2>3
<1>5. ASSUME NEW i \in 1 .. n, i <= a \/ i >= b PROVE \E j \in 1 .. e : m[j] = l[i]
  <2>1. CASE i <= a
    <3>1. i \in 1 .. a /\ i \in 1 .. e
      BY <1>1, <1>2, <2>1
    <3> QED BY <1>3, <3>1
  <2>2. CASE i >= b
    <3>1. PICK j \in Nat : j + b = i + a + r + 1 /\ j \in 1 .. e
      <4>1. (i + a + r + 1) - b \in 1 .. e /\ ((i + a + r + 1) - b) + b = i + a + r + 1
        BY <1>1, <1>2, <2>2
      <4> QED BY <4>1
    <3> QED BY <1>1, <1>3, <2>2, <3>1
  <2> QED BY <1>5, <2>1, <2>2
<1>6. ASSUME NEW i \in 1 .. r PROVE \E j \in 1 .. e : m[j] = run[i]
  <2>1. a + i \in 1 .. e
    BY <1>1, <1>2
  <2> QED BY <1>3, <2>1
<1>8. StandsFor(m, l, a, run, b)
  BY <1>1, <1>3, <1>4, <1>5, <1>6 DEF StandsFor
<1> QED BY <1>8 DEF m

\* What the result holds, and when no unit is in it twice or it is ordered.
LEMMA LaidKeeps ==
  ASSUME NEW P, NEW l \in Seq(P), NEW run \in Seq(P), NEW a \in 0 .. Len(l), NEW b \in a + 1 .. Len(l) + 1
  PROVE  LET m == Lay(l, a, run, b)
             Kept == {i \in 1 .. Len(l) : i <= a \/ i >= b}
         IN  /\ \A u, c : Has(m, u, c) <=> Has(run, u, c) \/ \E i \in Kept : Holds(l[i], u, c)
             /\ /\ Single(l) /\ Single(run)
                /\ \A i \in Kept, j \in 1 .. Len(run) : ~Overlap(l[i], run[j])
                => Single(m)
             /\ /\ Ordered(l) /\ Ordered(run)
                /\ \A i \in 1 .. a, j \in 1 .. Len(run) : EndOf(l[i]) <= run[j].block
                /\ \A i \in b .. Len(l), j \in 1 .. Len(run) : EndOf(run[j]) <= l[i].block
                => Ordered(m)
<1> DEFINE m == Lay(l, a, run, b)
           Kept == {i \in 1 .. Len(l) : i <= a \/ i >= b}
<1>7. IsLaid(m, P, l, a, run, b)
  BY LayIsLaid
<1>8. StandsFor(m, l, a, run, b)
  BY LaidFrom
<1>9. \A i : i \in Kept <=> i \in 1 .. Len(l) /\ (i <= a \/ i >= b)
  OBVIOUS
<1> HIDE DEF m, Kept
<1>1. PICK n \in Nat, r \in Nat, e \in Nat : n = Len(l) /\ r = Len(run) /\ e = Len(m)
  BY <1>7 DEF IsLaid
<1>2. /\ \A j \in 1 .. e :
           \/ j <= a /\ m[j] = l[j]
           \/ \E i \in 1 .. r : j = a + i /\ m[j] = run[i]
           \/ \E i \in b .. n : j + b = i + a + r + 1 /\ m[j] = l[i]
      /\ \A i \in 1 .. n : i <= a \/ i >= b => \E j \in 1 .. e : m[j] = l[i]
      /\ \A i \in 1 .. r : \E j \in 1 .. e : m[j] = run[i]
  BY <1>1, <1>8 DEF StandsFor
<1>3. /\ a \in 0 .. n /\ b \in a + 1 .. n + 1
      /\ \A i \in 1 .. a : i \in 1 .. n /\ i \in Kept
      /\ \A i \in b .. n : i \in 1 .. n /\ i \in Kept
  <2>1. a \in 0 .. n /\ b \in a + 1 .. n + 1
    BY <1>1
  <2>2. \A i \in 1 .. a : i \in 1 .. n /\ i <= a
    BY <1>1, <2>1
  <2>3. \A i \in b .. n : i \in 1 .. n /\ i >= b
    BY <1>1, <2>1
  <2> QED BY <1>1, <1>9, <2>1, <2>2, <2>3
<1>4. ASSUME NEW u, NEW c PROVE Has(m, u, c) <=> Has(run, u, c) \/ \E i \in Kept : Holds(l[i], u, c)
  <2>1. ASSUME NEW j \in 1 .. e, Holds(m[j], u, c)
        PROVE  (\E i \in 1 .. r : Holds(run[i], u, c)) \/ \E i \in Kept : Holds(l[i], u, c)
    <3>1. CASE j <= a /\ m[j] = l[j]
      <4>1. j \in 1 .. a
        BY <3>1
      <4> QED BY <1>3, <2>1, <3>1, <4>1
    <3>2. CASE \E i \in 1 .. r : j = a + i /\ m[j] = run[i]
      BY <2>1, <3>2
    <3>3. CASE \E i \in b .. n : j + b = i + a + r + 1 /\ m[j] = l[i]
      BY <1>3, <2>1, <3>3
    <3> QED BY <1>2, <3>1, <3>2, <3>3
  <2>2. ASSUME NEW i \in Kept, Holds(l[i], u, c) PROVE \E j \in 1 .. e : Holds(m[j], u, c)
    BY <1>1, <1>2, <1>9, <2>2
  <2>3. ASSUME NEW i \in 1 .. r, Holds(run[i], u, c) PROVE \E j \in 1 .. e : Holds(m[j], u, c)
    BY <1>2, <2>3
  <2> QED BY <1>1, <2>1, <2>2, <2>3 DEF Has
<1>5. ASSUME Single(l), Single(run), \A i \in Kept, j \in 1 .. Len(run) : ~Overlap(l[i], run[j])
      PROVE  Single(m)
  <2>1. SUFFICES ASSUME NEW j \in 1 .. e, NEW k \in 1 .. e, j < k PROVE ~Overlap(m[j], m[k])
    <3>1. \A p, q : Overlap(p, q) => Overlap(q, p)
      BY DEF Overlap
    <3>2. \A x, y \in 1 .. e : x = y \/ x < y \/ y < x
      OBVIOUS
    <3> QED BY <1>1, <2>1, <3>1, <3>2 DEF Single
  <2>2. \A p, q : Overlap(p, q) => Overlap(q, p)
    BY DEF Overlap
  <2>3. /\ \A x, y \in 1 .. n : Overlap(l[x], l[y]) => x = y
        /\ \A x, y \in 1 .. r : Overlap(run[x], run[y]) => x = y
        /\ \A i \in Kept, x \in 1 .. r : ~Overlap(l[i], run[x])
    BY <1>1, <1>5 DEF Single
  <2>4. CASE j <= a /\ m[j] = l[j]
    <3>1. j \in 1 .. a
      BY <2>4
    <3>2. CASE k <= a /\ m[k] = l[k]
      BY <1>3, <2>1, <2>3, <2>4, <3>1, <3>2
    <3>3. CASE \E i \in 1 .. r : k = a + i /\ m[k] = run[i]
      BY <1>3, <2>3, <2>4, <3>1, <3>3
    <3>4. CASE \E i \in b .. n : k + b = i + a + r + 1 /\ m[k] = l[i]
      BY <1>3, <2>1, <2>3, <2>4, <3>1, <3>4
    <3> QED BY <1>2, <3>2, <3>3, <3>4
  <2>5. CASE \E i \in 1 .. r : j = a + i /\ m[j] = run[i]
    <3>1. PICK i \in 1 .. r : j = a + i /\ m[j] = run[i]
      BY <2>5
    <3>2. CASE k <= a /\ m[k] = l[k]
      BY <1>3, <2>1, <3>1, <3>2
    <3>3. CASE \E x \in 1 .. r : k = a + x /\ m[k] = run[x]
      BY <1>3, <2>1, <2>3, <3>1, <3>3
    <3>4. CASE \E x \in b .. n : k + b = x + a + r + 1 /\ m[k] = l[x]
      BY <1>3, <2>2, <2>3, <3>1, <3>4
    <3> QED BY <1>2, <3>2, <3>3, <3>4
  <2>6. CASE \E i \in b .. n : j + b = i + a + r + 1 /\ m[j] = l[i]
    <3>1. PICK i \in b .. n : j + b = i + a + r + 1 /\ m[j] = l[i]
      BY <2>6
    <3>2. CASE k <= a /\ m[k] = l[k]
      BY <1>3, <2>1, <3>1, <3>2
    <3>3. CASE \E x \in 1 .. r : k = a + x /\ m[k] = run[x]
      BY <1>3, <2>1, <3>1, <3>3
    <3>4. CASE \E x \in b .. n : k + b = x + a + r + 1 /\ m[k] = l[x]
      <4>1. PICK x \in b .. n : k + b = x + a + r + 1 /\ m[k] = l[x]
        BY <3>4
      <4>2. i # x
        BY <1>1, <2>1, <3>1, <4>1
      <4> QED BY <1>3, <2>3, <3>1, <4>1, <4>2
    <3> QED BY <1>2, <3>2, <3>3, <3>4
  <2> QED BY <1>2, <2>4, <2>5, <2>6
<1>6. ASSUME Ordered(l), Ordered(run),
             \A i \in 1 .. a, j \in 1 .. Len(run) : EndOf(l[i]) <= run[j].block,
             \A i \in b .. Len(l), j \in 1 .. Len(run) : EndOf(run[j]) <= l[i].block
      PROVE  Ordered(m)
  <2>1. SUFFICES ASSUME NEW j \in 1 .. e, NEW k \in 1 .. e, j < k PROVE EndOf(m[j]) <= m[k].block
    BY <1>1 DEF Ordered
  <2>3. /\ \A x, y \in 1 .. n : x < y => EndOf(l[x]) <= l[y].block
        /\ \A x, y \in 1 .. r : x < y => EndOf(run[x]) <= run[y].block
        /\ \A i \in 1 .. a, x \in 1 .. r : EndOf(l[i]) <= run[x].block
        /\ \A i \in b .. n, x \in 1 .. r : EndOf(run[x]) <= l[i].block
    BY <1>1, <1>6 DEF Ordered
  <2>4. CASE j <= a /\ m[j] = l[j]
    <3>1. j \in 1 .. a
      BY <2>4
    <3>2. CASE k <= a /\ m[k] = l[k]
      BY <1>3, <2>1, <2>3, <2>4, <3>1, <3>2
    <3>3. CASE \E i \in 1 .. r : k = a + i /\ m[k] = run[i]
      BY <1>3, <2>3, <2>4, <3>1, <3>3
    <3>4. CASE \E i \in b .. n : k + b = i + a + r + 1 /\ m[k] = l[i]
      BY <1>3, <2>1, <2>3, <2>4, <3>1, <3>4
    <3> QED BY <1>2, <3>2, <3>3, <3>4
  <2>5. CASE \E i \in 1 .. r : j = a + i /\ m[j] = run[i]
    <3>1. PICK i \in 1 .. r : j = a + i /\ m[j] = run[i]
      BY <2>5
    <3>2. CASE k <= a /\ m[k] = l[k]
      BY <1>3, <2>1, <3>1, <3>2
    <3>3. CASE \E x \in 1 .. r : k = a + x /\ m[k] = run[x]
      BY <1>3, <2>1, <2>3, <3>1, <3>3
    <3>4. CASE \E x \in b .. n : k + b = x + a + r + 1 /\ m[k] = l[x]
      BY <1>3, <2>3, <3>1, <3>4
    <3> QED BY <1>2, <3>2, <3>3, <3>4
  <2>6. CASE \E i \in b .. n : j + b = i + a + r + 1 /\ m[j] = l[i]
    <3>1. PICK i \in b .. n : j + b = i + a + r + 1 /\ m[j] = l[i]
      BY <2>6
    <3>2. CASE k <= a /\ m[k] = l[k]
      BY <1>3, <2>1, <3>1, <3>2
    <3>3. CASE \E x \in 1 .. r : k = a + x /\ m[k] = run[x]
      BY <1>3, <2>1, <3>1, <3>3
    <3>4. CASE \E x \in b .. n : k + b = x + a + r + 1 /\ m[k] = l[x]
      BY <1>3, <2>1, <2>3, <3>1, <3>4
    <3> QED BY <1>2, <3>2, <3>3, <3>4
  <2> QED BY <1>2, <2>4, <2>5, <2>6
<1> QED BY <1>4, <1>5, <1>6 DEF m, Kept

\* All of a list lies in front of another.
Before(l, r) == \A i \in 1 .. Len(l), j \in 1 .. Len(r) : EndOf(l[i]) <= r[j].block

\* A list cut in two.
LEMMA CutIs ==
  ASSUME NEW P, NEW l \in Seq(P), NEW k \in 0 .. Len(l)
  PROVE  LET a == SubSeq(l, 1, k)
             b == SubSeq(l, k + 1, Len(l))
         IN  /\ a \in Seq(P) /\ Len(a) = k /\ \A i \in 1 .. k : a[i] = l[i]
             /\ b \in Seq(P) /\ Len(b) = Len(l) - k /\ \A i \in 1 .. Len(l) - k : b[i] = l[k + i]
             /\ \A u, c : Has(l, u, c) <=> Has(a, u, c) \/ Has(b, u, c)
             /\ Single(l) => Single(a) /\ Single(b) /\ Clear(a, b)
             /\ Ordered(l) => Ordered(a) /\ Ordered(b) /\ Before(a, b)
<1> DEFINE a == SubSeq(l, 1, k)
           b == SubSeq(l, k + 1, Len(l))
<1>1. PICK n \in Nat : n = Len(l)
  OBVIOUS
<1>2. k \in 0 .. n /\ \A i \in 1 .. n : l[i] \in P
  BY <1>1
<1>3. a \in Seq(P) /\ Len(a) = k /\ \A i \in 1 .. k : a[i] = l[i]
  <2>1. k \in Int /\ \A i \in 1 .. k : l[i] \in P
    BY <1>2
  <2>2. /\ a \in Seq(P) /\ Len(a) = IF 1 <= k THEN k - 1 + 1 ELSE 0
        /\ \A i \in 1 .. k - 1 + 1 : a[i] = l[1 + i - 1]
    BY <2>1, SubSeqProperties
  <2> HIDE DEF a
  <2> QED BY <1>2, <2>2
<1>4. b \in Seq(P) /\ Len(b) = n - k /\ \A i \in 1 .. n - k : b[i] = l[k + i]
  <2>1. k + 1 \in Int /\ Len(l) \in Int /\ \A i \in k + 1 .. Len(l) : l[i] \in P
    BY <1>1, <1>2
  <2>2. /\ b \in Seq(P) /\ Len(b) = IF k + 1 <= Len(l) THEN Len(l) - (k + 1) + 1 ELSE 0
        /\ \A i \in 1 .. Len(l) - (k + 1) + 1 : b[i] = l[k + 1 + i - 1]
    BY <2>1, SubSeqProperties
  <2> HIDE DEF b
  <2>3. Len(b) = n - k
    BY <1>1, <1>2, <2>2
  <2>4. ASSUME NEW i \in 1 .. n - k PROVE b[i] = l[k + i]
    <3>1. i \in 1 .. Len(l) - (k + 1) + 1 /\ k + 1 + i - 1 = k + i
      BY <1>1, <1>2
    <3> QED BY <2>2, <3>1
  <2> QED BY <2>2, <2>3, <2>4
<1> HIDE DEF a, b
<1>5. /\ \A i \in 1 .. k : i \in 1 .. n
      /\ \A i \in 1 .. n - k : k + i \in 1 .. n
      /\ \A i \in 1 .. n : i \in 1 .. k \/ \E j \in 1 .. n - k : i = k + j
  <2>1. ASSUME NEW i \in 1 .. n, i \notin 1 .. k PROVE \E j \in 1 .. n - k : i = k + j
    <3>1. i - k \in 1 .. n - k /\ i = k + (i - k)
      BY <1>2, <2>1
    <3> QED BY <3>1
  <2> QED BY <1>2, <2>1
<1>6. ASSUME NEW u, NEW c PROVE Has(l, u, c) <=> Has(a, u, c) \/ Has(b, u, c)
  <2>1. ASSUME NEW i \in 1 .. n, Holds(l[i], u, c)
        PROVE  (\E j \in 1 .. k : Holds(a[j], u, c)) \/ \E j \in 1 .. n - k : Holds(b[j], u, c)
    <3>1. CASE i \in 1 .. k
      BY <1>3, <2>1, <3>1
    <3>2. CASE \E j \in 1 .. n - k : i = k + j
      BY <1>4, <2>1, <3>2
    <3> QED BY <1>5, <3>1, <3>2
  <2>2. ASSUME NEW j \in 1 .. k, Holds(a[j], u, c) PROVE \E i \in 1 .. n : Holds(l[i], u, c)
    BY <1>3, <1>5, <2>2
  <2>3. ASSUME NEW j \in 1 .. n - k, Holds(b[j], u, c) PROVE \E i \in 1 .. n : Holds(l[i], u, c)
    BY <1>4, <1>5, <2>3
  <2>4. Len(a) = k /\ Len(b) = n - k
    BY <1>3, <1>4
  <2> QED BY <1>1, <2>1, <2>2, <2>3, <2>4 DEF Has
<1>7. ASSUME Single(l) PROVE Single(a) /\ Single(b) /\ Clear(a, b)
  <2>1. \A i, j \in 1 .. n : Overlap(l[i], l[j]) => i = j
    BY <1>1, <1>7 DEF Single
  <2>2. \A i, j \in 1 .. k : Overlap(a[i], a[j]) => i = j
    BY <1>3, <1>5, <2>1
  <2>3. ASSUME NEW i \in 1 .. n - k, NEW j \in 1 .. n - k, Overlap(b[i], b[j]) PROVE i = j
    <3>1. k + i = k + j
      BY <1>4, <1>5, <2>1, <2>3
    <3> QED BY <1>2, <3>1
  <2>4. ASSUME NEW i \in 1 .. k, NEW j \in 1 .. n - k, Overlap(a[i], b[j]) PROVE FALSE
    <3>1. i = k + j
      <4>1. i \in 1 .. n /\ k + j \in 1 .. n /\ a[i] = l[i] /\ b[j] = l[k + j]
        BY <1>3, <1>4, <1>5
      <4> QED BY <2>1, <2>4, <4>1
    <3> QED BY <1>2, <3>1
  <2>5. Clear(a, b)
    BY <1>3, <1>4, <2>4 DEF Clear, Has, Overlap
  <2> QED BY <1>3, <1>4, <2>2, <2>3, <2>5 DEF Single
<1>8. ASSUME Ordered(l) PROVE Ordered(a) /\ Ordered(b) /\ Before(a, b)
  <2>1. \A i, j \in 1 .. n : i < j => EndOf(l[i]) <= l[j].block
    BY <1>1, <1>8 DEF Ordered
  <2>2. \A i, j \in 1 .. k : i < j => EndOf(a[i]) <= a[j].block
    BY <1>3, <1>5, <2>1
  <2>3. ASSUME NEW i \in 1 .. n - k, NEW j \in 1 .. n - k, i < j PROVE EndOf(b[i]) <= b[j].block
    <3>1. k + i < k + j
      BY <1>2, <2>3
    <3> QED BY <1>4, <1>5, <2>1, <3>1
  <2>4. ASSUME NEW i \in 1 .. k, NEW j \in 1 .. n - k PROVE EndOf(a[i]) <= b[j].block
    <3>1. i < k + j
      BY <1>2
    <3> QED BY <1>3, <1>4, <1>5, <2>1, <3>1
  <2> QED BY <1>3, <1>4, <2>2, <2>3, <2>4 DEF Ordered, Before
<1> QED BY <1>1, <1>3, <1>4, <1>6, <1>7, <1>8 DEF a, b

\* backed_block_list_move: wherever the pieces land, each unit stays as it was;
\* behind a list that they belong behind, the list stays in order.
LEMMA MovedKeeps ==
  ASSUME NEW P, \A p \in P : IsPart(p), NEW to \in Seq(P), NEW run \in Seq(P)
  PROVE  LET m == Moved(to, run)
         IN  /\ m \in Seq(P)
             /\ \A j \in 1 .. Len(m) : \/ \E i \in 1 .. Len(to) : m[j] = to[i]
                                      \/ \E i \in 1 .. Len(run) : m[j] = run[i]
             /\ \A u, c : Has(m, u, c) <=> Has(to, u, c) \/ Has(run, u, c)
             /\ Single(to) /\ Single(run) /\ Clear(to, run) => Single(m)
             /\ Ordered(to) /\ Ordered(run) /\ Before(to, run) => Ordered(m)
<1> DEFINE m == Moved(to, run)
           n == Len(to)
<1>1. n \in Nat /\ DOMAIN to = 1 .. n
  OBVIOUS
<1>2. CASE run = <<>>
  <2>1. m = to
    BY <1>2 DEF Moved
  <2>2. ASSUME NEW u, NEW c PROVE ~Has(run, u, c)
    <3>1. Len(run) = 0
      BY <1>2
    <3> QED BY <3>1 DEF Has
  <2> QED BY <2>1, <2>2
<1>3. CASE run # <<>> /\ to = <<>>
  <2>1. m = run
    BY <1>3 DEF Moved
  <2>2. ASSUME NEW u, NEW c PROVE ~Has(to, u, c)
    <3>1. Len(to) = 0
      BY <1>3
    <3> QED BY <3>1 DEF Has
  <2> QED BY <2>1, <2>2
<1>4. CASE run # <<>> /\ to # <<>>
  <2> DEFINE Place(i) == /\ i = Len(to) \/ to[i + 1].block > run[1].block
                         /\ \A j \in 2 .. i : to[j].block <= run[1].block
             k == CHOOSE i \in DOMAIN to : Place(i)
             b == k + 1
  <2>1. n \in Nat \ {0} /\ 1 \in 1 .. Len(run) /\ run[1] \in P
    <3>1. Len(run) # 0 /\ Len(to) # 0
      BY <1>4, EmptySeq
    <3> QED BY <3>1
  <2>2. PICK x \in Nat : x = run[1].block
    BY <2>1, PartEnds
  <2>3. \A i \in 1 .. n : to[i] \in P /\ to[i].block \in Nat /\ EndOf(to[i]) \in Nat /\ to[i].block <= EndOf(to[i])
    BY PartEnds
  <2>4. \E i \in DOMAIN to : Place(i)
    <3> DEFINE Stops == {i \in 1 .. n : i = n \/ to[i + 1].block > x}
    <3>1. Stops \in SUBSET Nat /\ Stops # {}
      BY <2>1
    <3>2. PICK i \in Stops : \A j \in Stops : i <= j
      <4> HIDE DEF Stops
      <4> QED BY <3>1, LeastNat
    <3>3. ASSUME NEW j \in 2 .. i PROVE to[j].block <= x
      <4>1. j - 1 \in 1 .. n /\ j - 1 # n /\ ~(i <= j - 1) /\ (j - 1) + 1 = j /\ j \in 1 .. n
        BY <3>2
      <4>2. j - 1 \notin Stops
        BY <3>2, <4>1
      <4> QED BY <2>2, <2>3, <4>1, <4>2
    <3> QED BY <1>1, <2>2, <3>2, <3>3
  <2>5. k \in 1 .. n /\ Place(k)
    <3>1. k \in DOMAIN to /\ Place(k)
      <4> HIDE DEF Place
      <4> QED BY <2>4
    <3> QED BY <1>1, <3>1
  <2>6. m = SubSeq(to, 1, k) \o run \o SubSeq(to, k + 1, Len(to))
    BY <1>4 DEF Moved
  <2> HIDE DEF k, m
  <2>7. k \in 0 .. Len(to) /\ b \in k + 1 .. Len(to) + 1 /\ m = Lay(to, k, run, b)
    BY <2>5, <2>6 DEF Lay
  <2>8. PICK Kept : Kept = {i \in 1 .. Len(to) : i <= k \/ i >= b}
    OBVIOUS
  <2>9. Kept = 1 .. n
    BY <2>5, <2>8
  <2> HIDE DEF b
  <2>10. /\ m \in Seq(P)
         /\ \A u, c : Has(m, u, c) <=> Has(run, u, c) \/ \E i \in Kept : Holds(to[i], u, c)
         /\ /\ Single(to) /\ Single(run)
            /\ \A i \in Kept, j \in 1 .. Len(run) : ~Overlap(to[i], run[j])
            => Single(m)
         /\ /\ Ordered(to) /\ Ordered(run)
            /\ \A i \in 1 .. k, j \in 1 .. Len(run) : EndOf(to[i]) <= run[j].block
            /\ \A i \in b .. Len(to), j \in 1 .. Len(run) : EndOf(run[j]) <= to[i].block
            => Ordered(m)
    <3>1. IsLaid(m, P, to, k, run, b)
      BY <2>7, LayIsLaid
    <3> QED BY <2>7, <2>8, <3>1, LaidKeeps DEF IsLaid
  <2>11. \A u, c : Has(m, u, c) <=> Has(to, u, c) \/ Has(run, u, c)
    BY <2>9, <2>10 DEF Has
  <2>12. ASSUME Single(to), Single(run), Clear(to, run) PROVE Single(m)
    <3>1. \A i \in Kept, j \in 1 .. Len(run) : ~Overlap(to[i], run[j])
      BY <2>9, <2>12 DEF Clear, Has, Overlap
    <3> QED BY <2>10, <2>12, <3>1
  <2>13. ASSUME Ordered(to), Ordered(run), Before(to, run) PROVE Ordered(m)
    <3>1. k = n
      <4>1. SUFFICES ASSUME k # n PROVE FALSE
        OBVIOUS
      <4>2. k + 1 \in 1 .. n /\ to[k + 1].block > x
        BY <2>2, <2>5, <4>1
      <4>3. EndOf(to[k + 1]) <= x
        BY <2>1, <2>2, <2>13, <4>2 DEF Before
      <4> QED BY <2>2, <2>3, <4>2, <4>3
    <3>2. b .. Len(to) = {}
      BY <2>7, <3>1
    <3>3. \A i \in 1 .. k, j \in 1 .. Len(run) : EndOf(to[i]) <= run[j].block
      BY <2>13, <3>1 DEF Before
    <3> QED BY <2>10, <2>13, <3>2, <3>3
  <2>14. ASSUME NEW j \in 1 .. Len(m)
         PROVE  (\E i \in 1 .. Len(to) : m[j] = to[i]) \/ \E i \in 1 .. Len(run) : m[j] = run[i]
    <3>0. StandsFor(m, to, k, run, b)
      BY <2>7, LaidFrom
    <3>1. \/ j <= k /\ m[j] = to[j]
          \/ \E i \in 1 .. Len(run) : j = k + i /\ m[j] = run[i]
          \/ \E i \in b .. Len(to) : j + b = i + k + Len(run) + 1 /\ m[j] = to[i]
      BY <3>0 DEF StandsFor
    <3>2. j <= k => j \in 1 .. Len(to)
      BY <2>5
    <3>3. \A i \in b .. Len(to) : i \in 1 .. Len(to)
      BY <2>5, <2>7
    <3> QED BY <3>1, <3>2, <3>3
  <2> QED BY <2>10, <2>11, <2>12, <2>13, <2>14 DEF m
<1> QED BY <1>2, <1>3, <1>4

\* A part of a part may be in a list too.
SplitClosed(P) ==
  /\ \A p \in P : IsPart(p)
  /\ \A p \in P : \A q : IsPart(q) /\ EndOf(q) <= EndOf(p) /\ q.type = p.type /\ q.src = p.src => q \in P

\* backed_block_split of one piece, behind m units of it.
FirstHalf(p, m) == [p EXCEPT !.len = m]
SecondHalf(p, m) ==
  [p EXCEPT !.len = @ - m, !.block = @ + m \div BlockSize, !.off = IF p.type = "fill" THEN @ ELSE @ + m]

\* The halves lie behind each other and hold what the piece held.
LEMMA HalvesAre ==
  ASSUME NEW p, IsPart(p), NEW b \in Nat, NEW m, m = b * BlockSize, m < p.len
  PROVE  LET first == FirstHalf(p, m)
             rest == SecondHalf(p, m)
         IN  /\ m \in Nat /\ IsPart(first) /\ IsPart(rest)
             /\ first.type = p.type /\ first.src = p.src /\ first.block = p.block /\ first.len = m
             /\ rest.type = p.type /\ rest.src = p.src /\ rest.len = p.len - m /\ rest.len \in Nat \ {0}
             /\ EndOf(first) = rest.block /\ EndOf(rest) = EndOf(p)
             /\ \A u, c : Holds(p, u, c) <=> Holds(first, u, c) \/ Holds(rest, u, c)
<1>1. BlockSize \in Nat \ {0} /\ m \in Nat
  BY BlockSizeAssumption, UnitOrder
<1>2. /\ p = [type |-> p.type, block |-> p.block, len |-> p.len, src |-> p.src, off |-> p.off]
      /\ p.type \in PieceTypes /\ p.block \in Nat /\ p.len \in Nat /\ p.off \in Nat
  BY DEF IsPart
<1>3. m \div BlockSize = b
  <2>1. m = b * BlockSize + 0 /\ 0 \in 0 .. BlockSize - 1 /\ b \in Int
    BY <1>1
  <2> QED BY <1>1, <2>1, Division
<1>4. PICK off \in Nat : off = IF p.type = "fill" THEN p.off ELSE p.off + m
  BY <1>1, <1>2
<1>11. PICK first : first = FirstHalf(p, m)
  OBVIOUS
<1>12. PICK rest : rest = SecondHalf(p, m)
  OBVIOUS
<1>5. /\ first = [type |-> p.type, block |-> p.block, len |-> m, src |-> p.src, off |-> p.off]
      /\ rest = [type |-> p.type, block |-> p.block + b, len |-> p.len - m, src |-> p.src, off |-> off]
  BY <1>2, <1>3, <1>4, <1>11, <1>12 DEF FirstHalf, SecondHalf
<1>6. p.len - m \in Nat \ {0} /\ p.block + b \in Nat
  BY <1>1, <1>2
<1>7. IsPart(first) /\ IsPart(rest)
  BY <1>1, <1>2, <1>5, <1>6 DEF IsPart
<1>8. EndOf(first) = rest.block
  <2>1. BlocksIn(m) = b
    <3>1. m <= b * BlockSize /\ b * BlockSize < m + BlockSize
      BY <1>1
    <3> QED BY <1>1, <3>1, BlocksInIs
  <2> QED BY <1>2, <1>5, <2>1 DEF EndOf
<1>9. EndOf(rest) = EndOf(p)
  <2>1. PICK n \in Nat : n = p.len - m
    BY <1>6
  <2>2. BlocksIn(b * BlockSize + n) = b + BlocksIn(n) /\ BlocksIn(n) \in Nat
    BY <2>1, BlocksInSum, BlocksInBounds
  <2>3. b * BlockSize + n = p.len
    BY <1>1, <1>2, <2>1
  <2> QED BY <1>2, <1>5, <2>1, <2>2, <2>3 DEF EndOf
<1>10. ASSUME NEW u, NEW c PROVE Holds(p, u, c) <=> Holds(first, u, c) \/ Holds(rest, u, c)
  <2>1. PICK s \in Nat : s = p.block * BlockSize
    BY <1>2, UnitOrder
  <2>2. PICK t \in Nat : t = rest.block * BlockSize
    BY <1>5, <1>6, UnitOrder
  <2>3. PICK e \in Nat : e = EndOf(p) * BlockSize /\ t <= e
    <3>1. EndOf(p) \in Nat /\ rest.block <= EndOf(p) /\ rest.block \in Nat
      BY <1>7, <1>9, PartEnds
    <3> QED BY <2>2, <3>1, UnitOrder
  <2>4. t = s + m
    <3>1. (p.block + b) * BlockSize = p.block * BlockSize + b * BlockSize
      BY <1>1, <1>2
    <3> QED BY <1>5, <2>1, <2>2, <3>1
  <2>5. /\ Holds(p, u, c) <=> u \in s .. e - 1 /\ c = CellOf(p, u - s)
        /\ Holds(first, u, c) <=> u \in s .. t - 1 /\ c = CellOf(first, u - s)
        /\ Holds(rest, u, c) <=> u \in t .. e - 1 /\ c = CellOf(rest, u - t)
    BY <1>5, <1>8, <1>9, <2>1, <2>2, <2>3 DEF Holds
  <2>6. u \in s .. e - 1 <=> u \in s .. t - 1 \/ u \in t .. e - 1
    BY <1>1, <2>3, <2>4
  <2>7. u \in s .. t - 1 => CellOf(first, u - s) = CellOf(p, u - s)
    <3>1. u \in s .. t - 1 => u - s < m /\ u - s < p.len
      BY <1>1, <1>2, <2>4
    <3> QED BY <1>5, <3>1 DEF CellOf
  <2>8. u \in t .. e - 1 => CellOf(rest, u - t) = CellOf(p, u - s)
    <3>1. SUFFICES ASSUME u \in t .. e - 1 PROVE CellOf(rest, u - t) = CellOf(p, u - s)
      OBVIOUS
    <3>2. CASE p.type = "fill"
      BY <1>5, <3>2 DEF CellOf
    <3>3. CASE p.type # "fill"
      <4>1. off = p.off + m
        BY <1>4, <3>3
      <4>2. (u - t < p.len - m <=> u - s < p.len) /\ off + (u - t) = p.off + (u - s)
        BY <1>1, <1>2, <2>4, <3>1, <4>1
      <4> QED BY <1>5, <3>3, <4>2 DEF CellOf
    <3> QED BY <3>2, <3>3
  <2>9. ~(u \in s .. t - 1 /\ u \in t .. e - 1)
    BY <2>4
  <2> QED BY <2>5, <2>6, <2>7, <2>8, <2>9
<1> QED BY <1>1, <1>5, <1>6, <1>7, <1>8, <1>9, <1>10, <1>11, <1>12

\* Pieces behind each other share no unit.
LEMMA ApartIs ==
  ASSUME NEW a, NEW b, IsPart(a), IsPart(b), EndOf(a) <= b.block
  PROVE  ~Overlap(a, b) /\ ~Overlap(b, a)
<1>1. a.block \in Nat /\ EndOf(a) \in Nat /\ b.block \in Nat /\ EndOf(b) \in Nat
  BY PartEnds
<1>2. PICK s \in Nat, t \in Nat, v \in Nat, e \in Nat :
        /\ s = a.block * BlockSize /\ t = EndOf(a) * BlockSize
        /\ v = b.block * BlockSize /\ e = EndOf(b) * BlockSize
  BY <1>1, UnitOrder
<1>3. t <= v
  BY <1>1, <1>2, UnitOrder
<1>4. ASSUME NEW u, u \in s .. t - 1, u \in v .. e - 1 PROVE FALSE
  BY <1>3, <1>4
<1> QED BY <1>2, <1>4 DEF Overlap, Holds

LEMMA OrderedSingle ==
  ASSUME NEW P, \A p \in P : IsPart(p), NEW l \in Seq(P), Ordered(l)
  PROVE  Single(l)
<1>1. ASSUME NEW i \in 1 .. Len(l), NEW j \in 1 .. Len(l), i < j PROVE ~Overlap(l[i], l[j]) /\ ~Overlap(l[j], l[i])
  <2>1. IsPart(l[i]) /\ IsPart(l[j]) /\ EndOf(l[i]) <= l[j].block
    BY <1>1 DEF Ordered
  <2> QED BY <2>1, ApartIs
<1>2. \A i, j \in 1 .. Len(l) : i < j \/ i = j \/ j < i
  OBVIOUS
<1> QED BY <1>1, <1>2 DEF Single

\* backed_block_split on a list: the piece is replaced by its halves, when there
\* is more of it than stays in the first.
LEMMA SplitKeeps ==
  ASSUME NEW P, SplitClosed(P), NEW l \in Seq(P), NEW k \in 1 .. Len(l), NEW max_len \in Nat
  PROVE  LET t == Split(l, k, max_len)
             m == (max_len \div BlockSize) * BlockSize
         IN  /\ t \in Seq(P) /\ k \in 1 .. Len(t) /\ m \in Nat /\ m <= max_len /\ max_len < m + BlockSize
             /\ IF l[k].len <= m THEN t = l
                ELSE /\ Len(t) = Len(l) + 1 /\ t[k] = FirstHalf(l[k], m) /\ t[k + 1] = SecondHalf(l[k], m)
                     /\ \A i \in 1 .. k - 1 : t[i] = l[i]
                     /\ \A i \in k + 1 .. Len(l) : t[i + 1] = l[i]
             /\ \A u, c : Has(t, u, c) <=> Has(l, u, c)
             /\ Single(l) => Single(t)
             /\ Ordered(l) => Ordered(t)
<1> DEFINE t == Split(l, k, max_len)
           m == (max_len \div BlockSize) * BlockSize
<1>1. PICK n \in Nat : n = Len(l)
  OBVIOUS
<1>2. k \in 1 .. n /\ l[k] \in P /\ IsPart(l[k]) /\ l[k].len \in Nat
  BY <1>1 DEF SplitClosed, IsPart
<1>3. PICK b \in Nat : m = b * BlockSize /\ m \in Nat /\ m <= max_len /\ max_len < m + BlockSize
  <2>1. BlockSize \in Nat \ {0}
    BY BlockSizeAssumption
  <2>2. PICK b : b = max_len \div BlockSize
    OBVIOUS
  <2>3. PICK r : r = max_len % BlockSize
    OBVIOUS
  <2>4. b \in Nat /\ r \in 0 .. BlockSize - 1 /\ max_len = b * BlockSize + r /\ b * BlockSize \in Nat
    BY <2>1, <2>2, <2>3, DivMod
  <2>5. m = b * BlockSize
    BY <2>2
  <2> HIDE DEF m
  <2>6. PICK x \in Nat : x = b * BlockSize
    BY <2>4
  <2>7. x <= max_len /\ max_len < x + BlockSize
    BY <2>1, <2>4, <2>6
  <2> QED BY <2>4, <2>5, <2>6, <2>7
<1>4. CASE l[k].len <= m
  <2>1. t = l
    BY <1>4 DEF Split
  <2> QED BY <1>3, <1>4, <2>1
<1>5. CASE ~(l[k].len <= m)
  <2>1. PICK p : p = l[k]
    OBVIOUS
  <2>2. PICK first : first = FirstHalf(p, m)
    OBVIOUS
  <2>3. PICK rest : rest = SecondHalf(p, m)
    OBVIOUS
  <2>4. PICK run : run = <<first, rest>>
    OBVIOUS
  <2>5. t = SubSeq(l, 1, k - 1) \o run \o SubSeq(l, k + 1, Len(l))
    BY <1>5, <2>1, <2>2, <2>3, <2>4 DEF Split, FirstHalf, SecondHalf
  <2> HIDE DEF t, m
  <2>6. /\ IsPart(first) /\ IsPart(rest)
        /\ first.type = p.type /\ first.src = p.src /\ first.block = p.block
        /\ rest.type = p.type /\ rest.src = p.src
        /\ EndOf(first) = rest.block /\ EndOf(rest) = EndOf(p)
        /\ \A u, c : Holds(p, u, c) <=> Holds(first, u, c) \/ Holds(rest, u, c)
    <3>1. m < p.len /\ IsPart(p)
      BY <1>2, <1>3, <1>5, <2>1
    <3> QED BY <1>3, <2>2, <2>3, <3>1, HalvesAre
  <2>7. /\ first.block \in Nat /\ rest.block \in Nat /\ EndOf(first) \in Nat /\ EndOf(rest) \in Nat
        /\ first.block <= EndOf(first) /\ rest.block <= EndOf(rest)
    BY <2>6, PartEnds
  <2>8. first \in P /\ rest \in P
    <3>1. EndOf(first) <= EndOf(p) /\ EndOf(rest) <= EndOf(p) /\ p \in P
      BY <1>2, <2>1, <2>6, <2>7
    <3> QED BY <2>6, <3>1 DEF SplitClosed
  <2>9. run \in Seq(P) /\ Len(run) = 2 /\ run[1] = first /\ run[2] = rest
    BY <2>4, <2>8
  <2>10. PICK a \in 0 .. Len(l) : a = k - 1
    BY <1>1, <1>2
  <2>11. PICK z \in a + 1 .. Len(l) + 1 : z = k + 1
    BY <1>1, <1>2, <2>10
  <2>12. t = Lay(l, a, run, z)
    BY <2>5, <2>10, <2>11 DEF Lay
  <2>13. IsLaid(t, P, l, a, run, z)
    BY <2>9, <2>12, LayIsLaid
  <2>14. PICK Kept : Kept = {i \in 1 .. Len(l) : i <= a \/ i >= z}
    OBVIOUS
  <2>15. /\ \A u, c : Has(t, u, c) <=> Has(run, u, c) \/ \E i \in Kept : Holds(l[i], u, c)
         /\ /\ Single(l) /\ Single(run)
            /\ \A i \in Kept, j \in 1 .. Len(run) : ~Overlap(l[i], run[j])
            => Single(t)
         /\ /\ Ordered(l) /\ Ordered(run)
            /\ \A i \in 1 .. a, j \in 1 .. Len(run) : EndOf(l[i]) <= run[j].block
            /\ \A i \in z .. Len(l), j \in 1 .. Len(run) : EndOf(run[j]) <= l[i].block
            => Ordered(t)
    BY <2>9, <2>12, <2>14, LaidKeeps
  <2>16. Kept = (1 .. n) \ {k}
    BY <1>1, <1>2, <2>10, <2>11, <2>14
  <2>17. /\ t \in Seq(P) /\ Len(t) = n + 1 /\ t[k] = first /\ t[k + 1] = rest
         /\ \A i \in 1 .. k - 1 : t[i] = l[i]
         /\ \A i \in k + 1 .. n : t[i + 1] = l[i]
    <3>1. n + 1 \in Nat /\ (n + 1) + z = a + Len(run) + Len(l) + 1
      BY <1>1, <1>2, <2>9, <2>10, <2>11, SMTT(60)
    <3>2. Len(t) = n + 1
      BY <2>13, <3>1 DEF IsLaid
    <3>3. 1 \in 1 .. Len(run) /\ 2 \in 1 .. Len(run) /\ a + 1 = k /\ a + 2 = k + 1
      BY <1>2, <2>9, <2>10
    <3>4. t[a + 1] = run[1] /\ t[a + 2] = run[2]
      BY <2>13, <3>3 DEF IsLaid
    <3>5. ASSUME NEW i \in k + 1 .. n PROVE t[i + 1] = l[i]
      <4>1. PICK j \in Nat : j = i + 1
        BY <1>2
      <4>2. i \in z .. Len(l) /\ j + z = i + a + Len(run) + 1
        BY <1>1, <1>2, <2>9, <2>10, <2>11, <4>1
      <4> QED BY <2>13, <4>1, <4>2 DEF IsLaid
    <3> QED BY <2>9, <2>10, <2>13, <3>2, <3>3, <3>4, <3>5 DEF IsLaid
  <2>18. ASSUME NEW u, NEW c PROVE Has(t, u, c) <=> Has(l, u, c)
    <3>1. Has(run, u, c) <=> Holds(p, u, c)
      <4>1. \A i : i \in 1 .. 2 <=> i = 1 \/ i = 2
        OBVIOUS
      <4> QED BY <2>6, <2>9, <4>1 DEF Has
    <3>2. Has(l, u, c) <=> \E i \in 1 .. n : Holds(l[i], u, c)
      BY <1>1 DEF Has
    <3> QED BY <1>2, <2>1, <2>15, <2>16, <3>1, <3>2
  <2>19. ASSUME Single(l) PROVE Single(t)
    <3>1. Single(run)
      <4>1. ~Overlap(first, rest) /\ ~Overlap(rest, first)
        <5>1. EndOf(first) <= rest.block
          BY <2>6, <2>7
        <5> QED BY <2>6, <5>1, ApartIs
      <4>2. \A i : i \in 1 .. 2 <=> i = 1 \/ i = 2
        OBVIOUS
      <4> QED BY <2>9, <4>1, <4>2 DEF Single
    <3>2. ASSUME NEW i \in Kept PROVE ~Overlap(l[i], first) /\ ~Overlap(l[i], rest)
      <4>1. i \in 1 .. Len(l) /\ i # k
        BY <1>1, <2>16
      <4>2. ~Overlap(l[i], p)
        BY <2>1, <2>19, <4>1 DEF Single
      <4> QED BY <2>6, <4>2 DEF Overlap
    <3>3. \A i \in Kept, j \in 1 .. Len(run) : ~Overlap(l[i], run[j])
      <4>1. \A j : j \in 1 .. 2 <=> j = 1 \/ j = 2
        OBVIOUS
      <4> QED BY <2>9, <3>2, <4>1
    <3> QED BY <2>15, <2>19, <3>1, <3>3
  <2>20. ASSUME Ordered(l) PROVE Ordered(t)
    <3>1. \A j : j \in 1 .. 2 <=> j = 1 \/ j = 2
      OBVIOUS
    <3>2. Ordered(run)
      <4>1. \A i, j \in 1 .. 2 : i < j => i = 1 /\ j = 2
        OBVIOUS
      <4>2. EndOf(first) <= rest.block
        BY <2>6, <2>7
      <4> QED BY <2>9, <4>1, <4>2 DEF Ordered
    <3>3. ASSUME NEW i \in 1 .. a PROVE EndOf(l[i]) <= first.block /\ EndOf(l[i]) <= rest.block
      <4>1. i \in 1 .. Len(l) /\ i < k
        BY <1>1, <1>2, <2>10
      <4>2. EndOf(l[i]) <= p.block
        BY <2>1, <2>20, <4>1 DEF Ordered
      <4>3. EndOf(l[i]) \in Nat
        <5>1. IsPart(l[i])
          BY <4>1 DEF SplitClosed
        <5> QED BY <5>1, PartEnds
      <4> QED BY <2>6, <2>7, <4>2, <4>3
    <3>4. ASSUME NEW i \in z .. Len(l) PROVE EndOf(first) <= l[i].block /\ EndOf(rest) <= l[i].block
      <4>1. i \in 1 .. Len(l) /\ k < i
        BY <1>1, <1>2, <2>11
      <4>2. EndOf(p) <= l[i].block
        BY <2>1, <2>20, <4>1 DEF Ordered
      <4>3. l[i].block \in Nat
        <5>1. IsPart(l[i])
          BY <4>1 DEF SplitClosed
        <5> QED BY <5>1, PartEnds
      <4> QED BY <2>6, <2>7, <4>2, <4>3
    <3> QED BY <2>9, <2>15, <2>20, <3>1, <3>2, <3>3, <3>4
  <2> QED BY <1>1, <1>2, <1>3, <1>5, <2>1, <2>2, <2>3, <2>17, <2>18, <2>19, <2>20 DEF t, m
<1> QED BY <1>4, <1>5
=============================================================================

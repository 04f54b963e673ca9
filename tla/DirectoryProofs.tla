-------------------------- MODULE DirectoryProofs --------------------------
(***************************************************************************)
(* The records of a directory fill the blocks dentry_size counted for      *)
(* them, and the walk of ext4fixup meets each of them once, for every list *)
(* of names and every block size.                                          *)
(***************************************************************************)
EXTENDS Directory, Arithmetic

-----------------------------------------------------------------------------
(* Offsets in blocks of n bytes.                                           *)

\* The distance of two offsets.
LEMMA Apart ==
  \A a, b, y, z \in Nat :
    z - a \in y .. b => z - a \in Nat /\ z - a >= y /\ z - a <= b /\ a + (z - a) = z
OBVIOUS

\* The block a record of s bytes ends in, where o bytes are taken: that of o,
\* or the next when the rest is too short.
LEMMA EndBlock ==
  ASSUME NEW n \in Nat \ {0}, NEW o \in Nat, NEW s \in 1 .. n
  PROVE  /\ (o % n) + s <= n => (o + s - 1) \div n = o \div n
         /\ (o % n) + s > n =>
              /\ (o + s - 1) \div n = o \div n + 1
              /\ o % n > 0 /\ (o \div n + 1) * n = (o - (o % n)) + n
              /\ ((o \div n + 1) * n) % n = 0
<1> DEFINE q == o \div n
           r == o % n
<1>1. q \in Nat /\ r \in 0 .. n - 1 /\ o = q * n + r /\ q * n \in Nat
  BY DivMod
<1> HIDE DEF q, r
<1>2. ASSUME r + s <= n PROVE (o + s - 1) \div n = q
  <2>1. r + s - 1 \in 0 .. n - 1 /\ o + s - 1 = q * n + (r + s - 1)
    BY <1>1, <1>2
  <2> QED BY <1>1, <2>1, Division
<1>3. ASSUME r + s > n
      PROVE  /\ (o + s - 1) \div n = q + 1 /\ r > 0
             /\ (q + 1) * n = (o - r) + n /\ ((q + 1) * n) % n = 0
  <2>1. (q + 1) * n = q * n + n
    BY <1>1
  <2>2. r + s - 1 - n \in 0 .. n - 1 /\ o + s - 1 = (q + 1) * n + (r + s - 1 - n)
    BY <1>1, <1>3, <2>1
  <2>3. (o + s - 1) \div n = q + 1
    BY <1>1, <2>2, Division
  <2>4. ((q + 1) * n + 0) % n = 0 /\ (q + 1) * n + 0 = (q + 1) * n
    BY <1>1, Division
  <2> QED BY <1>1, <1>3, <2>1, <2>3, <2>4
<1> QED BY <1>2, <1>3 DEF q, r

\* A remainder is no more than the number.
LEMMA Remainder ==
  ASSUME NEW n \in Nat \ {0}, NEW o \in Nat
  PROVE  o \div n \in Nat /\ o % n \in 0 .. n - 1 /\ o % n <= o
<1> DEFINE q == o \div n
           r == o % n
<1>1. q \in Nat /\ r \in 0 .. n - 1 /\ o = q * n + r /\ q * n \in Nat
  BY DivMod
<1> HIDE DEF q, r
<1>2. q \in Nat /\ r \in 0 .. n - 1 /\ r <= o
  BY <1>1
<1> QED BY <1>2 DEF q, r

\* Behind a record that lies in one block, the block ends or goes on.
LEMMA RestOfBlock ==
  ASSUME NEW n \in Nat \ {0}, NEW a \in Nat, NEW s \in 1 .. n, (a % n) + s <= n
  PROVE  /\ (a + s) % n = 0 => a + s = (a - (a % n)) + n
         /\ (a + s) % n > 0 => (a + s) - ((a + s) % n) = a - (a % n)
<1> DEFINE q == a \div n
           r == a % n
<1>1. q \in Nat /\ r \in 0 .. n - 1 /\ a = q * n + r /\ q * n \in Nat
  BY DivMod
<1>2. r + s <= n
  OBVIOUS
<1> HIDE DEF q, r
<1>3. CASE r + s = n
  <2>1. (q + 1) * n = q * n + n /\ a + s = (q + 1) * n + 0
    BY <1>1, <1>3
  <2>2. (a + s) % n = 0
    BY <1>1, <2>1, Division
  <2>3. a + s = (a - r) + n
    BY <1>1, <1>3
  <2> QED BY <2>2, <2>3 DEF r
<1>4. CASE r + s < n
  <2>1. a + s = q * n + (r + s) /\ r + s \in 0 .. n - 1
    BY <1>1, <1>4
  <2>2. (a + s) % n = r + s
    BY <1>1, <2>1, Division
  <2>3. (a + s) - (r + s) = a - r
    BY <1>1
  <2> QED BY <1>1, <2>2, <2>3 DEF r
<1> QED BY <1>1, <1>2, <1>3, <1>4

\* Bytes rounded up to whole blocks.
LEMMA RoundedUp ==
  ASSUME NEW n \in Nat \ {0}, NEW o \in Nat
  PROVE  /\ ((o + n - 1) \div n) * n \in Nat
         /\ ((o + n - 1) \div n) * n = IF o % n = 0 THEN o ELSE (o - (o % n)) + n
<1> DEFINE q == o \div n
           r == o % n
<1>1. q \in Nat /\ r \in 0 .. n - 1 /\ o = q * n + r /\ q * n \in Nat
  BY DivMod
<1> HIDE DEF q, r
<1>2. CASE r = 0
  <2>1. o + n - 1 = q * n + (n - 1) /\ n - 1 \in 0 .. n - 1
    BY <1>1, <1>2
  <2>2. (o + n - 1) \div n = q
    BY <1>1, <2>1, Division
  <2> QED BY <1>1, <1>2, <2>2 DEF r
<1>3. CASE r # 0
  <2>1. (q + 1) * n = q * n + n /\ r - 1 \in 0 .. n - 1
    BY <1>1, <1>3
  <2>2. o + n - 1 = (q + 1) * n + (r - 1)
    BY <1>1, <2>1
  <2>3. (o + n - 1) \div n = q + 1
    BY <1>1, <2>1, <2>2, Division
  <2> QED BY <1>1, <1>3, <2>1, <2>3 DEF r
<1> QED BY <1>2, <1>3

-----------------------------------------------------------------------------
(* Records.                                                                *)

Lengths == 1 .. 255
RecordSizes == 12 .. 264
Record == [at : Nat, size : Nat, rec_len : Nat]

\* What the assumption says of the directory at hand.
LEMMA DirectoryFacts ==
  ASSUME dir \in Directories
  PROVE  /\ BlockSize \in Nat /\ BlockSize >= 1024 /\ BlockSize <= 65536
         /\ dir.beside \in 0 .. 1
         /\ Len(dir.names) \in Nat /\ \A k \in 1 .. Len(dir.names) : dir.names[k].len \in Lengths
<1>1. /\ dir.block_size \in {1024, 2048, 4096, 8192, 16384, 32768, 65536}
      /\ dir.beside \in 0 .. 1
  BY DirectoriesAssumption
<1>2. dir.names \in Seq([len : 1 .. 255, lost_found : BOOLEAN, readable : BOOLEAN])
  BY DirectoriesAssumption
<1>3. BlockSize \in Nat /\ BlockSize >= 1024 /\ BlockSize <= 65536
  BY <1>1 DEF BlockSize
<1>4. \A x \in [len : 1 .. 255, lost_found : BOOLEAN, readable : BOOLEAN] : x.len \in Lengths
  BY DEF Lengths
<1>5. PICK S : dir.names \in Seq(S) /\ \A x \in S : x.len \in Lengths
  BY <1>2, <1>4, Zenon
<1>6. Len(dir.names) \in Nat /\ \A k \in 1 .. Len(dir.names) : dir.names[k].len \in Lengths
  BY <1>5
<1> QED BY <1>1, <1>3, <1>6

\* A record is shorter than a block.
LEMMA RecLenIs ==
  ASSUME NEW l \in Lengths
  PROVE  RecLen(l) \in RecordSizes
BY DEF Lengths, RecLen, RecordSizes

LEMMA SizesAre ==
  \A s \in RecordSizes : s \in Nat /\ s >= 12 /\ s <= 264
BY DEF RecordSizes

\* Where a record goes: into the rest of the block, or, with the rest left
\* over, to the start of the next.  add_dentry finds the place that
\* dentry_size counts with.
LEMMA StartOfIs ==
  ASSUME dir \in Directories, NEW o \in Nat, NEW s \in RecordSizes
  PROVE  LET e == (o + s - 1) \div BlockSize
             st == StartOf(o, s)
         IN  /\ st \in Nat /\ st >= o /\ st < o + BlockSize
             /\ (st % BlockSize) + s <= BlockSize
             /\ st = IF o \div BlockSize # e THEN e * BlockSize ELSE o
             /\ o \div BlockSize # e <=> st # o
             /\ st # o => o % BlockSize > 0 /\ st = (o - (o % BlockSize)) + BlockSize
<1> DEFINE n == BlockSize
           e == (o + s - 1) \div n
           st == StartOf(o, s)
<1>1. n \in Nat \ {0} /\ s \in 1 .. n /\ n >= 1024
  BY DirectoryFacts, SizesAre
<1> HIDE DEF n
<1>2. o \div n \in Nat /\ o % n \in 0 .. n - 1 /\ o % n <= o
  BY <1>1, Remainder
<1>3. st = IF (o % n) + s > n THEN (o \div n + 1) * n ELSE o
  BY DEF StartOf, n
<1>4. CASE (o % n) + s <= n
  <2>1. st = o
    BY <1>1, <1>2, <1>3, <1>4
  <2>2. o \div n = e
    BY <1>1, <1>4, EndBlock, Zenon
  <2> QED BY <1>1, <1>4, <2>1, <2>2 DEF n
<1>5. CASE (o % n) + s > n
  <2>1. st = (o \div n + 1) * n
    BY <1>3, <1>5
  <2>2. /\ e = o \div n + 1
        /\ o % n > 0 /\ (o \div n + 1) * n = (o - (o % n)) + n
        /\ ((o \div n + 1) * n) % n = 0
    BY <1>1, <1>5, EndBlock, Zenon
  <2>3. st = (o - (o % n)) + n /\ st % n = 0 /\ st = e * n /\ o \div n # e
    BY <1>2, <2>1, <2>2
  <2>4. st \in Nat /\ st > o /\ st < o + n /\ (st % n) + s <= n
    BY <1>1, <1>2, <2>2, <2>3
  <2> QED BY <2>2, <2>3, <2>4 DEF n
<1> QED BY <1>1, <1>2, <1>4, <1>5

\* A record that ends at o in its block, and the next, or the end of the
\* blocks, are at most a block apart.
LEMMA NextWithinBlock ==
  ASSUME dir \in Directories, NEW a \in Nat, NEW s \in RecordSizes,
         (a % BlockSize) + s <= BlockSize
  PROVE  /\ \A z \in RecordSizes : StartOf(a + s, z) - a \in s .. BlockSize
         /\ BlocksFor(a + s) * BlockSize - a \in s .. BlockSize
<1> DEFINE n == BlockSize
           o == a + s
<1>1. n \in Nat \ {0} /\ s \in 1 .. n /\ n >= 1024 /\ o \in Nat
  BY DirectoryFacts, SizesAre
<1> HIDE DEF n
<1>2. a % n \in 0 .. n - 1 /\ a % n <= a /\ (a % n) + s <= n
  BY <1>1, Remainder DEF n
<1>3. /\ o % n = 0 => o = (a - (a % n)) + n
      /\ o % n > 0 => o - (o % n) = a - (a % n)
  BY <1>1, <1>2, RestOfBlock, Zenon
<1>4. o % n \in 0 .. n - 1 /\ o % n <= o
  BY <1>1, Remainder, Zenon
<1>5. ASSUME NEW z \in RecordSizes
      PROVE  StartOf(o, z) - a \in s .. n
  <2>1. /\ StartOf(o, z) \in Nat /\ StartOf(o, z) >= o
        /\ StartOf(o, z) # o => o % n > 0 /\ StartOf(o, z) = (o - (o % n)) + n
    BY <1>1, StartOfIs, Zenon DEF n
  <2> HIDE DEF o
  <2>2. CASE StartOf(o, z) = o
    BY <1>1, <1>2, <2>2 DEF o
  <2>3. CASE StartOf(o, z) # o
    <3>1. StartOf(o, z) = (a - (a % n)) + n
      BY <1>3, <2>1, <2>3
    <3> QED BY <1>1, <1>2, <2>1, <3>1 DEF o
  <2> QED BY <2>2, <2>3
<1>6. BlocksFor(o) * n - a \in s .. n
  <2>1. BlocksFor(o) * n \in Nat /\ BlocksFor(o) * n = IF o % n = 0 THEN o ELSE (o - (o % n)) + n
    BY <1>1, RoundedUp, Zenon DEF BlocksFor, n
  <2>2. BlocksFor(o) * n = (a - (a % n)) + n
    <3>1. CASE o % n = 0
      BY <1>3, <2>1, <3>1
    <3>2. CASE o % n # 0
      <4>1. o % n > 0
        BY <1>4, <3>2
      <4> QED BY <1>3, <2>1, <3>2, <4>1
    <3> QED BY <3>1, <3>2
  <2>3. BlocksFor(o) * n >= o
    BY <1>1, <1>4, <2>1
  <2> HIDE DEF o
  <2> QED BY <1>1, <1>2, <2>2, <2>3 DEF o
<1> QED BY <1>5, <1>6 DEF n

\* What rec_len says of the next record, if it is at most a block away.
LEMMA StoredDistance ==
  ASSUME NEW n \in Nat, n <= 65536, NEW x \in Nat, x >= 12, x <= n, NEW r, r = U16(x)
  PROVE  /\ r \in Nat
         /\ (IF n = 65536 /\ r = 0 THEN 65536 ELSE r) = x
<1>1. CASE x = 65536
  BY <1>1 DEF U16
<1>2. CASE x # 65536
  <2>1. r = x /\ r # 0
    BY <1>2 DEF U16
  <2> QED BY <2>1
<1> QED BY <1>1, <1>2

\* The names with "." and "..".
LEMMA NamesFacts ==
  ASSUME dentries \in Seq(Lengths)
  PROVE  /\ Len(dentries) \in Nat /\ Len(Names) = Len(dentries) + 2
         /\ \A k \in 1 .. Len(dentries) : dentries[k] \in Lengths /\ Names[k + 2] = dentries[k]
         /\ Names[1] = 1 /\ Names[2] = 2
         /\ \A k \in 1 .. Len(Names) : RecLen(Names[k]) \in RecordSizes
<1>1. 1 \in Lengths /\ 2 \in Lengths
  BY DEF Lengths
<1>2. /\ Len(dentries) \in Nat /\ Len(Names) = Len(dentries) + 2
      /\ \A k \in 1 .. Len(dentries) : dentries[k] \in Lengths /\ Names[k + 2] = dentries[k]
      /\ Names[1] = 1 /\ Names[2] = 2
  BY DEF Names
<1>3. ASSUME NEW k \in 1 .. Len(Names) PROVE Names[k] \in Lengths
  <2>1. CASE k <= 2
    <3>1. k = 1 \/ k = 2
      BY <1>2, <2>1
    <3> QED BY <1>1, <1>2, <3>1
  <2>2. CASE k > 2
    <3>1. k - 2 \in 1 .. Len(dentries) /\ (k - 2) + 2 = k
      BY <1>2, <2>2
    <3> QED BY <1>2, <3>1
  <2> QED BY <1>2, <2>1, <2>2
<1> QED BY <1>2, <1>3, RecLenIs

-----------------------------------------------------------------------------
(* The two passes.                                                         *)

\* The bytes taken after k names, as dentry_size counts them.
Totals(f, n) ==
  /\ f \in [0 .. n -> Nat] /\ f[0] = 0
  /\ \A k \in 1 .. n : f[k] = StartOf(f[k - 1], RecLen(Names[k])) + RecLen(Names[k])
  /\ \A j, k \in 0 .. n : j < k => f[j] < f[k]

\* They depend on the directory and its names alone.
LEMMA TotalsSame ==
  ASSUME dir' = dir, dentries' = dentries
  PROVE  \A f, n : Totals(f, n)' <=> Totals(f, n)
BY DEF Totals, Names, StartOf, BlockSize

\* One name more.
LEMMA TotalsNext ==
  ASSUME dir \in Directories, dentries \in Seq(Lengths),
         NEW n \in Nat, n < Len(Names), NEW f, Totals(f, n)
  PROVE  \E g : /\ Totals(g, n + 1)
                /\ g[n + 1] = StartOf(f[n], RecLen(Names[n + 1])) + RecLen(Names[n + 1])
<1> DEFINE s == RecLen(Names[n + 1])
           v == StartOf(f[n], s) + s
<1>1. s \in RecordSizes
  <2>1. Len(Names) \in Nat /\ n + 1 \in 1 .. Len(Names)
    BY NamesFacts
  <2> QED BY <2>1, NamesFacts
<1>2. f[n] \in Nat
  BY DEF Totals
<1>3. v \in Nat /\ v > f[n]
  <2>1. StartOf(f[n], s) \in Nat /\ StartOf(f[n], s) >= f[n]
    BY <1>1, <1>2, StartOfIs
  <2>2. \A x, y \in Nat : \A z \in RecordSizes : x >= y => x + z \in Nat /\ x + z > y
    BY SizesAre
  <2> HIDE DEF s
  <2> QED BY <1>1, <1>2, <2>1, <2>2
<1>4. PICK w : w = v
  OBVIOUS
<1>5. w \in Nat /\ w > f[n]
  BY <1>3, <1>4
<1> HIDE DEF v
<1> DEFINE g == [k \in 0 .. n + 1 |-> IF k = n + 1 THEN w ELSE f[k]]
<1>6. g[n + 1] = w /\ \A k \in 0 .. n : g[k] = f[k]
  OBVIOUS
<1>7. g \in [0 .. n + 1 -> Nat] /\ g[0] = 0
  <2>1. \A k \in 0 .. n : f[k] \in Nat
    BY DEF Totals
  <2> QED BY <1>5, <1>6, <2>1 DEF Totals
<1> HIDE DEF g
<1>8. ASSUME NEW k \in 1 .. n + 1
      PROVE  g[k] = StartOf(g[k - 1], RecLen(Names[k])) + RecLen(Names[k])
  <2>1. CASE k = n + 1
    <3>1. g[k] = v /\ k - 1 = n /\ g[n] = f[n]
      BY <1>4, <1>6, <2>1
    <3> QED BY <2>1, <3>1 DEF v
  <2>2. CASE k # n + 1
    <3>1. k \in 1 .. n /\ k - 1 \in 0 .. n /\ k \in 0 .. n
      BY <2>2
    <3>2. g[k] = f[k] /\ g[k - 1] = f[k - 1]
      BY <1>6, <3>1
    <3>3. f[k] = StartOf(f[k - 1], RecLen(Names[k])) + RecLen(Names[k])
      BY <3>1 DEF Totals
    <3> QED BY <3>2, <3>3
  <2> QED BY <2>1, <2>2
<1>9. ASSUME NEW j \in 0 .. n + 1, NEW k \in 0 .. n + 1, j < k
      PROVE  g[j] < g[k]
  <2>1. j \in 0 .. n /\ g[j] = f[j] /\ f[j] \in Nat
    BY <1>6, <1>9 DEF Totals
  <2>2. CASE k = n + 1
    <3>1. j = n \/ f[j] < f[n]
      BY <1>9, <2>1, <2>2 DEF Totals
    <3> QED BY <1>2, <1>5, <1>6, <2>1, <2>2, <3>1
  <2>3. CASE k # n + 1
    <3>1. k \in 0 .. n /\ g[k] = f[k]
      BY <1>6, <2>3
    <3> QED BY <1>9, <2>1, <3>1 DEF Totals
  <2> QED BY <2>2, <2>3
<1> QED BY <1>4, <1>6, <1>7, <1>8, <1>9 DEF Totals, v

\* dentry_size starts behind "." and "..".
LEMMA TotalsFirst ==
  ASSUME dir \in Directories, dir' = dir, dentries' \in Seq(Lengths)
  PROVE  \E f : Totals(f, 2)' /\ f[2] = 24
<1>1. PICK f : f = [k \in 0 .. 2 |-> 12 * k]
  OBVIOUS
<1>2. f \in [0 .. 2 -> Nat] /\ f[0] = 0 /\ f[1] = 12 /\ f[2] = 24
  BY <1>1
<1>3. Names'[1] = 1 /\ Names'[2] = 2 /\ RecLen(1) = 12 /\ RecLen(2) = 12
  BY DEF Names, RecLen
<1>4. StartOf(0, 12)' = 0 /\ StartOf(12, 12)' = 12
  <2>1. BlockSize \in Nat \ {0} /\ BlockSize >= 1024 /\ BlockSize' = BlockSize
    BY DirectoryFacts DEF BlockSize
  <2>2. 0 % BlockSize = 0 /\ 12 % BlockSize = 12
    <3>1. (0 * BlockSize + 0) % BlockSize = 0 /\ (0 * BlockSize + 12) % BlockSize = 12
      BY <2>1, Division
    <3> QED BY <2>1, <3>1
  <2> QED BY <2>1, <2>2 DEF StartOf
<1>5. ASSUME NEW k \in 1 .. 2
      PROVE  f[k] = StartOf(f[k - 1], RecLen(Names[k]))' + RecLen(Names[k])'
  <2>1. CASE k = 1
    BY <1>2, <1>3, <1>4, <2>1
  <2>2. CASE k = 2
    BY <1>2, <1>3, <1>4, <2>2
  <2> QED BY <2>1, <2>2
<1>6. \A j, k \in 0 .. 2 : j < k => f[j] < f[k]
  BY <1>1
<1>7. Totals(f, 2)'
  BY <1>2, <1>5, <1>6 DEF Totals
<1> QED BY <1>2, <1>7

-----------------------------------------------------------------------------
(* The invariant.                                                          *)

\* The size of the blocks is that of the sums, rounded up.
Sized(f) == Totals(f, Len(Names)) /\ len = BlocksFor(f[Len(Names)]) * BlockSize

SizeInv ==
  pc = "size" => /\ i \in 1 .. Len(dentries) + 1
                 /\ \E f : Totals(f, i + 1) /\ f[i + 1] = len

\* Record k reaches to x.
ReachesTo(k, x) == RealRecLen(k) >= recs[k].size /\ recs[k].at + RealRecLen(k) = x

\* The records up to end: none crosses a block, each reaches to the next, and
\* each block begins with one.
RecordsInv(end) ==
  /\ recs \in Seq(Record) /\ Len(recs) <= Len(Names)
  /\ \A k \in 1 .. Len(recs) :
       /\ recs[k].size \in RecordSizes
       /\ (recs[k].at % BlockSize) + recs[k].size <= BlockSize
       /\ recs[k].at + recs[k].size <= end
  /\ \A j, k \in 1 .. Len(recs) : j < k => recs[j].at < recs[k].at
  /\ \A k \in 1 .. Len(recs) - 1 : ReachesTo(k, recs[k + 1].at)
  /\ \A b \in Nat : b * BlockSize < end => At(b * BlockSize) # {}

\* The last record ends at offset and is not padded yet.
AtOffset(k) == recs[k].at + recs[k].size = offset /\ recs[k].rec_len = recs[k].size

AddInv ==
  pc = "add" =>
    /\ offset \in Nat /\ RecordsInv(offset)
    /\ IF recs = <<>> THEN offset = 0 ELSE AtOffset(Len(recs))
    /\ \E f : Sized(f) /\ offset = f[Len(recs)]

WalkInv ==
  pc \in {"walk", "walked"} =>
    /\ len \in Nat /\ RecordsInv(len) /\ Len(recs) = Len(Names) /\ ReachesTo(Len(recs), len)
    /\ count \in 0 .. Len(recs)
    /\ dirp = IF count < Len(recs) THEN recs[count + 1].at ELSE len
    /\ pc = "walked" => count = Len(recs)

PcInv ==
  /\ pc \in {"list", "listed", "size", "add", "walk", "walked"} \/ DirectoryEnded
  /\ pc \in {"list", "listed", "size"} => recs = <<>> /\ offset = 0
  /\ pc \in {"list", "listed", "size", "add"} => dirp = 0 /\ count = 0
  /\ pc = "failed" => ~dir.force /\ Unreadable # {}
  /\ pc = "astray" => dir.beside > 0 /\ count = Len(recs)
  /\ pc = "unread" => dir.beside > 0 /\ count = 0

DirectoryInv ==
  /\ dir \in Directories /\ dentries \in Seq(Lengths)
  /\ PcInv /\ SizeInv /\ AddInv /\ WalkInv

\* The records alone and the directory say how they lie.
LEMMA RecordsSame ==
  ASSUME dir' = dir, dentries' = dentries, recs' = recs
  PROVE  /\ \A x : RecordsInv(x)' <=> RecordsInv(x)
         /\ \A k, x : ReachesTo(k, x)' <=> ReachesTo(k, x)
         /\ Len(Names)' = Len(Names)
BY DEF Names, RecordsInv, ReachesTo, RealRecLen, WholeBlock64K, BlockSize, At

\* What is known of each record.
LEMMA RecordsAre ==
  ASSUME NEW end, RecordsInv(end)
  PROVE  /\ Len(recs) \in Nat /\ DOMAIN recs = 1 .. Len(recs)
         /\ \A k \in 1 .. Len(recs) :
              /\ recs[k] \in Record /\ recs[k].at \in Nat /\ recs[k].size \in RecordSizes
              /\ recs[k].rec_len \in Nat /\ recs[k].at + recs[k].size <= end
         /\ \A j, k \in 1 .. Len(recs) : recs[j].at = recs[k].at => j = k
<1>1. Len(recs) \in Nat /\ DOMAIN recs = 1 .. Len(recs)
  BY DEF RecordsInv
<1>2. ASSUME NEW k \in 1 .. Len(recs)
      PROVE  /\ recs[k] \in Record /\ recs[k].at \in Nat /\ recs[k].size \in RecordSizes
             /\ recs[k].rec_len \in Nat /\ recs[k].at + recs[k].size <= end
  <2>1. recs[k] \in Record
    BY <1>1 DEF RecordsInv
  <2> QED BY <2>1 DEF RecordsInv, Record
<1>3. ASSUME NEW j \in 1 .. Len(recs), NEW k \in 1 .. Len(recs), recs[j].at = recs[k].at
      PROVE  j = k
  <2>1. recs[j].at \in Nat
    BY <1>2
  <2>2. ~(j < k) /\ ~(k < j)
    BY <1>3, <2>1 DEF RecordsInv
  <2> QED BY <1>1, <2>2
<1> QED BY <1>1, <1>2, <1>3

\* The program starts with nothing listed.
LEMMA DirectoryStarts == DirectoryInit => DirectoryInv
BY DEF DirectoryInit, DirectoryInv, PcInv, SizeInv, AddInv, WalkInv

\* The names are listed, and "lost+found" may come before them.
LEMMA ListingStep ==
  ASSUME DirectoryInv, ListName \/ NameFails \/ EndList
  PROVE  DirectoryInv'
<1>1. /\ dir \in Directories /\ dir' = dir /\ dentries \in Seq(Lengths) /\ pc \in {"list", "listed"}
      /\ recs = <<>> /\ offset = 0 /\ dirp = 0 /\ count = 0
      /\ UNCHANGED <<recs, offset, dirp, count>>
  BY DEF DirectoryInv, PcInv, ListName, NameFails, EndList
<1>2. CASE ListName
  <2>1. Len(dentries) + 1 \in 1 .. Len(dir.names)
    BY <1>1, <1>2, DirectoryFacts DEF ListName
  <2>2. dir.names[Len(dentries) + 1].len \in Lengths
    BY <1>1, <2>1, DirectoryFacts
  <2>3. dentries' \in Seq(Lengths) /\ pc' = "list"
    BY <1>1, <1>2, <2>2 DEF ListName
  <2> QED BY <1>1, <2>3 DEF DirectoryInv, PcInv, SizeInv, AddInv, WalkInv, DirectoryEnded
<1>3. CASE NameFails
  <2>1. Len(dentries) + 1 \in 1 .. Len(dir.names) /\ ~dir.names[Len(dentries) + 1].readable
    BY <1>1, <1>3, DirectoryFacts DEF NameFails
  <2>2. Unreadable' # {}
    <3>1. DOMAIN dir.names = 1 .. Len(dir.names)
      BY <1>1, DirectoryFacts
    <3> QED BY <1>1, <2>1, <3>1 DEF Unreadable
  <2>3. dentries' = dentries /\ pc' \in {"listed", "freed", "failed"} /\ (pc' = "failed" => ~dir.force)
    BY <1>3 DEF NameFails
  <2> QED BY <1>1, <2>2, <2>3 DEF DirectoryInv, PcInv, SizeInv, AddInv, WalkInv, DirectoryEnded
<1>4. CASE EndList
  <2>1. dentries' \in Seq(Lengths)
    <3>1. <<LostFound>> \in Seq(Lengths) /\ <<>> \in Seq(Lengths)
      BY DEF LostFound, Lengths
    <3>2. Prefix \in Seq(Lengths)
      BY <3>1, Zenon DEF Prefix
    <3> QED BY <1>1, <1>4, <3>2 DEF EndList
  <2>2. len' = 24 /\ i' = 1 /\ pc' = "size" /\ Len(dentries') \in Nat
    BY <1>4, <2>1 DEF EndList
  <2>3. PICK f : Totals(f, 2)' /\ f[2] = 24
    BY <1>1, <2>1, TotalsFirst
  <2>4. i' + 1 = 2 /\ i' \in 1 .. Len(dentries') + 1
    BY <2>2
  <2>5. Totals(f, i + 1)' /\ f[i' + 1] = len'
    BY <2>2, <2>3, <2>4 DEF Totals
  <2> QED BY <1>1, <2>1, <2>2, <2>4, <2>5 DEF DirectoryInv, PcInv, SizeInv, AddInv, WalkInv, DirectoryEnded
<1> QED BY <1>2, <1>3, <1>4

\* dentry_size adds up.
LEMMA SizingStep ==
  ASSUME DirectoryInv, SizeDentry \/ EndSize
  PROVE  DirectoryInv'
<1>1. /\ dir \in Directories /\ dir' = dir /\ dentries \in Seq(Lengths) /\ pc = "size"
      /\ recs = <<>> /\ offset = 0 /\ dirp = 0 /\ count = 0
      /\ UNCHANGED <<dentries, recs, offset, dirp, count>>
      /\ i \in 1 .. Len(dentries) + 1 /\ Len(dentries) \in Nat /\ Len(Names) = Len(dentries) + 2
  BY NamesFacts DEF DirectoryInv, PcInv, SizeInv, SizeDentry, EndSize
<1>2. PICK f : Totals(f, i + 1) /\ f[i + 1] = len
  BY <1>1 DEF DirectoryInv, SizeInv
<1>3. CASE SizeDentry
  <2>1. i \in 1 .. Len(dentries) /\ i' = i + 1 /\ pc' = "size" /\ len' = StartOf(len, RecLen(dentries[i])) + RecLen(dentries[i])
    BY <1>1, <1>3 DEF SizeDentry
  <2>2. i + 1 \in Nat /\ i + 1 < Len(Names) /\ Names[(i + 1) + 1] = dentries[i]
    <3>1. Names[i + 2] = dentries[i] /\ (i + 1) + 1 = i + 2
      BY <1>1, <2>1, NamesFacts
    <3> QED BY <1>1, <2>1, <3>1
  <2>3. PICK g : Totals(g, (i + 1) + 1) /\ g[(i + 1) + 1] = len'
    BY <1>1, <1>2, <2>1, <2>2, TotalsNext
  <2>4. PICK m : m = (i + 1) + 1
    OBVIOUS
  <2>6. Totals(g, m)' /\ m = i' + 1 /\ g[m] = len'
    BY <1>1, <2>1, <2>3, <2>4, TotalsSame
  <2>5. i' \in 1 .. Len(dentries') + 1 /\ Totals(g, i + 1)' /\ g[i' + 1] = len'
    BY <1>1, <2>1, <2>6 DEF Totals
  <2> QED BY <1>1, <2>1, <2>5 DEF DirectoryInv, PcInv, SizeInv, AddInv, WalkInv, DirectoryEnded
<1>4. CASE EndSize
  <2>1. i + 1 = Len(Names) /\ pc' = "add" /\ len' = BlocksFor(len) * BlockSize
    BY <1>1, <1>4 DEF EndSize
  <2>2. Sized(f)'
    BY <1>1, <1>2, <2>1 DEF Sized, Totals, Names, StartOf, BlockSize, BlocksFor
  <2>3. RecordsInv(offset)' /\ f[Len(recs)] = 0
    <3>1. recs' = <<>> /\ offset' = 0 /\ Len(Names)' = Len(Names)
      BY <1>1 DEF Names
    <3>2. ASSUME NEW b \in Nat PROVE ~(b * BlockSize < 0)
      <4>1. BlockSize \in Nat
        BY <1>1, DirectoryFacts
      <4>2. b * BlockSize \in Nat
        BY <4>1
      <4> QED BY <4>2
    <3>3. BlockSize' = BlockSize
      BY <1>1 DEF BlockSize
    <3>4. f[Len(recs)] = 0
      BY <1>1, <1>2 DEF Totals
    <3> QED BY <1>1, <3>1, <3>2, <3>3, <3>4 DEF RecordsInv
  <2> QED BY <1>1, <2>1, <2>2, <2>3 DEF DirectoryInv, PcInv, SizeInv, AddInv, WalkInv, DirectoryEnded
<1> QED BY <1>3, <1>4

\* The walk follows the records.
LEMMA WalkingStep ==
  ASSUME DirectoryInv, ReadFails \/ WalkRecord \/ WalkBehind \/ WalkEnds
  PROVE  DirectoryInv'
<1> DEFINE n == Len(recs)
<1>1. /\ dir \in Directories /\ dentries \in Seq(Lengths) /\ pc = "walk"
      /\ UNCHANGED <<dir, dentries, len, i, offset, recs>>
  BY DEF DirectoryInv, ReadFails, WalkRecord, WalkBehind, WalkEnds, Going
<1>2. len \in Nat /\ count \in 0 .. n /\ dirp = IF count < n THEN recs[count + 1].at ELSE len
  BY <1>1 DEF DirectoryInv, WalkInv
<1>11. RecordsInv(len) /\ n = Len(Names) /\ ReachesTo(n, len)
  BY <1>1 DEF DirectoryInv, WalkInv
<1>3. n \in Nat /\ DOMAIN recs = 1 .. n
  BY <1>11, RecordsAre
<1>9. ASSUME NEW k \in 1 .. n PROVE recs[k].at \in Nat /\ recs[k].at + 12 <= len
  <2>1. recs[k].at \in Nat /\ recs[k].size \in RecordSizes /\ recs[k].at + recs[k].size <= len
    BY <1>11, RecordsAre
  <2>2. recs[k].size \in Nat /\ recs[k].size >= 12 /\ len \in Nat
    BY <1>2, <2>1, SizesAre
  <2>3. \A x, y, z \in Nat : y >= 12 /\ x + y <= z => x + 12 <= z
    OBVIOUS
  <2> QED BY <2>1, <2>2, <2>3
<1>4. DirSize \in Nat /\ DirSize >= len /\ (DirSize > len => dir.beside > 0)
  <2>1. dir.beside = 0 \/ dir.beside = 1
    BY <1>1, DirectoryFacts
  <2>2. BlockSize \in Nat
    BY <1>1, DirectoryFacts
  <2>3. CASE dir.beside = 0
    BY <1>2, <2>2, <2>3 DEF DirSize
  <2>4. CASE dir.beside = 1
    BY <1>2, <2>2, <2>4 DEF DirSize
  <2> QED BY <2>1, <2>3, <2>4
<1>5. /\ RecordsInv(len)' /\ (Len(recs) = Len(Names))' /\ ReachesTo(Len(recs), len)'
      /\ len' \in Nat /\ Len(recs)' = n
  <2>1. PICK e, m : e = len /\ m = n
    OBVIOUS
  <2>2. RecordsInv(e)' /\ ReachesTo(m, e)' /\ e = len' /\ m = Len(recs') /\ Len(Names)' = m
    BY <1>1, <1>11, <2>1, RecordsSame
  <2>3. RecordsInv(len)'
    BY <2>2 DEF RecordsInv
  <2>4. ReachesTo(Len(recs), len)'
    BY <2>2 DEF ReachesTo, RealRecLen, WholeBlock64K
  <2> QED BY <1>1, <1>2, <2>1, <2>2, <2>3, <2>4
<1>10. Len(recs) = n
  OBVIOUS
<1> HIDE DEF n
<1>6. CASE WalkRecord
  <2>1. PICK k \in At(dirp) : recs[k].rec_len > 0 /\ dirp' = dirp + recs[k].rec_len
    BY <1>6 DEF WalkRecord
  <2>2. k \in 1 .. n /\ recs[k].at = dirp
    BY <1>3, <2>1 DEF At
  <2>3. count < n
    BY <1>2, <1>3, <1>9, <2>2
  <2>4. k = count + 1
    <3>1. recs[count + 1].at = recs[k].at /\ count + 1 \in 1 .. n
      BY <1>2, <1>3, <2>2, <2>3
    <3> QED BY <1>10, <1>11, <2>2, <3>1, RecordsAre
  <2>5. recs[k].at + recs[k].rec_len = IF k < n THEN recs[k + 1].at ELSE len
    <3>1. RealRecLen(k) = recs[k].rec_len
      BY <2>1 DEF RealRecLen, WholeBlock64K
    <3>2. ReachesTo(k, IF k < n THEN recs[k + 1].at ELSE len)
      <4>1. CASE k < n
        <5>1. k \in 1 .. n - 1
          BY <1>3, <2>2, <4>1
        <5> QED BY <1>10, <1>11, <4>1, <5>1 DEF RecordsInv
      <4>2. CASE ~(k < n)
        <5>1. k = n
          BY <1>3, <2>2, <4>2
        <5> QED BY <1>11, <4>2, <5>1
      <4> QED BY <4>1, <4>2
    <3> QED BY <3>1, <3>2 DEF ReachesTo
  <2>6. count' = count + 1 /\ pc' = "walk"
    BY <1>1, <1>6 DEF WalkRecord
  <2>7. count' \in 0 .. n /\ dirp' = IF count' < n THEN recs[count' + 1].at ELSE len
    BY <1>2, <1>3, <2>1, <2>2, <2>3, <2>4, <2>5, <2>6
  <2> QED BY <1>1, <1>5, <1>10, <2>6, <2>7 DEF DirectoryInv, PcInv, SizeInv, AddInv, WalkInv, DirectoryEnded
<1>7. CASE WalkBehind
  <2>1. dirp = len /\ dirp < DirSize /\ pc' \in {"walked", "astray"} /\ UNCHANGED <<dirp, count>>
    BY <1>7 DEF WalkBehind, Going
  <2>2. count = n
    <3>1. CASE count < n
      <4>1. count + 1 \in 1 .. n /\ recs[count + 1].at = len
        BY <1>2, <1>3, <2>1, <3>1
      <4> QED BY <1>2, <1>9, <4>1
    <3> QED BY <1>2, <1>3, <3>1
  <2>3. dir.beside > 0
    BY <1>4, <2>1
  <2> QED BY <1>1, <1>2, <1>3, <1>5, <1>10, <2>1, <2>2, <2>3 DEF DirectoryInv, PcInv, SizeInv, AddInv, WalkInv, DirectoryEnded
<1>8. CASE WalkEnds
  <2>1. ~Going /\ pc' = "walked" /\ UNCHANGED <<dirp, count>>
    BY <1>8 DEF WalkEnds
  <2>2. count = n
    <3>1. CASE count < n
      <4>1. count + 1 \in 1 .. n /\ dirp = recs[count + 1].at
        BY <1>2, <1>3, <3>1
      <4>2. dirp \in Nat /\ dirp + 12 <= len
        BY <1>9, <4>1
      <4>3. dirp < DirSize /\ DirSize - dirp > 8
        BY <1>2, <1>4, <4>2
      <4> QED BY <1>1, <2>1, <4>3 DEF Going, ShortTail
    <3> QED BY <1>2, <1>3, <3>1
  <2> QED BY <1>1, <1>2, <1>3, <1>5, <1>10, <2>1, <2>2 DEF DirectoryInv, PcInv, SizeInv, AddInv, WalkInv, DirectoryEnded
<1>12. CASE ReadFails
  <2>1. dirp = 0 /\ DirSize > len /\ pc' = "unread" /\ UNCHANGED <<dirp, count>>
    BY <1>12 DEF ReadFails
  <2>2. count = 0
    <3>1. CASE count = n
      <4>1. n \in 1 .. n /\ dirp = len
        BY <1>1, <1>2, <1>3, <1>11, <3>1, NamesFacts
      <4> QED BY <1>2, <1>9, <2>1, <4>1
    <3>2. CASE count < n /\ count # 0
      <4>1. 1 \in 1 .. n /\ count + 1 \in 1 .. n /\ 1 < count + 1 /\ recs[count + 1].at = 0
        BY <1>2, <1>3, <2>1, <3>2
      <4>2. recs[1].at < recs[count + 1].at /\ recs[1].at \in Nat
        BY <1>9, <1>10, <1>11, <4>1 DEF RecordsInv
      <4> QED BY <4>1, <4>2
    <3> QED BY <1>2, <1>3, <3>1, <3>2
  <2>3. dir.beside > 0
    BY <1>4, <2>1
  <2> QED BY <1>1, <2>1, <2>2, <2>3 DEF DirectoryInv, PcInv, SizeInv, AddInv, WalkInv, DirectoryEnded
<1> QED BY <1>6, <1>7, <1>8, <1>12

\* Blocks begin where a record ends or where one starts: b is a block that
\* begins in the s bytes after o, or in the rest left over before them.
LEMMA BlockBegins ==
  ASSUME dir \in Directories, NEW o \in Nat, NEW s \in RecordSizes, NEW b \in Nat,
         o <= b * BlockSize, b * BlockSize < StartOf(o, s) + s
  PROVE  b * BlockSize = StartOf(o, s)
<1> DEFINE n == BlockSize
           q == o \div n
           r == o % n
           st == StartOf(o, s)
<1>1. n \in Nat \ {0} /\ s \in Nat /\ s >= 12 /\ n >= 1024 /\ s <= 264
  BY DirectoryFacts, SizesAre
<1>2. q \in Nat /\ r \in 0 .. n - 1 /\ o = q * n + r /\ q * n \in Nat
  BY <1>1, DivMod, Zenon
<1>3. /\ st \in Nat /\ st >= o /\ st < o + n
      /\ (st % n) + s <= n
      /\ st # o => r > 0 /\ st = (o - r) + n
  BY StartOfIs
<1>4. o <= b * n /\ b * n < st + s
  OBVIOUS
<1>5. s \in 1 .. n
  BY <1>1
<1>6. st = o => r + s <= n
  BY <1>3
<1> HIDE DEF n, q, r, st
<1>7. b <= q + 1
  <2>1. CASE b >= q + 2
    <3>1. b * n >= (q + 2) * n /\ (q + 2) * n = q * n + 2 * n
      BY <1>1, <1>2, <2>1
    <3>2. st + s <= q * n + 2 * n
      <4>1. CASE st = o
        BY <1>1, <1>2, <1>5, <4>1
      <4>2. CASE st # o
        BY <1>1, <1>2, <1>3, <1>5, <4>2
      <4> QED BY <4>1, <4>2
    <3>3. b * n \in Nat
      BY <1>1
    <3> QED BY <1>1, <1>2, <1>3, <1>4, <3>1, <3>2, <3>3
  <2> QED BY <1>2, <2>1
<1>8. CASE b = q + 1
  <2>1. b * n = q * n + n
    BY <1>1, <1>2, <1>8
  <2>2. st # o
    BY <1>1, <1>2, <1>4, <1>6, <2>1
  <2> QED BY <1>2, <1>3, <2>1, <2>2 DEF n, st
<1>9. CASE b = q
  <2>1. r = 0 /\ b * n = o
    BY <1>1, <1>2, <1>4, <1>9
  <2>2. st = o
    BY <1>3, <2>1
  <2> QED BY <2>1, <2>2 DEF n, st
<1>10. CASE b < q
  <2>1. q - b \in Nat /\ q - b >= 1
    BY <1>2, <1>10
  <2>2. (q - b) * n >= n /\ q * n = b * n + (q - b) * n
    BY <1>1, <1>2, <2>1
  <2>3. b * n \in Nat /\ b * n < o
    BY <1>1, <1>2, <2>2
  <2> QED BY <1>2, <1>4, <2>3
<1> QED BY <1>2, <1>7, <1>8, <1>9, <1>10

\* A record gets another rec_len.
LEMMA Repadded ==
  ASSUME NEW rs \in Seq(Record), NEW n \in 1 .. Len(rs), NEW v \in Nat
  PROVE  LET ps == [rs EXCEPT ![n].rec_len = v]
         IN  /\ ps \in Seq(Record) /\ Len(ps) = Len(rs) /\ ps[n].rec_len = v
             /\ \A k \in 1 .. Len(rs) : ps[k].at = rs[k].at /\ ps[k].size = rs[k].size
             /\ \A k \in 1 .. Len(rs) : k # n => ps[k].rec_len = rs[k].rec_len
<1>1. PICK r : r = [rs[n] EXCEPT !.rec_len = v]
  OBVIOUS
<1>2. rs[n] \in Record
  OBVIOUS
<1>3. r \in Record /\ r.at = rs[n].at /\ r.size = rs[n].size /\ r.rec_len = v
  BY <1>1, <1>2 DEF Record
<1>4. PICK ps : ps = [rs EXCEPT ![n] = r]
  OBVIOUS
<1>5. ps \in Seq(Record) /\ Len(ps) = Len(rs)
  BY <1>3, <1>4
<1>6. ps[n] = r /\ \A k \in 1 .. Len(rs) : k # n => ps[k] = rs[k]
  BY <1>4
<1>7. ps = [rs EXCEPT ![n].rec_len = v]
  BY <1>1, <1>4
<1> QED BY <1>3, <1>5, <1>6, <1>7

\* add_dentry: the record before is padded up to the new one.
LEMMA AddedRecord ==
  ASSUME DirectoryInv, AddDentry
  PROVE  LET n == Len(recs)
             size == RecLen(Names[n + 1])
             start == StartOf(offset, size)
         IN  /\ recs' \in Seq(Record) /\ Len(recs') = n + 1
             /\ recs'[n + 1] = [at |-> start, size |-> size, rec_len |-> size]
             /\ \A k \in 1 .. n : recs'[k].at = recs[k].at /\ recs'[k].size = recs[k].size
             /\ \A k \in 1 .. n - 1 : recs'[k].rec_len = recs[k].rec_len
             /\ n > 0 => recs'[n].rec_len = U16(start - recs[n].at)
             /\ offset' = start + size
<1> DEFINE n == Len(recs)
           size == RecLen(Names[n + 1])
           end_block == (offset + size - 1) \div BlockSize
           crosses == offset \div BlockSize # end_block
           start == StartOf(offset, size)
           before == IF crosses THEN Padded(recs, start - offset) ELSE recs
<1>1. /\ dir \in Directories /\ dentries \in Seq(Lengths) /\ pc = "add"
      /\ offset \in Nat /\ RecordsInv(offset)
      /\ IF recs = <<>> THEN offset = 0 ELSE AtOffset(Len(recs))
  BY DEF DirectoryInv, AddInv, AddDentry
<1>2. n \in Nat /\ recs \in Seq(Record)
  BY <1>1, RecordsAre DEF RecordsInv
<1>3. size \in RecordSizes
  <2>1. n + 1 \in 1 .. Len(Names)
    BY <1>1, <1>2, NamesFacts DEF AddDentry
  <2> QED BY <1>1, <2>1, NamesFacts
<1>4. /\ start \in Nat /\ start >= offset
      /\ start = IF crosses THEN end_block * BlockSize ELSE offset
      /\ crosses <=> start # offset
      /\ start # offset => offset % BlockSize > 0
  BY <1>1, <1>3, StartOfIs
<1>5. size \in Nat /\ U16(size) = size
  BY <1>3, SizesAre DEF U16
<1>6. /\ recs' = Append(before, [at |-> start, size |-> size, rec_len |-> U16(size)])
      /\ offset' = start + size
  BY <1>4 DEF AddDentry
<1> HIDE DEF size, start, end_block, crosses
<1>7. /\ before \in Seq(Record) /\ Len(before) = n
      /\ \A k \in 1 .. n : before[k].at = recs[k].at /\ before[k].size = recs[k].size
      /\ \A k \in 1 .. n - 1 : before[k].rec_len = recs[k].rec_len
      /\ n > 0 => before[n].rec_len = U16(start - recs[n].at)
  <2>1. CASE n = 0
    <3>1. recs = <<>> /\ offset = 0
      BY <1>1, <1>2, <2>1
    <3>2. 0 % BlockSize = 0
      <4>1. BlockSize \in Nat \ {0}
        BY <1>1, DirectoryFacts
      <4>2. (0 * BlockSize + 0) % BlockSize = 0
        BY <4>1, Division
      <4> QED BY <4>1, <4>2
    <3>3. ~crosses
      BY <1>4, <3>1, <3>2
    <3> QED BY <1>2, <2>1, <3>3
  <2>2. CASE n > 0
    <3>1. n \in 1 .. n /\ recs # <<>>
      BY <1>2, <2>2
    <3>2. recs[n].at + recs[n].size = offset /\ recs[n].rec_len = recs[n].size
      BY <1>1, <3>1 DEF AtOffset
    <3>3. recs[n].at \in Nat /\ recs[n].size \in RecordSizes /\ recs[n] \in Record
      BY <1>1, <3>1, RecordsAre
    <3>4. recs[n].size \in Nat /\ recs[n].size <= 264 /\ U16(recs[n].size) = recs[n].size
      BY <3>3, SizesAre DEF U16
    <3>5. CASE crosses
      <4>1. before = [recs EXCEPT ![n].rec_len = U16(recs[n].rec_len + (start - offset))]
        BY <3>5 DEF Padded
      <4>2. recs[n].rec_len + (start - offset) = start - recs[n].at
        BY <1>1, <1>4, <3>2, <3>3, <3>4
      <4>3. U16(start - recs[n].at) \in Nat
        BY <1>4, <3>3 DEF U16
      <4>4. PICK v \in Nat : v = U16(start - recs[n].at)
        BY <4>3
      <4>5. before = [recs EXCEPT ![n].rec_len = v]
        BY <4>1, <4>2, <4>4
      <4> HIDE DEF before
      <4>6. /\ before \in Seq(Record) /\ Len(before) = n /\ before[n].rec_len = v
            /\ \A k \in 1 .. n : before[k].at = recs[k].at /\ before[k].size = recs[k].size
            /\ \A k \in 1 .. n : k # n => before[k].rec_len = recs[k].rec_len
        BY <1>2, <3>1, <4>5, Repadded
      <4>7. \A k \in 1 .. n - 1 : k \in 1 .. n /\ k # n
        BY <1>2
      <4> QED BY <4>4, <4>6, <4>7
    <3>6. CASE ~crosses
      <4>1. before = recs /\ start = offset
        BY <1>4, <3>6
      <4>2. start - recs[n].at = recs[n].size
        BY <1>1, <3>2, <3>3, <3>4, <4>1
      <4> QED BY <1>2, <3>2, <3>4, <4>1, <4>2
    <3> QED BY <3>5, <3>6
  <2> QED BY <1>2, <2>1, <2>2
<1> HIDE DEF before
<1>8. [at |-> start, size |-> size, rec_len |-> size] \in Record
  BY <1>4, <1>5 DEF Record
<1>9. /\ recs' \in Seq(Record) /\ Len(recs') = n + 1
      /\ recs'[n + 1] = [at |-> start, size |-> size, rec_len |-> size]
      /\ \A k \in 1 .. n : recs'[k] = before[k]
  BY <1>2, <1>5, <1>6, <1>7, <1>8
<1>10. \A k \in 1 .. n - 1 : k \in 1 .. n
  BY <1>2
<1>11. n > 0 => n \in 1 .. n
  BY <1>2
<1> QED BY <1>6, <1>7, <1>9, <1>10, <1>11 DEF size, start

LEMMA AddingStep ==
  ASSUME DirectoryInv, AddDentry
  PROVE  DirectoryInv'
<1> DEFINE n == Len(recs)
           size == RecLen(Names[n + 1])
           start == StartOf(offset, size)
<1>1. /\ dir \in Directories /\ dentries \in Seq(Lengths) /\ pc = "add" /\ n < Len(Names)
      /\ offset \in Nat /\ RecordsInv(offset) /\ dirp = 0 /\ count = 0
      /\ IF recs = <<>> THEN offset = 0 ELSE AtOffset(n)
      /\ UNCHANGED <<dir, dentries, len, i, dirp, count>>
  BY DEF DirectoryInv, AddInv, PcInv, AddDentry
<1>2. PICK f : Sized(f) /\ offset = f[n]
  BY <1>1 DEF DirectoryInv, AddInv
<1>3. /\ n \in Nat /\ Len(Names) \in Nat /\ Names' = Names /\ BlockSize' = BlockSize
      /\ BlockSize \in Nat /\ BlockSize >= 1024 /\ BlockSize <= 65536
  BY <1>1, RecordsAre, NamesFacts, DirectoryFacts DEF Names, BlockSize
<1>4. /\ recs' \in Seq(Record) /\ Len(recs') = n + 1
      /\ recs'[n + 1] = [at |-> start, size |-> size, rec_len |-> size]
      /\ \A k \in 1 .. n : recs'[k].at = recs[k].at /\ recs'[k].size = recs[k].size
      /\ \A k \in 1 .. n - 1 : recs'[k].rec_len = recs[k].rec_len
      /\ n > 0 => recs'[n].rec_len = U16(start - recs[n].at)
      /\ offset' = start + size
  BY AddedRecord
<1>5. size \in RecordSizes /\ size \in Nat /\ size >= 12
  <2>1. n + 1 \in 1 .. Len(Names)
    BY <1>1, <1>3
  <2> QED BY <1>1, <2>1, NamesFacts, SizesAre
<1>6. start \in Nat /\ start >= offset /\ (start % BlockSize) + size <= BlockSize
  BY <1>1, <1>5, StartOfIs
<1>7. \A k \in 1 .. n : /\ recs[k].at \in Nat /\ recs[k].size \in RecordSizes
                        /\ recs[k].at + recs[k].size <= offset
  BY <1>1, RecordsAre
<1>8. recs'[n + 1].at = start /\ recs'[n + 1].size = size /\ recs'[n + 1].rec_len = size
  BY <1>4
<1>9. f[n + 1] = offset' /\ Totals(f, Len(Names))
  <2>1. n + 1 \in 1 .. Len(Names) /\ (n + 1) - 1 = n
    BY <1>1, <1>3
  <2> QED BY <1>2, <1>4, <2>1 DEF Sized, Totals
<1> HIDE DEF n, size, start
<1>10. \A k \in 1 .. n : recs[k].at < start
  <2>1. ASSUME NEW k \in 1 .. n PROVE recs[k].at < start
    <3>1. recs[k].size \in Nat /\ recs[k].size >= 12
      BY <1>7, SizesAre
    <3> QED BY <1>1, <1>6, <1>7, <3>1
  <2> QED BY <2>1
<1>11. RecordsInv(offset)'
  <2>1. recs' \in Seq(Record) /\ Len(recs') <= Len(Names')
    BY <1>1, <1>3, <1>4
  <2>2. ASSUME NEW k \in 1 .. n + 1
        PROVE  /\ recs'[k].size \in RecordSizes
               /\ (recs'[k].at % BlockSize) + recs'[k].size <= BlockSize
               /\ recs'[k].at + recs'[k].size <= offset'
    <3>1. CASE k = n + 1
      BY <1>4, <1>5, <1>6, <1>8, <3>1
    <3>2. CASE k # n + 1
      <4>1. k \in 1 .. n
        BY <1>3, <3>2
      <4>2. recs'[k].at = recs[k].at /\ recs'[k].size = recs[k].size
        BY <1>4, <4>1
      <4>3. recs[k].size \in Nat
        BY <1>7, <4>1, SizesAre
      <4>4. recs[k].at + recs[k].size <= offset'
        BY <1>1, <1>4, <1>5, <1>6, <1>7, <4>1, <4>3
      <4>5. (recs[k].at % BlockSize) + recs[k].size <= BlockSize
        BY <1>1, <4>1 DEF RecordsInv, n
      <4> QED BY <1>7, <4>1, <4>2, <4>4, <4>5
    <3> QED BY <3>1, <3>2
  <2>3. ASSUME NEW j \in 1 .. n + 1, NEW k \in 1 .. n + 1, j < k
        PROVE  recs'[j].at < recs'[k].at
    <3>1. j \in 1 .. n /\ recs'[j].at = recs[j].at
      BY <1>3, <1>4, <2>3
    <3>2. CASE k = n + 1
      BY <1>8, <1>10, <3>1, <3>2
    <3>3. CASE k # n + 1
      <4>1. k \in 1 .. n /\ recs'[k].at = recs[k].at
        BY <1>3, <1>4, <3>3
      <4> QED BY <1>1, <2>3, <3>1, <4>1 DEF RecordsInv, n
    <3> QED BY <3>2, <3>3
  <2>4. ASSUME NEW k \in 1 .. n PROVE ReachesTo(k, recs[k + 1].at)'
    <3>1. recs'[k].at = recs[k].at /\ recs'[k].size = recs[k].size
      BY <1>4
    <3>2. CASE k = n
      <4>1. recs # <<>> /\ n > 0
        BY <1>3, <3>2 DEF n
      <4>2. /\ recs[k].at \in Nat /\ recs[k].size \in RecordSizes
            /\ recs[k].at + recs[k].size = offset
            /\ (recs[k].at % BlockSize) + recs[k].size <= BlockSize
        BY <1>1, <1>7, <3>2, <4>1 DEF AtOffset, RecordsInv, n
      <4>3. start - recs[k].at \in recs[k].size .. BlockSize
        BY <1>1, <1>5, <4>2, NextWithinBlock DEF start
      <4>4. PICK x : x = start - recs[k].at
        OBVIOUS
      <4>5. recs[k].size \in Nat /\ recs[k].size >= 12
        BY <4>2, SizesAre
      <4>6. x \in Nat /\ x >= recs[k].size /\ x <= BlockSize /\ recs[k].at + x = start
        <5>1. recs[k].at \in Nat /\ recs[k].size \in Nat /\ start \in Nat /\ BlockSize \in Nat
          BY <1>3, <1>6, <4>2, <4>5
        <5> QED BY <4>3, <4>4, <5>1, Apart
      <4>7. recs'[k].rec_len = U16(x)
        BY <1>4, <3>2, <4>1, <4>4
      <4>8. (IF BlockSize = 65536 /\ recs'[k].rec_len = 0 THEN 65536 ELSE recs'[k].rec_len) = x
        BY <1>3, <4>5, <4>6, <4>7, StoredDistance
      <4>9. RealRecLen(k)' = x
        BY <1>3, <4>8 DEF RealRecLen, WholeBlock64K
      <4> QED BY <1>8, <3>1, <3>2, <4>6, <4>9 DEF ReachesTo
    <3>3. CASE k # n
      <4>1. k \in 1 .. n - 1 /\ k + 1 \in 1 .. n
        BY <1>3, <3>3
      <4>2. ReachesTo(k, recs[k + 1].at)
        BY <1>1, <4>1 DEF RecordsInv, n
      <4>3. recs'[k].rec_len = recs[k].rec_len /\ recs'[k + 1].at = recs[k + 1].at
        BY <1>4, <4>1
      <4>4. RealRecLen(k)' = RealRecLen(k)
        BY <1>3, <4>3 DEF RealRecLen, WholeBlock64K
      <4> QED BY <3>1, <4>2, <4>3, <4>4 DEF ReachesTo
    <3> QED BY <3>2, <3>3
  <2>5. ASSUME NEW b \in Nat, b * BlockSize < offset'
        PROVE  At(b * BlockSize)' # {}
    <3>1. DOMAIN recs' = 1 .. n + 1
      BY <1>4
    <3>2. CASE b * BlockSize < offset
      <4>1. PICK k : k \in At(b * BlockSize)
        BY <1>1, <3>2 DEF RecordsInv
      <4>2. k \in 1 .. n /\ recs[k].at = b * BlockSize
        BY <1>1, <4>1, RecordsAre DEF At, n
      <4>3. k \in DOMAIN recs' /\ recs'[k].at = b * BlockSize
        BY <1>3, <1>4, <3>1, <4>2
      <4> QED BY <1>3, <4>3 DEF At
    <3>3. CASE ~(b * BlockSize < offset)
      <4>1. b * BlockSize \in Nat
        BY <1>3
      <4>2. offset <= b * BlockSize /\ b * BlockSize < StartOf(offset, size) + size
        BY <1>1, <1>4, <2>5, <3>3, <4>1 DEF start
      <4>3. b * BlockSize = start
        BY <1>1, <1>5, <4>2, BlockBegins DEF start
      <4>4. n + 1 \in DOMAIN recs' /\ recs'[n + 1].at = b * BlockSize
        BY <1>3, <1>8, <3>1, <4>3
      <4> QED BY <1>3, <4>4 DEF At
    <3> QED BY <3>2, <3>3
  <2>6. Len(recs') = n + 1 /\ (n + 1) - 1 = n
    BY <1>3, <1>4
  <2>7. \A k \in 1 .. Len(recs') : /\ recs'[k].size \in RecordSizes
                                    /\ (recs'[k].at % BlockSize') + recs'[k].size <= BlockSize'
                                    /\ recs'[k].at + recs'[k].size <= offset'
    BY <1>3, <2>2, <2>6
  <2>8. \A j, k \in 1 .. Len(recs') : j < k => recs'[j].at < recs'[k].at
    BY <2>3, <2>6
  <2>9. \A k \in 1 .. Len(recs') - 1 : ReachesTo(k, recs[k + 1].at)'
    BY <2>4, <2>6
  <2>10. \A b \in Nat : b * BlockSize' < offset' => At(b * BlockSize)' # {}
    BY <1>3, <2>5
  <2> QED BY <2>1, <2>7, <2>8, <2>9, <2>10 DEF RecordsInv
<1>12. AtOffset(Len(recs))' /\ recs' # <<>>
  <2>1. recs'[n + 1].at + recs'[n + 1].size = offset' /\ recs'[n + 1].rec_len = recs'[n + 1].size
    BY <1>4, <1>8
  <2>2. recs' # <<>>
    BY <1>3, <1>4
  <2> QED BY <1>4, <2>1, <2>2 DEF AtOffset
<1>13. Sized(f)' /\ offset' = f[Len(recs')] /\ offset' \in Nat
  <2>1. Sized(f)'
    <3>1. Totals(f, Len(Names))'
      <4>1. PICK m : m = Len(Names)
        OBVIOUS
      <4>2. Totals(f, m)' /\ m = Len(Names')
        BY <1>1, <1>3, <1>9, <4>1, TotalsSame
      <4> QED BY <4>2 DEF Totals
    <3>2. len' = BlocksFor(f[Len(Names)])' * BlockSize'
      BY <1>1, <1>2, <1>3 DEF Sized, BlocksFor
    <3> QED BY <3>1, <3>2 DEF Sized
  <2> QED BY <1>4, <1>5, <1>6, <1>9, <2>1
<1>14. pc' = "add"
  <2>1. f[Len(Names)] \in Nat /\ f[n + 1] \in Nat
    <3>1. n + 1 \in 0 .. Len(Names) /\ Len(Names) \in 0 .. Len(Names)
      BY <1>1, <1>3 DEF n
    <3> QED BY <1>9, <3>1 DEF Totals
  <2>2. f[n + 1] < f[Len(Names)] \/ n + 1 = Len(Names)
    <3>1. n + 1 \in 0 .. Len(Names) /\ Len(Names) \in 0 .. Len(Names) /\ (n + 1 < Len(Names) \/ n + 1 = Len(Names))
      BY <1>1, <1>3 DEF n
    <3> QED BY <1>9, <3>1 DEF Totals
  <2>3. len \in Nat /\ f[Len(Names)] <= len
    <3>1. BlockSize \in Nat \ {0}
      BY <1>3
    <3>2. PICK o \in Nat : o = f[Len(Names)]
      BY <2>1
    <3>3. /\ ((o + BlockSize - 1) \div BlockSize) * BlockSize \in Nat
          /\ ((o + BlockSize - 1) \div BlockSize) * BlockSize
               = IF o % BlockSize = 0 THEN o ELSE (o - (o % BlockSize)) + BlockSize
      BY <3>1, RoundedUp
    <3>4. o % BlockSize \in 0 .. BlockSize - 1
      BY <3>1, Remainder
    <3>5. len = ((o + BlockSize - 1) \div BlockSize) * BlockSize
      BY <1>2, <3>2 DEF Sized, BlocksFor
    <3>6. o <= len
      BY <1>3, <3>3, <3>4, <3>5
    <3> QED BY <3>2, <3>3, <3>5, <3>6
  <2>4. ~(offset' > len) /\ (offset' = len => n + 1 = Len(Names))
    BY <1>9, <2>1, <2>2, <2>3
  <2>5. pc' = IF Len(recs) >= 2 /\ (offset' > len \/ (offset' = len /\ Len(recs') < Len(Names)))
              THEN "failed" ELSE "add"
    BY DEF AddDentry
  <2>6. ~(Len(recs') < Len(Names)) \/ offset' # len
    BY <1>3, <1>4, <2>4
  <2> QED BY <2>4, <2>5, <2>6
<1> QED BY <1>1, <1>11, <1>12, <1>13, <1>14 DEF DirectoryInv, PcInv, SizeInv, AddInv, WalkInv, DirectoryEnded

\* The last record is padded to the end of the blocks.
LEMMA PaddingStep ==
  ASSUME DirectoryInv, PadLast
  PROVE  DirectoryInv'
<1> DEFINE n == Len(recs)
<1>1. /\ dir \in Directories /\ dentries \in Seq(Lengths) /\ pc = "add" /\ n = Len(Names)
      /\ offset \in Nat /\ RecordsInv(offset) /\ dirp = 0 /\ count = 0
      /\ IF recs = <<>> THEN offset = 0 ELSE AtOffset(n)
      /\ UNCHANGED <<dir, dentries, len, i, dirp, count>> /\ pc' = "walk"
  BY DEF DirectoryInv, AddInv, PcInv, PadLast
<1>2. PICK f : Sized(f) /\ offset = f[n]
  BY <1>1 DEF DirectoryInv, AddInv
<1>3. /\ n \in Nat /\ n >= 2 /\ n \in 1 .. n /\ 1 \in 1 .. n /\ Names' = Names /\ BlockSize' = BlockSize
      /\ BlockSize \in Nat /\ BlockSize >= 1024 /\ BlockSize <= 65536
  BY <1>1, RecordsAre, NamesFacts, DirectoryFacts DEF Names, BlockSize
<1>4. \A k \in 1 .. n : /\ recs[k].at \in Nat /\ recs[k].size \in RecordSizes /\ recs[k] \in Record
                        /\ recs[k].at + recs[k].size <= offset
  BY <1>1, RecordsAre
<1>5. len = BlocksFor(offset) * BlockSize
  BY <1>1, <1>2 DEF Sized
<1>6. /\ len \in Nat
      /\ len = IF offset % BlockSize = 0 THEN offset ELSE (offset - (offset % BlockSize)) + BlockSize
      /\ offset % BlockSize \in 0 .. BlockSize - 1
  <2>1. BlockSize \in Nat \ {0}
    BY <1>3
  <2> QED BY <1>1, <1>5, <2>1, RoundedUp, Remainder DEF BlocksFor
<1>7. offset <= len
  BY <1>1, <1>3, <1>6
<1>8. recs # <<>> /\ recs[n].at + recs[n].size = offset /\ recs[n].rec_len = recs[n].size
  BY <1>1, <1>3 DEF AtOffset
<1>9. PICK x : x = len - recs[n].at
  OBVIOUS
<1>10. /\ x \in Nat /\ x >= recs[n].size /\ x >= 12 /\ x <= BlockSize /\ recs[n].at + x = len
       /\ recs[n].rec_len + (len - offset) = x
  <2>1. recs[n].at \in Nat /\ recs[n].size \in RecordSizes /\ recs[n].size \in Nat /\ recs[n].size >= 12
    BY <1>3, <1>4, SizesAre
  <2>2. (recs[n].at % BlockSize) + recs[n].size <= BlockSize
    BY <1>1, <1>3 DEF RecordsInv
  <2>3. len - recs[n].at \in recs[n].size .. BlockSize
    BY <1>1, <1>5, <1>8, <2>1, <2>2, NextWithinBlock
  <2>4. BlockSize \in Nat /\ len \in Nat
    BY <1>3, <1>6
  <2>5. /\ x \in Nat /\ x >= recs[n].size /\ x <= BlockSize /\ recs[n].at + x = len
    BY <1>9, <2>1, <2>3, <2>4, Apart
  <2>9. recs[n].size + (len - offset) = len - recs[n].at
    <3>1. recs[n].at \in Nat /\ recs[n].size \in Nat /\ len \in Nat /\ offset \in Nat
      BY <1>1, <1>6, <2>1
    <3>2. recs[n].at + recs[n].size = offset
      BY <1>8
    <3> QED BY <3>1, <3>2
  <2>7. recs[n].rec_len + (len - offset) = x
    BY <1>8, <1>9, <2>9
  <2>8. x >= 12
    BY <2>1, <2>5
  <2> QED BY <2>5, <2>7, <2>8
<1>11. PICK v \in Nat : v = U16(x)
  BY <1>10 DEF U16
<1>12. recs' = [recs EXCEPT ![n].rec_len = v]
  BY <1>10, <1>11 DEF PadLast, LastGap
<1>13. /\ recs' \in Seq(Record) /\ Len(recs') = n /\ recs'[n].rec_len = v
       /\ \A k \in 1 .. n : recs'[k].at = recs[k].at /\ recs'[k].size = recs[k].size
       /\ \A k \in 1 .. n : k # n => recs'[k].rec_len = recs[k].rec_len
  <2>1. recs \in Seq(Record)
    BY <1>1 DEF RecordsInv
  <2> QED BY <1>3, <1>12, <2>1, Repadded
<1>14. Len(recs) = n /\ DOMAIN recs = 1 .. n /\ DOMAIN recs' = 1 .. n
  BY <1>1, <1>13, RecordsAre
<1> HIDE DEF n
<1>15. RecordsInv(len)'
  <2>1. recs' \in Seq(Record) /\ Len(recs') <= Len(Names')
    BY <1>1, <1>3, <1>13
  <2>2. ASSUME NEW k \in 1 .. n
        PROVE  /\ recs'[k].size \in RecordSizes
               /\ (recs'[k].at % BlockSize) + recs'[k].size <= BlockSize
               /\ recs'[k].at + recs'[k].size <= len
    <3>1. recs'[k].at = recs[k].at /\ recs'[k].size = recs[k].size
      BY <1>13
    <3>2. recs[k].size \in Nat
      BY <1>4, SizesAre
    <3>3. recs[k].at + recs[k].size <= len
      BY <1>1, <1>4, <1>6, <1>7, <3>2
    <3>4. (recs[k].at % BlockSize) + recs[k].size <= BlockSize
      BY <1>1, <1>14 DEF RecordsInv
    <3> QED BY <1>4, <3>1, <3>3, <3>4
  <2>3. ASSUME NEW j \in 1 .. n, NEW k \in 1 .. n, j < k
        PROVE  recs'[j].at < recs'[k].at
    <3>1. recs[j].at < recs[k].at
      BY <1>1, <1>14, <2>3 DEF RecordsInv
    <3> QED BY <1>13, <3>1
  <2>4. ASSUME NEW k \in 1 .. n - 1 PROVE ReachesTo(k, recs[k + 1].at)'
    <3>1. k \in 1 .. n /\ k + 1 \in 1 .. n /\ k # n
      BY <1>3
    <3>2. ReachesTo(k, recs[k + 1].at)
      BY <1>1, <1>14 DEF RecordsInv
    <3>3. /\ recs'[k].rec_len = recs[k].rec_len /\ recs'[k + 1].at = recs[k + 1].at
          /\ recs'[k].at = recs[k].at /\ recs'[k].size = recs[k].size
      BY <1>13, <3>1
    <3>4. RealRecLen(k)' = RealRecLen(k)
      BY <1>3, <3>3 DEF RealRecLen, WholeBlock64K
    <3> QED BY <3>2, <3>3, <3>4 DEF ReachesTo
  <2>5. ASSUME NEW b \in Nat, b * BlockSize < len
        PROVE  At(b * BlockSize)' # {}
    <3>1. b * BlockSize < offset
      <4>1. BlockSize \in Nat \ {0} /\ b * BlockSize \in Nat
        BY <1>3
      <4>2. PICK q, r : q = offset \div BlockSize /\ r = offset % BlockSize
        OBVIOUS
      <4>3. q \in Nat /\ r \in 0 .. BlockSize - 1 /\ offset = q * BlockSize + r /\ q * BlockSize \in Nat
        BY <1>1, <4>1, <4>2, DivMod
      <4>4. CASE r = 0
        BY <1>6, <2>5, <4>2, <4>4
      <4>5. CASE r # 0
        <5>1. len = q * BlockSize + BlockSize
          BY <1>1, <1>6, <4>2, <4>3, <4>5
        <5>2. b <= q
          <6>1. CASE b >= q + 1
            <7>1. b * BlockSize >= (q + 1) * BlockSize /\ (q + 1) * BlockSize = q * BlockSize + BlockSize
              BY <1>3, <4>3, <6>1
            <7> QED BY <1>6, <2>5, <4>1, <4>3, <5>1, <7>1
          <6> QED BY <4>3, <6>1
        <5>3. b * BlockSize <= q * BlockSize
          BY <1>3, <4>3, <5>2
        <5> QED BY <1>1, <4>1, <4>3, <4>5, <5>3
      <4> QED BY <4>4, <4>5
    <3>2. PICK k : k \in At(b * BlockSize)
      BY <1>1, <3>1 DEF RecordsInv
    <3>3. k \in 1 .. n /\ recs[k].at = b * BlockSize
      BY <1>14, <3>2 DEF At
    <3>4. k \in DOMAIN recs' /\ recs'[k].at = b * BlockSize
      BY <1>13, <1>14, <3>3
    <3> QED BY <1>3, <3>4 DEF At
  <2>6. Len(recs') = n /\ len' = len
    BY <1>1, <1>13
  <2>7. \A k \in 1 .. Len(recs') : /\ recs'[k].size \in RecordSizes
                                    /\ (recs'[k].at % BlockSize') + recs'[k].size <= BlockSize'
                                    /\ recs'[k].at + recs'[k].size <= len'
    BY <1>3, <2>2, <2>6
  <2>8. \A j, k \in 1 .. Len(recs') : j < k => recs'[j].at < recs'[k].at
    BY <2>3, <2>6
  <2>9. \A k \in 1 .. Len(recs') - 1 : ReachesTo(k, recs[k + 1].at)'
    BY <2>4, <2>6
  <2>10. \A b \in Nat : b * BlockSize' < len' => At(b * BlockSize)' # {}
    BY <1>3, <2>5, <2>6
  <2> QED BY <2>1, <2>7, <2>8, <2>9, <2>10 DEF RecordsInv
<1>16. ReachesTo(Len(recs), len)'
  <2>1. PICK m \in 1 .. n : m = n
    BY <1>3
  <2>2. RealRecLen(m)' = x
    <3>1. (IF BlockSize = 65536 /\ recs'[m].rec_len = 0 THEN 65536 ELSE recs'[m].rec_len) = x
      <4>1. recs'[m].rec_len = U16(x)
        BY <1>11, <1>13, <2>1
      <4>2. BlockSize \in Nat /\ BlockSize <= 65536 /\ x \in Nat /\ x >= 12 /\ x <= BlockSize
        BY <1>3, <1>10
      <4> QED BY <4>1, <4>2, StoredDistance
    <3> QED BY <1>3, <3>1 DEF RealRecLen, WholeBlock64K
  <2>3. recs'[m].at = recs[m].at /\ recs'[m].size = recs[m].size
    BY <1>13
  <2>4. ReachesTo(m, len)'
    BY <1>1, <1>10, <2>1, <2>2, <2>3 DEF ReachesTo
  <2>5. m = Len(recs')
    BY <1>13, <2>1
  <2> QED BY <2>4, <2>5 DEF ReachesTo, RealRecLen, WholeBlock64K
<1>17. recs'[1].at = 0
  <2>1. 0 * BlockSize = 0 /\ 0 \in Nat /\ 0 < offset
    <3>1. recs[n].size \in Nat /\ recs[n].size >= 12 /\ recs[n].at \in Nat
      BY <1>3, <1>4, SizesAre
    <3> QED BY <1>1, <1>3, <1>8, <3>1
  <2>2. PICK k : k \in At(0)
    BY <1>1, <2>1 DEF RecordsInv
  <2>3. k \in 1 .. n /\ recs[k].at = 0
    BY <1>14, <2>2 DEF At
  <2>4. k = 1
    <3>1. CASE 1 < k
      <4>1. recs[1].at < recs[k].at
        BY <1>1, <1>3, <1>14, <2>3, <3>1 DEF RecordsInv
      <4> QED BY <1>3, <1>4, <2>3, <4>1
    <3> QED BY <1>3, <2>3, <3>1
  <2> QED BY <1>3, <1>13, <2>3, <2>4
<1>18. /\ count' \in 0 .. Len(recs') /\ len' \in Nat
       /\ dirp' = IF count' < Len(recs') THEN recs'[count' + 1].at ELSE len'
       /\ Len(recs') = Len(Names')
  BY <1>1, <1>3, <1>6, <1>13, <1>17
<1> QED BY <1>1, <1>15, <1>16, <1>18 DEF DirectoryInv, PcInv, SizeInv, AddInv, WalkInv, DirectoryEnded

LEMMA DirectoryInvariance == DirectorySpec => []DirectoryInv
<1>1. DirectoryInv /\ [DirectoryNext]_directoryVars => DirectoryInv'
  <2> SUFFICES ASSUME DirectoryInv, [DirectoryNext]_directoryVars PROVE DirectoryInv'
    OBVIOUS
  <2>1. CASE UNCHANGED directoryVars
    <3>1. UNCHANGED <<dir, pc, dentries, len, i, offset, recs, dirp, count>>
      BY <2>1 DEF directoryVars
    <3>2. PcInv'
      BY <3>1 DEF DirectoryInv, PcInv, Unreadable, DirectoryEnded
    <3>3. SizeInv'
      BY <3>1 DEF DirectoryInv, SizeInv, Totals, Names, StartOf, BlockSize
    <3>4. AddInv'
      <4>1. SUFFICES ASSUME pc = "add" PROVE AddInv'
        BY <3>1 DEF AddInv
      <4>2. /\ offset \in Nat /\ RecordsInv(offset)
            /\ IF recs = <<>> THEN offset = 0 ELSE AtOffset(Len(recs))
        BY <4>1 DEF DirectoryInv, AddInv
      <4>3. PICK f : Sized(f) /\ offset = f[Len(recs)]
        BY <4>1 DEF DirectoryInv, AddInv
      <4>4. RecordsInv(offset)'
        <5>1. PICK e : e = offset
          OBVIOUS
        <5>2. RecordsInv(e)' /\ e = offset'
          BY <3>1, <4>2, <5>1, RecordsSame
        <5> QED BY <5>2 DEF RecordsInv
      <4>5. (IF recs = <<>> THEN offset = 0 ELSE AtOffset(Len(recs)))'
        BY <3>1, <4>2 DEF AtOffset
      <4>6. Sized(f)'
        BY <3>1, <4>3 DEF Sized, Totals, Names, StartOf, BlockSize, BlocksFor
      <4> QED BY <3>1, <4>2, <4>3, <4>4, <4>5, <4>6 DEF AddInv
    <3>5. WalkInv'
      BY <3>1 DEF DirectoryInv, WalkInv, Names, BlockSize, RecordsInv, ReachesTo, RealRecLen, WholeBlock64K, At
    <3> QED BY <3>1, <3>2, <3>3, <3>4, <3>5 DEF DirectoryInv
  <2>2. CASE ListName \/ NameFails \/ EndList
    BY <2>2, ListingStep
  <2>3. CASE SizeDentry \/ EndSize
    BY <2>3, SizingStep
  <2>4. CASE AddDentry
    BY <2>4, AddingStep
  <2>5. CASE PadLast
    BY <2>5, PaddingStep
  <2>6. CASE ReadFails \/ WalkRecord \/ WalkBehind \/ WalkEnds
    BY <2>6, WalkingStep
  <2> QED BY <2>1, <2>2, <2>3, <2>4, <2>5, <2>6 DEF DirectoryNext, DirectoryStep, WalkStuck
<1> QED BY <1>1, DirectoryStarts, PTL DEF DirectorySpec

-----------------------------------------------------------------------------
(* The names.                                                              *)

\* The first n names, as they are listed.
Listed(n) == [k \in 1 .. n |-> dir.names[k].len]
OnlyLastLost == Unreadable = {} \/ (dir.force /\ Unreadable = {Len(dir.names)})
Kept == OnlyLastLost /\ dentries = Prefix \o Listed(Len(dir.names) - Cardinality(Unreadable))

NamesInv ==
  /\ pc \in {"list", "listed"} =>
       /\ Len(dentries) \in 0 .. Len(dir.names) /\ dentries = Listed(Len(dentries))
       /\ \A k \in 1 .. Len(dentries) : dir.names[k].readable
  /\ pc = "listed" => /\ dir.force /\ Len(dentries) + 1 = Len(dir.names)
                      /\ ~dir.names[Len(dir.names)].readable
  /\ pc \in {"size", "add", "walk", "walked"} => Kept
  /\ pc = "freed" => dir.force /\ \E k \in Unreadable : k < Len(dir.names)

LEMMA NamesStart == DirectoryInit => NamesInv
<1> SUFFICES ASSUME DirectoryInit PROVE NamesInv
  OBVIOUS
<1>1. dir \in Directories /\ pc = "list" /\ dentries = <<>> /\ Len(dentries) = 0
  BY DEF DirectoryInit
<1>2. Len(dir.names) \in Nat
  BY <1>1, DirectoryFacts
<1>3. Listed(0) = <<>>
  BY DEF Listed
<1> QED BY <1>1, <1>2, <1>3 DEF NamesInv

\* The names that are kept, when the loop has come to its end.
LEMMA ListEnds ==
  ASSUME DirectoryInv, NamesInv, EndList
  PROVE  Kept'
<1> DEFINE n == Len(dentries)
           m == Len(dir.names)
<1>1. /\ dir \in Directories /\ dir' = dir /\ pc \in {"list", "listed"}
      /\ dentries' = Prefix \o dentries
  BY DEF DirectoryInv, EndList
<1>2. m \in Nat /\ DOMAIN dir.names = 1 .. m /\ n \in 0 .. m /\ dentries = Listed(n)
      /\ \A k \in 1 .. n : dir.names[k].readable
  BY <1>1, DirectoryFacts DEF NamesInv
<1>3. OnlyLastLost /\ n = m - Cardinality(Unreadable)
  <2>1. CASE pc = "list"
    <3>1. n = m /\ Unreadable = {}
      BY <1>2, <2>1 DEF EndList, Unreadable
    <3>2. Cardinality(Unreadable) = 0
      BY <3>1, FS_EmptySet
    <3> QED BY <1>2, <3>1, <3>2 DEF OnlyLastLost
  <2>2. CASE pc = "listed"
    <3>1. dir.force /\ n + 1 = m /\ ~dir.names[m].readable
      BY <2>2 DEF NamesInv
    <3>2. Unreadable = {m}
      BY <1>2, <3>1 DEF Unreadable
    <3>3. Cardinality(Unreadable) = 1
      BY <3>2, FS_Singleton
    <3> QED BY <1>2, <3>1, <3>2, <3>3 DEF OnlyLastLost
  <2> QED BY <1>1, <2>1, <2>2
<1>4. dentries' = Prefix \o Listed(m - Cardinality(Unreadable))
  BY <1>1, <1>2, <1>3
<1> QED BY <1>1, <1>3, <1>4 DEF Kept, OnlyLastLost, Listed, Unreadable, Prefix, NeedsLostFound

LEMMA NamesInvariance == DirectorySpec => [](DirectoryInv /\ NamesInv)
<1>1. DirectoryInv /\ NamesInv /\ [DirectoryNext]_directoryVars => NamesInv'
  <2> SUFFICES ASSUME DirectoryInv, NamesInv, [DirectoryNext]_directoryVars PROVE NamesInv'
    OBVIOUS
  <2>1. CASE UNCHANGED directoryVars
    <3>1. UNCHANGED <<dir, pc, dentries>>
      BY <2>1 DEF directoryVars
    <3> QED BY <3>1 DEF NamesInv, Kept, OnlyLastLost, Listed, Unreadable, Prefix, NeedsLostFound
  <2>2. CASE ListName
    <3> DEFINE n == Len(dentries)
    <3>1. /\ dir \in Directories /\ dir' = dir /\ pc = "list" /\ pc' = "list" /\ n < Len(dir.names)
          /\ dir.names[n + 1].readable /\ dentries' = Append(dentries, dir.names[n + 1].len)
      BY <2>2 DEF DirectoryInv, ListName
    <3>2. /\ Len(dir.names) \in Nat /\ n \in 0 .. Len(dir.names) /\ dentries = Listed(n)
          /\ \A k \in 1 .. n : dir.names[k].readable
      BY <3>1, DirectoryFacts DEF NamesInv
    <3>3. dentries \in Seq(Lengths)
      BY DEF DirectoryInv
    <3>4. dentries' = Listed(n + 1) /\ Len(dentries') = n + 1
      BY <3>1, <3>2, <3>3 DEF Listed
    <3>5. n + 1 \in 0 .. Len(dir.names) /\ \A k \in 1 .. n + 1 : dir.names[k].readable
      BY <3>1, <3>2
    <3> HIDE DEF n
    <3> QED BY <3>1, <3>4, <3>5 DEF NamesInv, Listed
  <2>3. CASE NameFails
    <3>1. /\ dir \in Directories /\ dir' = dir /\ pc = "list" /\ dentries' = dentries
          /\ Len(dentries) < Len(dir.names) /\ ~dir.names[Len(dentries) + 1].readable
      BY <2>3 DEF DirectoryInv, NameFails
    <3>2. /\ Len(dir.names) \in Nat /\ DOMAIN dir.names = 1 .. Len(dir.names)
          /\ Len(dentries) \in 0 .. Len(dir.names)
      BY <3>1, DirectoryFacts DEF NamesInv
    <3>3. Len(dentries) + 1 \in Unreadable
      BY <3>1, <3>2 DEF Unreadable
    <3>4. CASE pc' = "failed"
      BY <3>4 DEF NamesInv
    <3>5. CASE pc' = "listed" /\ dir.force /\ Len(dentries) + 1 = Len(dir.names)
      BY <3>1, <3>2, <3>5 DEF NamesInv, Listed
    <3>6. CASE pc' = "freed" /\ dir.force /\ Len(dentries) + 1 < Len(dir.names)
      BY <3>1, <3>3, <3>6 DEF NamesInv, Unreadable
    <3> QED BY <2>3, <3>4, <3>5, <3>6 DEF NameFails
  <2>4. CASE EndList
    <3>1. pc' = "size"
      BY <2>4 DEF EndList
    <3> QED BY <2>4, <3>1, ListEnds DEF NamesInv
  <2>5. CASE SizeDentry \/ EndSize \/ AddDentry \/ PadLast \/ ReadFails \/ WalkRecord \/ WalkBehind \/ WalkEnds \/ WalkStuck
    <3>1. /\ UNCHANGED <<dir, dentries>> /\ pc \in {"size", "add", "walk"}
          /\ pc' \in {"size", "add", "walk", "walked", "failed", "unread", "astray"}
      BY <2>5 DEF SizeDentry, EndSize, AddDentry, PadLast, ReadFails, WalkRecord, WalkBehind, WalkEnds, WalkStuck,
                  Going, directoryVars
    <3>2. Kept'
      BY <3>1 DEF NamesInv, Kept, OnlyLastLost, Listed, Unreadable, Prefix, NeedsLostFound
    <3> QED BY <3>1, <3>2 DEF NamesInv
  <2> QED BY <2>1, <2>2, <2>3, <2>4, <2>5 DEF DirectoryNext, DirectoryStep
<1> QED BY <1>1, NamesStart, DirectoryInvariance, PTL DEF DirectorySpec

-----------------------------------------------------------------------------
(* The theorems.                                                           *)

\* dentry_size and add_dentry agree for every list of names and every block
\* size: packing never ends in the critical error, and the records fill their
\* blocks without a gap.
THEOREM RecordsAlwaysFill == DirectorySpec => []RecordsFillBlocks
<1>1. DirectoryInv => RecordsFillBlocks
  <2> SUFFICES ASSUME DirectoryInv PROVE RecordsFillBlocks
    OBVIOUS
  <2>1. pc = "failed" => ~dir.force /\ Unreadable # {}
    BY DEF DirectoryInv, PcInv
  <2>2. ASSUME Packed
        PROVE  /\ \A b \in 0 .. len \div BlockSize - 1 : At(b * BlockSize) # {}
               /\ \A k \in DOMAIN recs :
                    /\ (recs[k].at % BlockSize) + recs[k].size <= BlockSize
                    /\ RealRecLen(k) >= recs[k].size
                    /\ recs[k].at + RealRecLen(k) = IF k < Len(recs) THEN recs[k + 1].at ELSE len
    <3>1. dir \in Directories /\ len \in Nat /\ RecordsInv(len) /\ ReachesTo(Len(recs), len)
      BY <2>2 DEF DirectoryInv, WalkInv, Packed
    <3>2. BlockSize \in Nat \ {0} /\ Len(recs) \in Nat /\ DOMAIN recs = 1 .. Len(recs)
      BY <3>1, DirectoryFacts, RecordsAre
    <3>3. ASSUME NEW b \in 0 .. len \div BlockSize - 1 PROVE At(b * BlockSize) # {}
      <4>1. PICK q \in Nat : q = len \div BlockSize /\ q * BlockSize <= len /\ q * BlockSize \in Nat
        <5>1. PICK r : r = len % BlockSize
          OBVIOUS
        <5>2. PICK q : q = len \div BlockSize
          OBVIOUS
        <5>3. q \in Nat /\ r \in 0 .. BlockSize - 1 /\ len = q * BlockSize + r /\ q * BlockSize \in Nat
          BY <3>1, <3>2, <5>1, <5>2, DivMod
        <5> QED BY <3>1, <5>2, <5>3
      <4>2. b \in Nat /\ b + 1 <= q
        BY <4>1
      <4>3. (b + 1) * BlockSize <= q * BlockSize /\ (b + 1) * BlockSize = b * BlockSize + BlockSize
        BY <3>2, <4>1, <4>2
      <4>4. b * BlockSize < len
        <5>1. b * BlockSize \in Nat
          BY <3>2, <4>2
        <5> QED BY <3>1, <3>2, <4>1, <4>3, <5>1
      <4> QED BY <3>1, <4>2, <4>4 DEF RecordsInv
    <3>4. ASSUME NEW k \in DOMAIN recs
          PROVE  /\ (recs[k].at % BlockSize) + recs[k].size <= BlockSize
                 /\ ReachesTo(k, IF k < Len(recs) THEN recs[k + 1].at ELSE len)
      <4>1. k \in 1 .. Len(recs)
        BY <3>2
      <4>2. CASE k < Len(recs)
        <5>1. k \in 1 .. Len(recs) - 1
          BY <3>2, <4>1, <4>2
        <5> QED BY <3>1, <4>1, <4>2, <5>1 DEF RecordsInv
      <4>3. CASE ~(k < Len(recs))
        <5>1. k = Len(recs)
          BY <3>2, <4>1, <4>3
        <5> QED BY <3>1, <4>1, <4>3, <5>1 DEF RecordsInv
      <4> QED BY <4>2, <4>3
    <3> QED BY <3>3, <3>4 DEF ReachesTo
  <2> QED BY <2>1, <2>2 DEF RecordsFillBlocks
<1> QED BY <1>1, DirectoryInvariance, PTL

\* Whatever names there are and whichever of them cannot be read: a directory
\* that is built holds all of them but, with -f, an unreadable last one.
THEOREM NamesAlwaysKept == DirectorySpec => []NamesKept
<1>1. DirectoryInv /\ NamesInv => NamesKept
  <2> SUFFICES ASSUME DirectoryInv, NamesInv PROVE NamesKept
    OBVIOUS
  <2>1. ASSUME Packed PROVE Len(recs) = Len(dentries) + 2
    BY <2>1, NamesFacts DEF DirectoryInv, WalkInv, Packed
  <2>2. ASSUME Packed
        PROVE  /\ Unreadable = {} \/ (dir.force /\ Unreadable = {Len(dir.names)})
               /\ dentries = Prefix \o [k \in 1 .. Len(dir.names) - Cardinality(Unreadable) |-> dir.names[k].len]
    BY <2>2 DEF NamesInv, Packed, Kept, OnlyLastLost, Listed
  <2>3. pc = "freed" => dir.force /\ \E k \in Unreadable : k < Len(dir.names)
    BY DEF NamesInv
  <2> QED BY <2>1, <2>2, <2>3 DEF NamesKept
<1> QED BY <1>1, NamesInvariance, PTL

\* recurse_dir of ext4fixup, which goes by rec_len alone, meets what add_dentry
\* wrote, record by record.
THEOREM WalkAlwaysMeets == DirectorySpec => []WalkMeetsRecords
<1>1. DirectoryInv => WalkMeetsRecords
  <2> SUFFICES ASSUME DirectoryInv PROVE WalkMeetsRecords
    OBVIOUS
  <2>1. ASSUME pc = "walk", dirp < len
        PROVE  count < Len(recs) /\ dirp = recs[count + 1].at
    <3>1. len \in Nat /\ dirp = IF count < Len(recs) THEN recs[count + 1].at ELSE len
      BY <2>1 DEF DirectoryInv, WalkInv
    <3> QED BY <2>1, <3>1
  <2> QED BY <2>1 DEF WalkMeetsRecords, DirectoryInv, WalkInv, PcInv
<1> QED BY <1>1, DirectoryInvariance, PTL
=============================================================================

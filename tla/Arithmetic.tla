----------------------------- MODULE Arithmetic -----------------------------
(***************************************************************************)
(* What the proofs of several modules need of the natural numbers: division *)
(* of a number that is given by its quotient and remainder, a least element *)
(* of every set, and induction as a fact about sets of numbers.             *)
(***************************************************************************)
EXTENDS Integers, FiniteSetTheorems, WellFoundedInduction, TLAPS

\* A number is divided by reading off its quotient and remainder.
LEMMA Division ==
  ASSUME NEW n \in Nat \ {0}, NEW q \in Int, NEW r \in 0 .. n - 1
  PROVE  (q * n + r) \div n = q /\ (q * n + r) % n = r
<1> DEFINE x == q * n + r
           p == x \div n
           s == x % n
<1>1. x \in Int /\ p \in Int /\ s \in 0 .. n - 1 /\ x = n * p + s
  OBVIOUS
<1> HIDE DEF p, s
<1>2. CASE p = q
  BY <1>1, <1>2 DEF p, s
<1>3. CASE p < q
  <2>1. q - p >= 1 /\ q - p \in Nat
    BY <1>1, <1>3
  <2>2. (q - p) * n >= n
    BY <2>1
  <2> QED BY <1>1, <2>2
<1>4. CASE p > q
  <2>1. p - q >= 1 /\ p - q \in Nat
    BY <1>1, <1>4
  <2>2. (p - q) * n >= n
    BY <2>1
  <2> QED BY <1>1, <2>2
<1> QED BY <1>1, <1>2, <1>3, <1>4

\* A number is its quotient and remainder.
LEMMA DivMod ==
  ASSUME NEW x \in Nat, NEW y \in Nat \ {0}
  PROVE  /\ x \div y \in Nat /\ x % y \in 0 .. y - 1
         /\ x = (x \div y) * y + (x % y) /\ (x \div y) * y \in Nat
OBVIOUS

\* The sets 0 .. n are ordered by inclusion as their last numbers are.
LEMMA LeastNat ==
  ASSUME NEW S \in SUBSET Nat, S # {}
  PROVE  \E m \in S : \A k \in S : m <= k
<1> DEFINE Upto(n) == 0 .. n
           T == {Upto(n) : n \in S}
<1>1. T \subseteq FiniteSubsetsOf(Nat) /\ T # {}
  <2>1. \A n \in S : IsFiniteSet(0 .. n) /\ 0 .. n \subseteq Nat
    BY FS_Interval
  <2> QED BY <2>1 DEF FiniteSubsetsOf
<1>2. PICK x \in T : \A y \in T : <<y, x>> \notin StrictSubsetOrdering(Nat)
  <2> HIDE DEF T
  <2> QED BY <1>1, FS_StrictSubsetOrderingWellFounded, WFMin
<1>3. PICK m \in S : x = 0 .. m
  OBVIOUS
<1>4. ASSUME NEW k \in S, k < m PROVE FALSE
  <2>1. 0 .. k \in T /\ 0 .. k \subseteq Nat /\ 0 .. m \subseteq Nat
    OBVIOUS
  <2>2. 0 .. k \subseteq 0 .. m /\ 0 .. k # 0 .. m
    BY <1>4
  <2>3. <<0 .. k, 0 .. m>> \in StrictSubsetOrdering(Nat)
    BY <2>1, <2>2 DEF StrictSubsetOrdering
  <2> QED BY <1>2, <1>3, <2>1, <2>3
<1> QED BY <1>3, <1>4

\* A set that holds 0 and with each number below n the next holds all up to n.
LEMMA NatSetInduction ==
  ASSUME NEW n \in Nat, NEW S, 0 \in S, \A k \in 0 .. n - 1 : k \in S => k + 1 \in S
  PROVE  0 .. n \subseteq S
<1> DEFINE Out == (0 .. n) \ S
<1>1. SUFFICES ASSUME Out # {} PROVE FALSE
  OBVIOUS
<1>2. PICK m \in Out : \A k \in Out : m <= k
  <2>1. Out \in SUBSET Nat
    OBVIOUS
  <2> HIDE DEF Out
  <2> QED BY <1>1, <2>1, LeastNat
<1>3. m - 1 \in 0 .. n - 1 /\ m - 1 \in S
  BY <1>2
<1> QED BY <1>2, <1>3

\* A recursion over 0 .. n whose step is a function on S, and its values.
Steps(n, S, next) == \A k \in 1 .. n : \A x \in S : next[<<k, x>>] \in S
Recursion(n, S, e, next, f) ==
  f \in [0 .. n -> S] /\ f[0] = e /\ \A k \in 1 .. n : f[k] = next[<<k, f[k - 1]>>]

\* It has values.
LEMMA RecursionExists ==
  ASSUME NEW n \in Nat, NEW S, NEW e \in S, NEW next, Steps(n, S, next)
  PROVE  \E f : Recursion(n, S, e, next, f)
<1> DEFINE Upto(f, m) == f[0] = e /\ \A k \in 1 .. m : f[k] = next[<<k, f[k - 1]>>]
           Has(m) == \E f \in [0 .. m -> S] : Upto(f, m)
           T == {m \in 0 .. n : Has(m)}
<1>1. Has(0)
  <2>1. PICK f : f = [k \in 0 .. 0 |-> e]
    OBVIOUS
  <2>2. f \in [0 .. 0 -> S] /\ Upto(f, 0)
    BY <2>1
  <2> QED BY <2>2
<1>2. ASSUME NEW m \in 0 .. n - 1, Has(m) PROVE Has(m + 1)
  <2>1. PICK f \in [0 .. m -> S] : Upto(f, m)
    BY <1>2
  <2>2. PICK v \in S : v = next[<<m + 1, f[m]>>]
    <3>1. m \in 0 .. m /\ m + 1 \in 1 .. n
      OBVIOUS
    <3>2. f[m] \in S
      BY <2>1, <3>1
    <3> QED BY <3>1, <3>2 DEF Steps
  <2>3. PICK h : h = [k \in 0 .. m + 1 |-> IF k = m + 1 THEN v ELSE f[k]]
    OBVIOUS
  <2>4. h \in [0 .. m + 1 -> S]
    BY <2>1, <2>2, <2>3
  <2>5. Upto(h, m + 1)
    <3>1. h[0] = e
      BY <2>1, <2>3
    <3>2. ASSUME NEW k \in 1 .. m + 1 PROVE h[k] = next[<<k, h[k - 1]>>]
      <4>1. CASE k = m + 1
        <5>1. h[k] = v /\ h[k - 1] = f[m]
          BY <2>3, <4>1
        <5> QED BY <2>2, <4>1, <5>1
      <4>2. CASE k # m + 1
        <5>1. k \in 1 .. m /\ h[k] = f[k] /\ h[k - 1] = f[k - 1]
          BY <2>3, <4>2
        <5> QED BY <2>1, <5>1
      <4> QED BY <4>1, <4>2
    <3> QED BY <3>1, <3>2
  <2> HIDE DEF Upto
  <2> QED BY <2>4, <2>5
<1> HIDE DEF Has
<1>3. 0 \in T /\ \A m \in 0 .. n - 1 : m \in T => m + 1 \in T
  BY <1>1, <1>2
<1>4. 0 .. n \subseteq T
  <2> HIDE DEF T
  <2> QED BY <1>3, NatSetInduction
<1> QED BY <1>4 DEF Has, Recursion

\* Sums of the first numbers of a, and the sets they count.
Sums(n, a, f) == f \in [0 .. n -> Nat] /\ f[0] = 0 /\ \A k \in 1 .. n : f[k] = f[k - 1] + a[k]
Counts(n, a, S, T) ==
  /\ S[0] = {}
  /\ \A k \in 1 .. n : /\ S[k] = S[k - 1] \cup T[k] /\ S[k - 1] \cap T[k] = {}
                       /\ IsFiniteSet(T[k]) /\ Cardinality(T[k]) = a[k]

\* There are such sums.
LEMMA SumsExist ==
  ASSUME NEW n \in Nat, NEW a \in [1 .. n -> Nat]
  PROVE  \E f : Sums(n, a, f)
<1> DEFINE next == [kx \in (1 .. n) \X Nat |-> kx[2] + a[kx[1]]]
<1>1. ASSUME NEW k \in 1 .. n, NEW x \in Nat
      PROVE  next[<<k, x>>] = x + a[k] /\ x + a[k] \in Nat
  OBVIOUS
<1>2. Steps(n, Nat, next)
  BY <1>1 DEF Steps
<1>3. PICK f : Recursion(n, Nat, 0, next, f)
  <2> HIDE DEF next
  <2>1. 0 \in Nat
    OBVIOUS
  <2> QED BY <1>2, <2>1, RecursionExists
<1>4. f \in [0 .. n -> Nat] /\ f[0] = 0 /\ \A k \in 1 .. n : f[k] = next[<<k, f[k - 1]>>]
  BY <1>3 DEF Recursion
<1>5. ASSUME NEW k \in 1 .. n PROVE f[k] = f[k - 1] + a[k]
  <2>1. f[k - 1] \in Nat
    BY <1>4
  <2> QED BY <1>1, <1>4, <2>1
<1> QED BY <1>4, <1>5 DEF Sums

\* And only these.
LEMMA SumsUnique ==
  ASSUME NEW n \in Nat, NEW a, NEW f, Sums(n, a, f), NEW g, g[0] = 0,
         \A k \in 1 .. n : g[k] = g[k - 1] + a[k]
  PROVE  \A k \in 0 .. n : g[k] = f[k]
<1> DEFINE T == {k \in 0 .. n : g[k] = f[k]}
<1>1. 0 \in T
  BY DEF Sums
<1>2. ASSUME NEW k \in 0 .. n - 1, k \in T PROVE k + 1 \in T
  <2>1. k + 1 \in 1 .. n /\ (k + 1) - 1 = k
    OBVIOUS
  <2>2. g[k + 1] = g[k] + a[k + 1] /\ f[k + 1] = f[k] + a[k + 1]
    BY <2>1 DEF Sums
  <2> QED BY <1>2, <2>1, <2>2
<1>3. 0 .. n \subseteq T
  <2> HIDE DEF T
  <2> QED BY <1>1, <1>2, NatSetInduction
<1> QED BY <1>3

\* Sets that grow by as many elements as the numbers say.
LEMMA SumsCount ==
  ASSUME NEW n \in Nat, NEW a, NEW f, Sums(n, a, f), NEW S, NEW T, Counts(n, a, S, T)
  PROVE  \A k \in 0 .. n : IsFiniteSet(S[k]) /\ Cardinality(S[k]) = f[k]
<1> DEFINE Q == {k \in 0 .. n : IsFiniteSet(S[k]) /\ Cardinality(S[k]) = f[k]}
<1>1. 0 \in Q
  <2>1. S[0] = {} /\ f[0] = 0 /\ 0 \in 0 .. n
    BY DEF Sums, Counts
  <2> QED BY <2>1, FS_EmptySet
<1>2. ASSUME NEW k \in 0 .. n - 1, k \in Q PROVE k + 1 \in Q
  <2>1. PICK j \in 1 .. n : j = k + 1 /\ j - 1 = k
    OBVIOUS
  <2>2. S[j] = S[k] \cup T[j] /\ S[k] \cap T[j] = {} /\ IsFiniteSet(T[j]) /\ Cardinality(T[j]) = a[j]
    BY <2>1 DEF Counts
  <2>3. IsFiniteSet(S[k]) /\ Cardinality(S[k]) = f[k] /\ f[j] = f[k] + a[j]
    BY <1>2, <2>1 DEF Sums
  <2>4. IsFiniteSet(S[j]) /\ Cardinality(S[j]) = Cardinality(S[k]) + Cardinality(T[j]) - Cardinality(S[k] \cap T[j])
    BY <2>2, <2>3, FS_Union
  <2>5. Cardinality(S[k] \cap T[j]) = 0
    BY <2>2, FS_EmptySet
  <2>6. f[k] \in Nat /\ Cardinality(T[j]) \in Nat
    BY <2>1, <2>2, FS_CardinalityType DEF Sums
  <2>7. Cardinality(S[j]) = f[j]
    BY <2>2, <2>3, <2>4, <2>5, <2>6
  <2> QED BY <2>1, <2>4, <2>7
<1>3. 0 .. n \subseteq Q
  <2> HIDE DEF Q
  <2> QED BY <1>1, <1>2, NatSetInduction
<1> QED BY <1>3
=============================================================================

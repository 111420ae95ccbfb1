---------------------------- MODULE NaturalLemmas ----------------------------
(***************************************************************************)
(* What the proofs about trees and words keep needing: induction on the    *)
(* natural numbers for a set (the library's induction theorems take a      *)
(* predicate, for which no prover here finds an instance, but its theorem  *)
(* on minimal elements takes a set), powers of two, quotients, and         *)
(* functions defined by recursion on a number.                             *)
(***************************************************************************)
EXTENDS Integers, FiniteSetTheorems, SequenceTheorems, WellFoundedInduction, TLAPS

\* Every nonempty set of natural numbers has a least element.
LEMMA LeastNatural ==
    ASSUME NEW T, T \subseteq Nat, T # {}
    PROVE  \E n \in T : \A m \in T : n <= m
<1>. DEFINE R == OpToRel(<, Nat)
<1>1. IsWellFoundedOn(R, Nat)
  BY NatLessThanWellFounded
<1>2. PICK x \in T : \A y \in T : <<y, x>> \notin R
  <2>. HIDE DEF R
  <2>. QED  BY <1>1, WFMin
<1>3. \A y \in T : (<<y, x>> \in R) <=> y < x
  BY DEF OpToRel
<1>. HIDE DEF R
<1>4. \A y \in T : ~ (y < x)
  BY <1>2, <1>3
<1>. QED  BY <1>4

\* A set that contains 0 and the successor of each number in it contains
\* every natural number.
LEMMA SetInduction ==
    ASSUME NEW S, 0 \in S, \A n \in Nat : n \in S => n + 1 \in S
    PROVE  \A n \in Nat : n \in S
<1>. DEFINE T == Nat \ S
<1>. SUFFICES ASSUME T # {} PROVE FALSE
  OBVIOUS
<1>1. PICK n \in T : \A m \in T : n <= m
  <2>1. T \subseteq Nat
    OBVIOUS
  <2>. HIDE DEF T
  <2>. QED  BY <2>1, LeastNatural
<1>2. n - 1 \in Nat /\ n - 1 \notin T
  BY <1>1
<1>. QED  BY <1>2

\* The same up to a bound.
LEMMA BoundedInduction ==
    ASSUME NEW N \in Nat, NEW S, 0 \in S, \A n \in 0..N - 1 : n \in S => n + 1 \in S
    PROVE  \A n \in 0..N : n \in S
<1>. DEFINE T == {n \in Nat : n \in 0..N => n \in S}
<1>1. 0 \in T
  OBVIOUS
<1>2. ASSUME NEW n \in Nat, n \in T PROVE n + 1 \in T
  BY <1>2
<1>3. \A n \in Nat : n \in T
  <2>. HIDE DEF T
  <2>. QED  BY <1>1, <1>2, SetInduction
<1>. QED  BY <1>3

-----------------------------------------------------------------------------
\* Doubling the exponent's successor: the subsets of 1..n+1 are those of 1..n,
\* without and with n+1.
LEMMA PowerStep ==
    ASSUME NEW n \in Nat
    PROVE  2^n \in Nat /\ 2^(n + 1) = 2^n + 2^n
<1>. DEFINE A == SUBSET (1..n)
            B == {a \cup {n + 1} : a \in A}
<1>1. /\ IsFiniteSet(1..n) /\ Cardinality(1..n) = n
      /\ IsFiniteSet(1..(n + 1)) /\ Cardinality(1..(n + 1)) = n + 1
  BY FS_Interval
<1>2. /\ IsFiniteSet(A) /\ Cardinality(A) = 2^n
      /\ Cardinality(SUBSET (1..(n + 1))) = 2^(n + 1)
  BY <1>1, FS_SUBSET
<1>3. SUBSET (1..(n + 1)) = A \cup B
  <2>1. ASSUME NEW b \in SUBSET (1..(n + 1)), n + 1 \in b PROVE b \in B
    <3>1. b \ {n + 1} \in A
      OBVIOUS
    <3>2. b = (b \ {n + 1}) \cup {n + 1}
      BY <2>1
    <3>. QED  BY <3>1, <3>2
  <2>2. ASSUME NEW b \in SUBSET (1..(n + 1)), n + 1 \notin b PROVE b \in A
    BY <2>2
  <2>3. SUBSET (1..(n + 1)) \subseteq A \cup B
    BY <2>1, <2>2
  <2>4. \A a \in A : a \in SUBSET (1..(n + 1)) /\ a \cup {n + 1} \in SUBSET (1..(n + 1))
    OBVIOUS
  <2>5. A \subseteq SUBSET (1..(n + 1)) /\ B \subseteq SUBSET (1..(n + 1))
    <3>1. ASSUME NEW b \in B PROVE b \in SUBSET (1..(n + 1))
      <4>1. PICK a \in A : b = a \cup {n + 1}
        OBVIOUS
      <4>. HIDE DEF A, B
      <4>. QED  BY <2>4, <4>1
    <3>. HIDE DEF A, B
    <3>. QED  BY <2>4, <3>1
  <2>. HIDE DEF A, B
  <2>. QED  BY <2>3, <2>5
<1>4. A \cap B = {}
  OBVIOUS
<1>5. IsFiniteSet(B) /\ Cardinality(B) = Cardinality(A)
  <2>. DEFINE f == [a \in A |-> a \cup {n + 1}]
  <2>1. f \in [A -> B] /\ \A b \in B : \E a \in A : f[a] = b
    OBVIOUS
  <2>2. ASSUME NEW a \in A, NEW b \in A, f[a] = f[b] PROVE a = b
    <3>1. a \cup {n + 1} = b \cup {n + 1} /\ n + 1 \notin a /\ n + 1 \notin b
      BY <2>2
    <3>. QED  BY <3>1
  <2>. HIDE DEF f, A, B
  <2>3. ExistsBijection(A, B)
    BY <2>1, <2>2 DEF ExistsBijection, Bijection, Injection, Surjection, IsInjective
  <2>. QED  BY <2>3, <1>2, FS_Bijection
<1>. HIDE DEF A, B
<1>6. 2^n \in Nat
  BY <1>2, FS_CardinalityType
<1>7. Cardinality(A \cup B) = Cardinality(A) + Cardinality(B) - Cardinality(A \cap B)
  BY <1>2, <1>5, FS_Union
<1>8. Cardinality(A \cap B) = 0
  BY <1>4, FS_EmptySet
<1>9. Cardinality(A) = 2^n /\ Cardinality(B) = 2^n
  BY <1>2, <1>5
<1>10. Cardinality(A \cup B) = 2^(n + 1)
  BY <1>2, <1>3
<1>. DEFINE p == 2^n
            q == 2^(n + 1)
<1>11. p \in Nat /\ q = p + p - 0
  BY <1>6, <1>7, <1>8, <1>9, <1>10
<1>12. q = p + p
  <2>. HIDE DEF p, q
  <2>. QED  BY <1>11
<1>. QED  BY <1>6, <1>12
\* Powers of two are positive.
LEMMA PowerPositive == 2^0 = 1 /\ \A n \in Nat : 2^n \in Nat /\ 2^n > 0
<1>. DEFINE S == {n \in Nat : 2^n > 0}
<1>1. 2^0 = 1 /\ 0 \in S
  OBVIOUS
<1>2. ASSUME NEW n \in Nat, n \in S PROVE n + 1 \in S
  BY <1>2, PowerStep
<1>3. \A n \in Nat : n \in S
  <2>. HIDE DEF S
  <2>. QED  BY <1>1, <1>2, SetInduction
<1>. QED  BY <1>1, <1>3, PowerStep

\* The sum of exponents.
LEMMA PowerSum ==
    ASSUME NEW m \in Nat
    PROVE  \A n \in Nat : 2^(m + n) = 2^m * 2^n
<1>. DEFINE S == {n \in Nat : 2^(m + n) = 2^m * 2^n}
<1>1. 0 \in S
  <2>1. 2^m \in Nat /\ m + 0 = m
    BY PowerPositive
  <2>. QED  BY <2>1, PowerPositive
<1>2. ASSUME NEW n \in Nat, n \in S PROVE n + 1 \in S
  <2>1. 2^(m + (n + 1)) = 2^(m + n) + 2^(m + n)
    <3>1. m + (n + 1) = (m + n) + 1 /\ m + n \in Nat
      OBVIOUS
    <3>. QED  BY ONLY <3>1, PowerStep
  <2>2. 2^(n + 1) = 2^n + 2^n /\ 2^n \in Nat /\ 2^m \in Nat
    BY PowerStep
  <2>3. \A a, b \in Nat : a * (b + b) = a * b + a * b
    OBVIOUS
  <2>4. 2^m * 2^(n + 1) = 2^m * 2^n + 2^m * 2^n
    BY ONLY <2>2, <2>3
  <2>. QED  BY <1>2, <2>1, <2>4
<1>. HIDE DEF S
<1>3. \A n \in Nat : n \in S
  BY <1>1, <1>2, SetInduction
<1>. QED  BY <1>3 DEF S

\* A greater exponent at least doubles.
LEMMA PowerMonotone ==
    ASSUME NEW m \in Nat, NEW n \in Nat, m <= n
    PROVE  /\ 2^m <= 2^n /\ 2^n = 2^(n - m) * 2^m
           /\ m < n => 2 * 2^m <= 2^n
<1>. DEFINE c == n - m
<1>1. c \in Nat /\ m + c = n
  OBVIOUS
<1>2. 2^n = 2^m * 2^c /\ 2^c \in Nat /\ 2^c > 0 /\ 2^m \in Nat /\ 2^n \in Nat
  BY <1>1, PowerSum, PowerPositive
<1>3. m < n => 2^c >= 2
  <2>. SUFFICES ASSUME m < n PROVE 2^c >= 2
    OBVIOUS
  <2>1. c - 1 \in Nat /\ (c - 1) + 1 = c
    OBVIOUS
  <2>2. 2^(c - 1) > 0 /\ 2^(c - 1) \in Nat /\ 2^((c - 1) + 1) = 2^(c - 1) + 2^(c - 1)
    BY ONLY <2>1, PowerStep, PowerPositive
  <2>. QED  BY <2>1, <2>2
<1>4. \A x, y \in Nat : y > 0 => x <= x * y /\ x * y = y * x
  OBVIOUS
<1>5. \A x, y \in Nat : y >= 2 => 2 * x <= x * y
  OBVIOUS
<1>. DEFINE p == 2^m
            k == 2^c
            z == 2^n
<1>6. p \in Nat /\ k \in Nat /\ k > 0 /\ z = p * k /\ (m < n => k >= 2)
  BY <1>2, <1>3
<1>. HIDE DEF p, k, z
<1>7. p <= z /\ z = k * p /\ (m < n => 2 * p <= z)
  BY <1>4, <1>5, <1>6
<1>. QED  BY <1>7 DEF p, k, z

-----------------------------------------------------------------------------
\* Quotient and remainder are what multiply back.
LEMMA Quotient ==
    ASSUME NEW a \in Nat, NEW d \in Nat, d > 0
    PROVE  /\ a \div d \in Nat /\ a % d \in 0..d - 1
           /\ a = d * (a \div d) + (a % d)
OBVIOUS

\* Nothing else does.
LEMMA QuotientUnique ==
    ASSUME NEW d \in Nat, NEW q \in Nat, NEW r \in 0..d - 1
    PROVE  (d * q + r) \div d = q /\ (d * q + r) % d = r
<1>. DEFINE a == d * q + r
            x == a \div d
            s == a % d
<1>1. d > 0 /\ a \in Nat
  OBVIOUS
<1>2. x \in Nat /\ s \in 0..d - 1 /\ a = d * x + s
  BY <1>1, Quotient
<1>. HIDE DEF x, s
<1>3. d * q + r = d * x + s
  BY <1>2
<1>4. x = q
  <2>1. CASE x < q
    <3>1. PICK e \in Nat : q = x + 1 + e
      BY <2>1, <1>2
    <3>2. d * q = d * x + d + d * e /\ d * e >= 0
      BY <3>1, <1>2
    <3>. QED  BY <3>2, <1>3, <1>2
  <2>2. CASE q < x
    <3>1. PICK e \in Nat : x = q + 1 + e
      BY <2>2, <1>2
    <3>2. d * x = d * q + d + d * e /\ d * e >= 0
      BY <3>1, <1>2
    <3>. QED  BY <3>2, <1>3, <1>2
  <2>. QED  BY <2>1, <2>2, <1>2
<1>5. s = r
  BY <1>2, <1>3, <1>4
<1>. QED  BY <1>4, <1>5 DEF x, s
\* A quotient of a quotient, and its bound.
LEMMA QuotientOfQuotient ==
    ASSUME NEW a \in Nat, NEW c \in Nat, NEW d \in Nat, c > 0, d > 0
    PROVE  (a \div c) \div d = a \div (c * d)
<1>. DEFINE q == a \div c
            r == a % c
            x == q \div d
            s == q % d
<1>1. q \in Nat /\ r \in 0..c - 1 /\ a = c * q + r
  BY Quotient
<1>2. x \in Nat /\ s \in 0..d - 1 /\ q = d * x + s
  <2>. HIDE DEF q
  <2>. QED  BY <1>1, Quotient
<1>. HIDE DEF q, r, x, s
<1>3. c * (d * x + s) = (c * d) * x + c * s
  BY <1>2
<1>4. c * s \in Nat /\ c * s <= c * (d - 1)
  BY <1>2
<1>5. c * (d - 1) = c * d - c /\ c * d \in Nat
  OBVIOUS
<1>6. c * s + r \in 0..(c * d) - 1
  BY <1>1, <1>4, <1>5
<1>7. a = (c * d) * x + (c * s + r)
  BY <1>1, <1>2, <1>3, <1>4
<1>8. a \div (c * d) = x
  BY <1>2, <1>5, <1>6, <1>7, QuotientUnique
<1>. QED  BY <1>8 DEF q, x

LEMMA QuotientBelow ==
    ASSUME NEW c \in Nat, NEW d \in Nat, d > 0, NEW a \in 0..c * d - 1
    PROVE  a \div d \in 0..c - 1
<1>1. a \in Nat /\ a < c * d
  OBVIOUS
<1>. DEFINE q == a \div d
<1>2. q \in Nat /\ a >= d * q
  BY <1>1, Quotient
<1>. HIDE DEF q
<1>3. ASSUME q >= c PROVE FALSE
  <2>1. PICK e \in Nat : q = c + e
    BY <1>2, <1>3
  <2>2. d * q = c * d + d * e /\ d * e >= 0
    BY <2>1
  <2>. QED  BY <2>2, <1>1, <1>2
<1>. QED  BY <1>2, <1>3 DEF q

\* The multiples of d with a given quotient.
LEMMA QuotientRange ==
    ASSUME NEW a \in Nat, NEW d \in Nat, d > 0, NEW q \in Nat
    PROVE  a \div d = q <=> a \in d * q..d * (q + 1) - 1
<1>1. /\ a \div d \in Nat /\ a % d \in 0..d - 1 /\ a = d * (a \div d) + (a % d)
  BY Quotient
<1>2. d * (q + 1) = d * q + d /\ d * q \in Nat
  OBVIOUS
<1>3. a \div d = q => a \in d * q..d * (q + 1) - 1
  BY <1>1, <1>2
<1>4. ASSUME a \in d * q..d * (q + 1) - 1 PROVE a \div d = q
  <2>1. a - d * q \in 0..d - 1 /\ a = d * q + (a - d * q)
    BY <1>2, <1>4
  <2>. QED  BY <2>1, QuotientUnique
<1>. QED  BY <1>3, <1>4

\* Halving both operands.
LEMMA QuotientDoubled ==
    ASSUME NEW a \in Nat, NEW d \in Nat, d > 0
    PROVE  (2 * a) \div (2 * d) = a \div d /\ (2 * a + 1) \div (2 * d) = a \div d
<1>. DEFINE q == a \div d
            r == a % d
<1>1. q \in Nat /\ r \in 0..d - 1 /\ a = d * q + r
  BY Quotient
<1>. HIDE DEF q, r
<1>2. /\ 2 * a = (2 * d) * q + 2 * r /\ 2 * r \in 0..(2 * d) - 1
      /\ 2 * a + 1 = (2 * d) * q + (2 * r + 1) /\ 2 * r + 1 \in 0..(2 * d) - 1
      /\ 2 * d \in Nat
  BY <1>1
<1>3. (2 * a) \div (2 * d) = q
  BY <1>1, <1>2, QuotientUnique
<1>4. (2 * a + 1) \div (2 * d) = q
  BY <1>1, <1>2, QuotientUnique
<1>. QED  BY <1>3, <1>4 DEF q

\* Shifting a number down, step by step and at once.
LEMMA ShiftSum ==
    ASSUME NEW a \in Nat, NEW m \in Nat, NEW n \in Nat
    PROVE  (a \div 2^m) \div 2^n = a \div 2^(m + n)
<1>1. 2^m \in Nat /\ 2^m > 0 /\ 2^n \in Nat /\ 2^n > 0 /\ 2^(m + n) = 2^m * 2^n
  BY PowerPositive, PowerSum
<1>2. \A c, d \in Nat : c > 0 /\ d > 0 => (a \div c) \div d = a \div (c * d)
  BY QuotientOfQuotient
<1>. QED  BY ONLY <1>1, <1>2

LEMMA ShiftBelow ==
    ASSUME NEW n \in Nat, NEW m \in 0..n, NEW a \in 0..2^n - 1
    PROVE  a \div 2^m \in 0..2^(n - m) - 1
<1>1. 2^n = 2^(n - m) * 2^m /\ 2^(n - m) \in Nat /\ 2^m \in Nat /\ 2^m > 0
  BY PowerMonotone, PowerPositive
<1>. QED  BY <1>1, QuotientBelow

-----------------------------------------------------------------------------
\* Every number from 1 has one power of two at or below it and more than its
\* half: a heap's rows are disjoint and leave out no node.
LEMMA RowOfNode ==
    ASSUME NEW L \in Nat
    PROVE  \A i \in 1..2^L - 1 : \E r \in 0..L - 1 : \E k \in 0..2^r - 1 : i = 2^r + k
<1>. DEFINE S == {n \in Nat : \A i \in 1..2^n - 1 : \E r \in 0..n - 1 :
                                 \E k \in 0..2^r - 1 : i = 2^r + k}
<1>1. 0 \in S
  BY PowerPositive
<1>2. ASSUME NEW n \in Nat, n \in S PROVE n + 1 \in S
  <2>. SUFFICES ASSUME NEW i \in 1..2^(n + 1) - 1
                PROVE  \E r \in 0..(n + 1) - 1 : \E k \in 0..2^r - 1 : i = 2^r + k
    OBVIOUS
  <2>1. 2^(n + 1) = 2^n + 2^n /\ 2^n \in Nat /\ 2^n > 0
    BY PowerStep, PowerPositive
  <2>2. CASE i < 2^n
    <3>1. i \in 1..2^n - 1
      BY <2>1, <2>2
    <3>2. PICK r \in 0..n - 1 : \E k \in 0..2^r - 1 : i = 2^r + k
      BY <1>2, <3>1
    <3>. QED  BY <3>2
  <2>3. CASE i >= 2^n
    <3>1. i - 2^n \in 0..2^n - 1 /\ i = 2^n + (i - 2^n) /\ n \in 0..(n + 1) - 1
      BY <2>1, <2>3
    <3>. QED  BY <3>1
  <2>. QED  BY <2>1, <2>2, <2>3
<1>3. \A n \in Nat : n \in S
  <2>. HIDE DEF S
  <2>. QED  BY <1>1, <1>2, SetInduction
<1>. QED  BY <1>3

LEMMA RowsDisjoint ==
    ASSUME NEW r \in Nat, NEW q \in Nat, NEW k \in 0..2^r - 1, NEW j \in 0..2^q - 1,
           2^r + k = 2^q + j
    PROVE  r = q /\ k = j
<1>1. 2^r \in Nat /\ 2^q \in Nat
  BY PowerPositive
<1>2. ~ r < q
  BY <1>1, PowerMonotone
<1>3. ~ q < r
  BY <1>1, PowerMonotone
<1>4. r = q
  BY <1>2, <1>3
<1>. QED  BY <1>1, <1>4

\* The multiples of a power of two below a higher one.
LEMMA Multiples ==
    ASSUME NEW L \in Nat, NEW s \in 0..L
    PROVE  /\ \A j \in 0..2^(L - s) - 1 : /\ 2^s * j \in Nat
                                          /\ 2^s * j + 2^s - 1 \in 0..2^L - 1
           /\ \A i \in 0..2^L - 1 : i % 2^s = 0 <=> \E j \in 0..2^(L - s) - 1 : i = 2^s * j
<1>. DEFINE d == 2^s
            c == 2^(L - s)
<1>1. 2^L = c * d /\ c \in Nat /\ d \in Nat /\ d > 0
  BY PowerMonotone, PowerPositive
<1>. HIDE DEF c, d
<1>2. ASSUME NEW j \in 0..c - 1 PROVE d * j \in Nat /\ d * j + d - 1 \in 0..c * d - 1
  <2>1. PICK e \in Nat : c = j + 1 + e
    BY <1>1
  <2>2. c * d = d * j + d + d * e /\ d * e >= 0 /\ d * j \in Nat
    BY <2>1, <1>1
  <2>. QED  BY <2>2, <1>1
<1>3. ASSUME NEW i \in 0..c * d - 1 PROVE i % d = 0 <=> \E j \in 0..c - 1 : i = d * j
  <2>1. i \in Nat /\ i \div d \in 0..c - 1 /\ i = d * (i \div d) + (i % d)
    BY <1>1, Quotient, QuotientBelow
  <2>2. i % d = 0 => i = d * (i \div d)
    BY <2>1, <1>1
  <2>3. ASSUME NEW j \in 0..c - 1, i = d * j PROVE i % d = 0
    <3>1. (d * j + 0) % d = 0 /\ d * j + 0 = d * j
      BY <1>1, QuotientUnique
    <3>. QED  BY <3>1, <2>3
  <2>. QED  BY <2>1, <2>2, <2>3
<1>. QED  BY <1>1, <1>2, <1>3 DEF c, d

\* The neighbour of a number in a pair is a number of the same range, in the
\* same pair.
LEMMA TwinRange ==
    ASSUME NEW n \in Nat \ {0}, NEW x \in 0..2^n - 1,
           NEW t, t = IF x % 2 = 0 THEN x + 1 ELSE x - 1
    PROVE  t \in 0..2^n - 1 /\ t \div 2 = x \div 2 /\ t # x
<1>1. 2^n = 2 * 2^(n - 1) /\ 2^(n - 1) \in Nat
  <2>1. n - 1 \in Nat /\ (n - 1) + 1 = n
    OBVIOUS
  <2>2. 2^((n - 1) + 1) = 2^(n - 1) + 2^(n - 1) /\ 2^(n - 1) \in Nat
    BY <2>1, PowerStep
  <2>. QED  BY <2>1, <2>2
<1>. DEFINE m == 2^(n - 1)
<1>2. 2^n = 2 * m /\ m \in Nat
  BY <1>1
<1>. HIDE DEF m
<1>. QED  BY <1>2

\* Adding a multiple of the divisor.
LEMMA QuotientOfSum ==
    ASSUME NEW d \in Nat, d > 0, NEW e \in Nat, NEW a \in Nat
    PROVE  (d * e + a) \div d = e + (a \div d)
<1>1. a \div d \in Nat /\ a % d \in 0..d - 1 /\ a = d * (a \div d) + (a % d)
  BY Quotient
<1>. DEFINE q == a \div d
            r == a % d
<1>. HIDE DEF q, r
<1>2. q \in Nat /\ r \in 0..d - 1 /\ a = d * q + r
  BY <1>1 DEF q, r
<1>3. d * e + a = d * (e + q) + r /\ e + q \in Nat
  <2>1. \A x, y \in Nat : d * (x + y) = d * x + d * y
    OBVIOUS
  <2>. QED  BY <1>2, <2>1
<1>4. (d * (e + q) + r) \div d = e + q
  BY <1>2, <1>3, QuotientUnique
<1>. QED  BY <1>3, <1>4 DEF q

\* A sequence of n elements, and one sequence followed by another (names of
\* their own: the provers find instances for operators they know nothing of
\* more easily than for those of the library).
Lists(s, n) == s \in [1..n -> {s[i] : i \in 1..n}]
Joined(s, t) == s \o t

\* Where the elements of the two are.
LEMMA Concatenation ==
    ASSUME NEW n \in Nat, NEW k \in Nat, NEW s, NEW t, Lists(s, n), Lists(t, k)
    PROVE  /\ Lists(Joined(s, t), n + k)
           /\ \A i \in 1..n : Joined(s, t)[i] = s[i]
           /\ \A i \in 1..k : Joined(s, t)[n + i] = t[i]
<1>. DEFINE S == {s[i] : i \in 1..n} \cup {t[i] : i \in 1..k}
<1>1. s \in [1..n -> S] /\ t \in [1..k -> S]
  BY DEF Lists
<1>. HIDE DEF S
<1>2. s \in Seq(S) /\ Len(s) = n /\ t \in Seq(S) /\ Len(t) = k
  BY <1>1, SeqDef, LenProperties
<1>3. /\ s \o t \in Seq(S) /\ Len(s \o t) = n + k
      /\ \A i \in 1..n + k : (s \o t)[i] = IF i <= n THEN s[i] ELSE t[i - n]
  BY <1>2, ConcatProperties
<1>4. Joined(s, t) \in [1..n + k -> S]
  BY <1>3, LenProperties DEF Joined
<1>5. \A i \in 1..k : (s \o t)[n + i] = t[i]
  <2>1. \A i \in 1..k : n + i \in 1..n + k /\ ~ n + i <= n /\ (n + i) - n = i
    OBVIOUS
  <2>. QED  BY <1>3, <2>1
<1>6. Lists(Joined(s, t), n + k)
  BY <1>4 DEF Lists
<1>. QED  BY <1>3, <1>5, <1>6 DEF Joined

\* A position in one of several blocks of the same length.
LEMMA PositionInBlock ==
    ASSUME NEW w \in Nat, NEW x \in 0..w - 1, NEW y \in Nat, NEW z \in 0..y - 1
    PROVE  y * x + z \in 0..w * y - 1 /\ x * y + z = y * x + z
<1>1. PICK v \in Nat : w = x + 1 + v
  BY w - x - 1 \in Nat
<1>2. w * y = y * x + y + v * y /\ v * y \in Nat /\ y * x \in Nat /\ x * y = y * x
  BY <1>1
<1>. QED  BY <1>2
-----------------------------------------------------------------------------
(* Sums over sets of positions. *)

\* What FiniteSetsExt folds with: the sums over all subsets of S, each from the
\* one without the element that CHOOSE takes.
FoldOf(I, t, S) ==
    I = [s \in SUBSET S |->
            IF s = {} THEN 0
            ELSE LET x == CHOOSE x \in s : TRUE IN t[x] + I[s \ {x}]]

\* Such sums exist.
LEMMA FoldExists ==
    ASSUME NEW S, IsFiniteSet(S), NEW t
    PROVE  \E I : FoldOf(I, t, S)
<1>. DEFINE Small(n) == {s \in SUBSET S : Cardinality(s) <= n}
            UpTo(I, n) == I = [s \in Small(n) |->
                                 IF s = {} THEN 0
                                 ELSE LET x == CHOOSE x \in s : TRUE IN t[x] + I[s \ {x}]]
            T == {n \in Nat : \E I : UpTo(I, n)}
<1>1. ASSUME NEW s \in SUBSET S PROVE IsFiniteSet(s) /\ Cardinality(s) \in 0..Cardinality(S)
  BY FS_Subset, FS_CardinalityType
<1>2. 0 \in T
  <2>. DEFINE I == [s \in Small(0) |-> 0]
  <2>1. ASSUME NEW s \in Small(0) PROVE s = {}
    <3>1. IsFiniteSet(s) /\ Cardinality(s) = 0
      BY <1>1
    <3>. QED  BY <3>1, FS_EmptySet
  <2>2. UpTo(I, 0)
    BY <2>1
  <2>. QED  BY <2>2
<1>3. ASSUME NEW n \in Nat, n \in T PROVE n + 1 \in T
  <2>1. PICK F : UpTo(F, n)
    BY <1>3
  <2>. DEFINE Value1(I, s) == IF s = {} THEN 0
                              ELSE LET x == CHOOSE x \in s : TRUE IN t[x] + I[s \ {x}]
              G == [s \in Small(n + 1) |-> IF s \in Small(n) THEN F[s] ELSE Value1(F, s)]
  <2>2. ASSUME NEW s \in Small(n + 1), s # {}
        PROVE  /\ s \ {CHOOSE x \in s : TRUE} \in Small(n)
               /\ s \ {CHOOSE x \in s : TRUE} \in Small(n + 1)
    <3>. DEFINE x == CHOOSE x \in s : TRUE
    <3>1. x \in s
      BY <2>2
    <3>. HIDE DEF x
    <3>2. IsFiniteSet(s) /\ Cardinality(s) \in Nat /\ Cardinality(s \ {x}) = Cardinality(s) - 1
      BY <1>1, <3>1, FS_RemoveElement
    <3>. QED  BY <3>1, <3>2 DEF x
  <2>3. ASSUME NEW s \in Small(n + 1) PROVE G[s] = Value1(G, s)
    <3>1. CASE s = {}
      <4>1. s \in Small(n)
        BY <3>1, FS_EmptySet
      <4>. QED  BY <2>1, <3>1, <4>1
    <3>2. CASE s # {}
      <4>. DEFINE x == CHOOSE x \in s : TRUE
      <4>1. s \ {x} \in Small(n) /\ s \ {x} \in Small(n + 1)
        BY <2>2, <3>2
      <4>2. G[s \ {x}] = F[s \ {x}]
        BY <4>1
      <4>3. Value1(G, s) = Value1(F, s)
        BY <4>2
      <4>4. s \in Small(n) => F[s] = Value1(F, s)
        BY <2>1
      <4>. QED  BY <4>3, <4>4
    <3>. QED  BY <3>1, <3>2
  <2>4. UpTo(G, n + 1)
    <3>1. G = [s \in Small(n + 1) |-> G[s]]
      OBVIOUS
    <3>. HIDE DEF G, Small
    <3>2. [s \in Small(n + 1) |-> G[s]] = [s \in Small(n + 1) |-> Value1(G, s)]
      BY <2>3
    <3>. QED  BY <3>1, <3>2
  <2>. HIDE DEF G, UpTo
  <2>. QED  BY <2>4
<1>4. Cardinality(S) \in T
  <2>1. Cardinality(S) \in Nat
    BY FS_CardinalityType
  <2>. HIDE DEF T
  <2>. QED  BY <1>2, <1>3, <2>1, SetInduction
<1>5. PICK I : UpTo(I, Cardinality(S))
  BY <1>4
<1>6. Small(Cardinality(S)) = SUBSET S
  BY <1>1
<1>. HIDE DEF Small
<1>7. FoldOf(I, t, S)
  BY <1>5, <1>6 DEF FoldOf
<1>. QED  BY <1>7

\* In them any element may be taken out first.
SumOf(I, t, S) ==
    /\ I[{}] = 0
    /\ \A s \in SUBSET S : /\ I[s] \in Int
                           /\ \A x \in s : I[s] = t[x] + I[s \ {x}]

LEMMA FoldSum ==
    ASSUME NEW S, IsFiniteSet(S), NEW t, \A x \in S : t[x] \in Int,
           NEW I, FoldOf(I, t, S)
    PROVE  SumOf(I, t, S)
<1>. DEFINE Right(s) == I[s] \in Int /\ \A x \in s : I[s] = t[x] + I[s \ {x}]
            T == {n \in Nat : \A s \in SUBSET S : Cardinality(s) <= n => Right(s)}
<1>1. ASSUME NEW s \in SUBSET S
      PROVE  /\ IsFiniteSet(s) /\ Cardinality(s) \in Nat
             /\ \A x \in s : Cardinality(s \ {x}) = Cardinality(s) - 1
             /\ Cardinality(s) = 0 => s = {}
  BY FS_Subset, FS_CardinalityType, FS_RemoveElement, FS_EmptySet
<1>2. I[{}] = 0
  BY DEF FoldOf
<1>3. 0 \in T
  <2>. SUFFICES ASSUME NEW s \in SUBSET S, Cardinality(s) <= 0 PROVE Right(s)
    OBVIOUS
  <2>1. s = {}
    BY <1>1
  <2>. QED  BY <1>2, <2>1
<1>4. ASSUME NEW n \in Nat, n \in T PROVE n + 1 \in T
  <2>. SUFFICES ASSUME NEW s \in SUBSET S, Cardinality(s) <= n + 1, s # {} PROVE Right(s)
    <3>1. Right({})
      BY <1>2
    <3>. HIDE DEF Right
    <3>. QED  BY <3>1
  <2>. DEFINE y == CHOOSE y \in s : TRUE
  <2>1. y \in s
    OBVIOUS
  <2>2. I[s] = t[y] + I[s \ {y}]
    BY <2>1 DEF FoldOf
  <2>. HIDE DEF y
  <2>3. ASSUME NEW x \in s PROVE Cardinality(s \ {x}) <= n
    <3>1. Cardinality(s \ {x}) = Cardinality(s) - 1 /\ Cardinality(s) \in Nat
      BY <1>1
    <3>. QED  BY <3>1
  <2>4. ASSUME NEW x \in s PROVE Right(s \ {x})
    BY <1>4, <2>3
  <2>5. I[s] \in Int
    <3>1. t[y] \in Int /\ I[s \ {y}] \in Int
      BY <2>1, <2>4
    <3>. QED  BY <2>2, <3>1
  <2>6. ASSUME NEW x \in s, x # y PROVE I[s] = t[x] + I[s \ {x}]
    <3>1. x \in s \ {y} /\ y \in s \ {x} /\ (s \ {y}) \ {x} = (s \ {x}) \ {y}
      BY <2>1, <2>6
    <3>2. I[s \ {y}] = t[x] + I[(s \ {y}) \ {x}]
      BY <2>1, <2>4, <3>1
    <3>3. I[s \ {x}] = t[y] + I[(s \ {x}) \ {y}]
      BY <2>4, <3>1
    <3>4. Right((s \ {y}) \ {x})
      <4>1. (s \ {y}) \ {x} \in SUBSET S /\ s \ {y} \in SUBSET S
        OBVIOUS
      <4>2. Cardinality((s \ {y}) \ {x}) = Cardinality(s \ {y}) - 1
        BY <1>1, <3>1, <4>1
      <4>3. Cardinality((s \ {y}) \ {x}) <= n
        BY <1>1, <2>1, <2>3, <4>1, <4>2
      <4>. QED  BY <1>4, <4>1, <4>3
    <3>5. t[x] \in Int /\ t[y] \in Int
      BY <2>1
    <3>. DEFINE rest == I[(s \ {y}) \ {x}]
    <3>6. I[s] = t[y] + (t[x] + rest) /\ I[s \ {x}] = t[y] + rest /\ rest \in Int
      BY <2>2, <3>1, <3>2, <3>3, <3>4
    <3>. HIDE DEF rest
    <3>. QED  BY <3>5, <3>6
  <2>. QED  BY <2>2, <2>5, <2>6
<1>5. \A n \in Nat : n \in T
  <2>. HIDE DEF T
  <2>. QED  BY <1>3, <1>4, SetInduction
<1>6. ASSUME NEW s \in SUBSET S PROVE Right(s)
  <2>1. Cardinality(s) \in Nat
    BY <1>1
  <2>2. Cardinality(s) \in T
    BY <1>5, <2>1
  <2>3. Cardinality(s) <= Cardinality(s)
    BY <2>1
  <2>. HIDE DEF Right
  <2>. QED  BY <2>2, <2>3
<1>. QED  BY <1>2, <1>6 DEF SumOf

\* The sums below each of the first N positions, for terms that are t's.
PartialSums(p, t, N) ==
    /\ p[0] = 0
    /\ \A n \in 0..N : p[n] \in Int
    /\ \A n \in 0..N - 1 : p[n + 1] = p[n] + t[n]

LEMMA FoldParts ==
    ASSUME NEW N \in Nat, NEW t, \A i \in 0..N - 1 : t[i] \in Int,
           NEW I, FoldOf(I, t, 0..N - 1)
    PROVE  \E p : PartialSums(p, t, N) /\ p[N] = I[0..N - 1]
<1>. DEFINE All == 0..N - 1
            p == [n \in 0..N |-> I[0..n - 1]]
<1>1. IsFiniteSet(All)
  BY FS_Interval
<1>2. /\ I[{}] = 0
      /\ \A s \in SUBSET All : /\ I[s] \in Int
                               /\ \A x \in s : I[s] = t[x] + I[s \ {x}]
  <2>1. SumOf(I, t, All)
    BY <1>1, FoldSum
  <2>. QED  BY <2>1 DEF SumOf
<1>3. p[0] = 0
  <2>1. 0..0 - 1 = {}
    OBVIOUS
  <2>. QED  BY <1>2, <2>1
<1>4. ASSUME NEW n \in 0..N PROVE p[n] \in Int
  <2>1. 0..n - 1 \in SUBSET All
    OBVIOUS
  <2>. QED  BY <1>2, <2>1
<1>5. ASSUME NEW n \in All PROVE p[n + 1] = p[n] + t[n]
  <2>. DEFINE up == 0..n
              low == 0..n - 1
  <2>1. /\ n \in 0..N /\ n + 1 \in 0..N /\ 0..(n + 1) - 1 = up
        /\ up \in SUBSET All /\ n \in up /\ up \ {n} = low
    OBVIOUS
  <2>2. p[n + 1] = I[up] /\ p[n] = I[low]
    BY <2>1
  <2>. HIDE DEF up, low, p
  <2>3. I[up] = t[n] + I[low]
    BY <1>2, <2>1
  <2>4. p[n] \in Int /\ t[n] \in Int
    BY <1>4, <2>1
  <2>. QED  BY <2>2, <2>3, <2>4
<1>. HIDE DEF p
<1>6. p[N] = I[All]
  BY DEF p
<1>. QED  BY <1>3, <1>4, <1>5, <1>6 DEF PartialSums

\* The number that N bits denote, as a sum over their positions, ...
BinaryNumber(b, N) ==
    (CHOOSE J : J = [s \in SUBSET (0..N - 1) |->
                       IF s = {} THEN 0
                       ELSE LET x == CHOOSE x \in s : TRUE IN b[x] * 2^x + J[s \ {x}]])[0..N - 1]

\* ... is the last of the partial sums.
LowParts(p, b, N) ==
    /\ p[0] = 0
    /\ \A n \in 0..N : p[n] \in 0..2^n - 1
    /\ \A n \in 0..N - 1 : p[n + 1] = p[n] + b[n] * 2^n

LEMMA BinaryLowParts ==
    ASSUME NEW N \in Nat, NEW b, \A i \in 0..N - 1 : b[i] \in {0, 1}
    PROVE  \E p : LowParts(p, b, N) /\ p[N] = BinaryNumber(b, N)
<1>. DEFINE All == 0..N - 1
            t == [i \in All |-> b[i] * 2^i]
            Sums(J) == J = [s \in SUBSET All |->
                              IF s = {} THEN 0
                              ELSE LET x == CHOOSE x \in s : TRUE IN b[x] * 2^x + J[s \ {x}]]
            I == CHOOSE J : Sums(J)
<1>1. ASSUME NEW J
      PROVE  FoldOf(J, t, All) <=> Sums(J)
  <2>1. ASSUME NEW s \in SUBSET All, s # {}
        PROVE  t[CHOOSE x \in s : TRUE] = b[CHOOSE x \in s : TRUE] * 2^(CHOOSE x \in s : TRUE)
    <3>1. (CHOOSE x \in s : TRUE) \in All
      BY <2>1
    <3>. QED  BY <3>1
  <2>. HIDE DEF t
  <2>. QED  BY <2>1 DEF FoldOf
<1>2. BinaryNumber(b, N) = I[All]
  BY DEF BinaryNumber
<1>3. ASSUME NEW i \in All PROVE t[i] \in Int
  BY PowerPositive
<1>4. FoldOf(I, t, All)
  <2>1. IsFiniteSet(All)
    BY FS_Interval
  <2>. HIDE DEF t, Sums
  <2>2. \E J : FoldOf(J, t, All)
    BY <2>1, FoldExists
  <2>3. \E J : Sums(J)
    BY <1>1, <2>2
  <2>4. Sums(I)
    BY <2>3
  <2>. QED  BY <1>1, <2>4
<1>. HIDE DEF t, I, Sums
<1>5. PICK p : PartialSums(p, t, N) /\ p[N] = BinaryNumber(b, N)
  BY <1>2, <1>3, <1>4, FoldParts
<1>6. /\ p[0] = 0
      /\ \A n \in All : p[n + 1] = p[n] + b[n] * 2^n
  BY <1>5 DEF PartialSums, t
<1>. DEFINE S == {n \in Nat : n \in 0..N => p[n] \in 0..2^n - 1}
<1>7. 0 \in S
  BY <1>6, PowerPositive
<1>8. ASSUME NEW n \in 0..N - 1, n \in S PROVE n + 1 \in S
  <2>. DEFINE q == 2^n
  <2>1. q \in Nat /\ q > 0 /\ 2^(n + 1) = q + q /\ p[n] \in 0..q - 1
    BY <1>8, PowerPositive, PowerStep
  <2>2. b[n] = 0 \/ b[n] = 1
    OBVIOUS
  <2>3. p[n + 1] = p[n] + b[n] * q
    BY <1>6
  <2>. HIDE DEF q
  <2>4. p[n + 1] \in 0..(q + q) - 1
    <3>1. b[n] * q = 0 \/ b[n] * q = q
      BY <2>1, <2>2
    <3>. QED  BY <2>1, <2>3, <3>1
  <2>. QED  BY <2>1, <2>4
<1>9. \A n \in 0..N : n \in S
  <2>. HIDE DEF S
  <2>. QED  BY <1>7, <1>8, BoundedInduction
<1>. QED  BY <1>5, <1>6, <1>9 DEF LowParts

\* The bits are the digits of the number, ...
LEMMA DigitsOfBinary ==
    ASSUME NEW N \in Nat, NEW b, \A i \in 0..N - 1 : b[i] \in {0, 1},
           NEW p, LowParts(p, b, N)
    PROVE  \A i \in 0..N - 1 : (p[N] \div 2^i) % 2 = b[i]
<1>. SUFFICES ASSUME NEW i \in 0..N - 1 PROVE (p[N] \div 2^i) % 2 = b[i]
  OBVIOUS
<1>. DEFINE low == 2^i
            m   == i + 1
            d   == 2^m
            S   == {k \in Nat : k \in 0..N - m => \E q \in Nat : p[m + k] = d * q + p[m]}
<1>1. low \in Nat /\ low > 0 /\ d = 2 * low /\ d \in Nat /\ N - m \in Nat
  BY PowerPositive, PowerStep
<1>2. /\ \A n \in 0..N : p[n] \in 0..2^n - 1
      /\ \A n \in 0..N - 1 : p[n + 1] = p[n] + b[n] * 2^n
  BY DEF LowParts
<1>3. p[m] \in Nat /\ p[i] \in 0..low - 1 /\ p[m] = p[i] + b[i] * low
  <2>1. i \in 0..N /\ m \in 0..N
    OBVIOUS
  <2>2. p[m] \in 0..2^m - 1 /\ p[i] \in 0..2^i - 1 /\ p[i + 1] = p[i] + b[i] * 2^i
    BY <1>2, <2>1
  <2>. QED  BY <2>2
<1>4. 0 \in S
  <2>1. m + 0 = m /\ p[m] = d * 0 + p[m]
    BY <1>1, <1>3
  <2>. QED  BY <2>1
<1>5. ASSUME NEW k \in 0..(N - m) - 1, k \in S PROVE k + 1 \in S
  <2>1. PICK q \in Nat : p[m + k] = d * q + p[m]
    BY <1>5
  <2>2. m + k \in 0..N - 1 /\ m + (k + 1) = (m + k) + 1 /\ k \in Nat /\ m \in Nat
    OBVIOUS
  <2>3. p[m + (k + 1)] = p[m + k] + b[m + k] * 2^(m + k)
    BY <1>2, <2>2
  <2>4. 2^(m + k) = d * 2^k /\ 2^k \in Nat
    BY <2>2, PowerSum, PowerPositive
  <2>5. b[m + k] \in Nat
    BY <2>2
  <2>. HIDE DEF d, m
  <2>. DEFINE x == 2^k
              y == b[m + k]
  <2>6. x \in Nat /\ y \in Nat /\ y * (d * x) = d * (y * x) /\ y * x \in Nat
    <3>1. x \in Nat /\ y \in Nat
      BY <2>4, <2>5
    <3>. HIDE DEF x, y
    <3>. QED  BY <1>1, <3>1
  <2>7. p[m + (k + 1)] = (d * q + p[m]) + d * (y * x)
    BY <2>1, <2>3, <2>4, <2>6
  <2>. HIDE DEF x, y
  <2>8. p[m + (k + 1)] = d * (q + y * x) + p[m] /\ q + y * x \in Nat
    <3>1. \A u, v, w, z \in Nat : (z * u + w) + z * v = z * (u + v) + w
      OBVIOUS
    <3>. QED  BY <1>1, <1>3, <2>6, <2>7, <3>1
  <2>. QED  BY <2>8
<1>6. \A k \in 0..N - m : k \in S
  <2>. HIDE DEF S, m
  <2>. QED  BY <1>1, <1>4, <1>5, BoundedInduction
<1>7. PICK q \in Nat : p[N] = d * q + p[m]
  <2>1. N - m \in 0..N - m /\ m + (N - m) = N
    BY <1>1
  <2>. QED  BY <1>6, <2>1
<1>8. b[i] = 0 \/ b[i] = 1
  OBVIOUS
<1>. HIDE DEF low, d, m
<1>9. p[N] = low * (2 * q + b[i]) + p[i] /\ 2 * q + b[i] \in Nat
  BY <1>1, <1>3, <1>7, <1>8
<1>10. p[N] \div low = 2 * q + b[i]
  <2>. DEFINE u == 2 * q + b[i]
              w == p[i]
  <2>1. p[N] = low * u + w /\ u \in Nat /\ w \in 0..low - 1
    BY <1>3, <1>9
  <2>. HIDE DEF u, w
  <2>2. (low * u + w) \div low = u
    BY <1>1, <2>1, QuotientUnique
  <2>. QED  BY <2>1, <2>2 DEF u
<1>11. (2 * q + b[i]) % 2 = b[i]
  BY <1>8
<1>. QED  BY <1>10, <1>11 DEF low

\* ... and a number of that length is the one its digits denote.
LEMMA BinaryOfDigits ==
    ASSUME NEW N \in Nat, NEW v \in 0..2^N - 1, NEW b,
           \A i \in 0..N - 1 : b[i] = (v \div 2^i) % 2,
           NEW p, LowParts(p, b, N)
    PROVE  p[N] = v
<1>. DEFINE S == {n \in Nat : p[n] = v % 2^n}
<1>1. v \in Nat
  BY PowerPositive
<1>2. p[0] = 0 /\ \A n \in 0..N - 1 : p[n + 1] = p[n] + b[n] * 2^n
  BY DEF LowParts
<1>3. 0 \in S
  BY <1>1, <1>2, PowerPositive
<1>4. ASSUME NEW n \in 0..N - 1, n \in S PROVE n + 1 \in S
  <2>. DEFINE d == 2^n
              q == v \div d
              r == v % d
              h == q \div 2
              c == q % 2
  <2>1. d \in Nat /\ d > 0 /\ 2^(n + 1) = d + d
    BY PowerPositive, PowerStep
  <2>2. q \in Nat /\ r \in 0..d - 1 /\ v = d * q + r
    BY <1>1, <2>1, Quotient
  <2>3. p[n + 1] = r + c * d
    BY <1>2, <1>4
  <2>. HIDE DEF q, r, d
  <2>4. h \in Nat /\ (c = 0 \/ c = 1) /\ q = 2 * h + c
    BY <2>2
  <2>. HIDE DEF h, c
  <2>5. v = (d + d) * h + (c * d + r) /\ c * d + r \in 0..(d + d) - 1 /\ r + c * d = c * d + r
    BY <2>1, <2>2, <2>4
  <2>6. v % (d + d) = c * d + r
    <3>. DEFINE e == d + d
                w == c * d + r
    <3>1. e \in Nat /\ w \in 0..e - 1 /\ v = e * h + w
      BY <2>1, <2>5
    <3>. HIDE DEF e, w
    <3>2. (e * h + w) % e = w
      BY <2>4, <3>1, QuotientUnique
    <3>. QED  BY <3>1, <3>2 DEF e, w
  <2>. QED  BY <2>1, <2>3, <2>5, <2>6
<1>5. \A n \in 0..N : n \in S
  <2>. HIDE DEF S
  <2>. QED  BY <1>3, <1>4, BoundedInduction
<1>6. v % 2^N = v
  BY <1>1, PowerPositive
<1>. QED  BY <1>5, <1>6

-----------------------------------------------------------------------------
(* A strict total order on 1..n, given as a set of pairs: the number of    *)
(* elements before one is its place.                                       *)
Orders(B, n) ==
  /\ \A q \in 1..n : <<q, q>> \notin B
  /\ \A q, r \in 1..n : q # r => <<q, r>> \in B \/ <<r, q>> \in B
  /\ \A q, r, u \in 1..n : <<q, r>> \in B /\ <<r, u>> \in B => <<q, u>> \in B

RanksIn(B, n) == [r \in 1..n |-> Cardinality({q \in 1..n : <<q, r>> \in B})]

Ranks(rank, B, n) ==
  /\ \A r \in 1..n : rank[r] \in 0..n - 1
  /\ \A q, r \in 1..n : <<q, r>> \in B <=> rank[q] < rank[r]
  /\ \A q, r \in 1..n : rank[q] = rank[r] => q = r
  /\ \A i \in 0..n - 1 : \E r \in 1..n : rank[r] = i

LEMMA OrderRanks ==
    ASSUME NEW n \in Nat, NEW B, Orders(B, n)
    PROVE  Ranks(RanksIn(B, n), B, n)
<1>. SUFFICES ASSUME NEW rank,
                     rank = [r \in 1..n |-> Cardinality({q \in 1..n : <<q, r>> \in B})]
              PROVE  /\ \A r \in 1..n : rank[r] \in 0..n - 1
                     /\ \A q, r \in 1..n : <<q, r>> \in B <=> rank[q] < rank[r]
                     /\ \A q, r \in 1..n : rank[q] = rank[r] => q = r
                     /\ \A i \in 0..n - 1 : \E r \in 1..n : rank[r] = i
  BY DEF Ranks, RanksIn
<1>0. /\ \A q \in 1..n : <<q, q>> \notin B
      /\ \A q, r \in 1..n : q # r => <<q, r>> \in B \/ <<r, q>> \in B
      /\ \A q, r, u \in 1..n : <<q, r>> \in B /\ <<r, u>> \in B => <<q, u>> \in B
  BY DEF Orders
<1>. DEFINE Before(r) == {q \in 1..n : <<q, r>> \in B}
<1>1. IsFiniteSet(1..n) /\ Cardinality(1..n) = n
  BY FS_Interval
<1>2. ASSUME NEW r \in 1..n PROVE Before(r) \subseteq 1..n \ {r}
  BY <1>0
<1>3. ASSUME NEW r \in 1..n PROVE IsFiniteSet(Before(r)) /\ rank[r] = Cardinality(Before(r))
  <2>. DEFINE T == Before(r)
  <2>1. T \subseteq 1..n /\ rank[r] = Cardinality(T)
    OBVIOUS
  <2>. HIDE DEF T
  <2>2. IsFiniteSet(T)
    BY <1>1, <2>1, FS_Subset
  <2>. QED  BY <2>1, <2>2 DEF T
<1>4. ASSUME NEW r \in 1..n PROVE rank[r] \in 0..n - 1
  <2>. DEFINE S == 1..n \ {r}
              T == Before(r)
  <2>1. IsFiniteSet(S) /\ Cardinality(S) = n - 1
    BY <1>1, FS_RemoveElement
  <2>2. T \subseteq S /\ rank[r] = Cardinality(T) /\ IsFiniteSet(T)
    BY <1>2, <1>3
  <2>. HIDE DEF S, T
  <2>3. Cardinality(T) <= n - 1 /\ Cardinality(T) \in Nat
    BY <2>1, <2>2, FS_Subset, FS_CardinalityType
  <2>. QED  BY <2>2, <2>3
<1>5. ASSUME NEW q \in 1..n, NEW r \in 1..n, <<q, r>> \in B PROVE rank[q] < rank[r]
  <2>. DEFINE S == Before(r)
              T == Before(q)
  <2>1. T \subseteq S /\ q \in S /\ q \notin T
    BY <1>0, <1>5
  <2>2. IsFiniteSet(S) /\ rank[r] = Cardinality(S) /\ rank[q] = Cardinality(T)
    BY <1>3
  <2>. HIDE DEF S, T
  <2>3. Cardinality(T) <= Cardinality(S) /\ Cardinality(T) # Cardinality(S)
    BY <2>1, <2>2, FS_Subset
  <2>4. rank[q] \in 0..n - 1 /\ rank[r] \in 0..n - 1
    BY <1>4
  <2>. QED  BY <2>2, <2>3, <2>4
<1>6. /\ \A r \in 1..n : rank[r] \in Int
      /\ \A q, r \in 1..n : <<q, r>> \in B => rank[q] < rank[r]
  BY <1>4, <1>5
<1>7. /\ \A q, r \in 1..n : rank[q] = rank[r] => q = r
      /\ \A q, r \in 1..n : <<q, r>> \in B <=> rank[q] < rank[r]
  <2>. SUFFICES ASSUME NEW q \in 1..n, NEW r \in 1..n
                PROVE  /\ rank[q] = rank[r] => q = r
                       /\ <<q, r>> \in B <=> rank[q] < rank[r]
    OBVIOUS
  <2>1. q = r \/ <<q, r>> \in B \/ <<r, q>> \in B
    BY <1>0
  <2>. DEFINE x == rank[q]
              y == rank[r]
  <2>2. x \in Int /\ y \in Int
    BY <1>6
  <2>3. /\ <<q, r>> \in B => x < y
        /\ <<r, q>> \in B => y < x
        /\ q = r => x = y /\ <<q, r>> \notin B
    BY <1>0, <1>6
  <2>. HIDE DEF x, y
  <2>4. (x = y => q = r) /\ (<<q, r>> \in B <=> x < y)
    BY <2>1, <2>2, <2>3
  <2>. QED  BY <2>4 DEF x, y
<1>8. ASSUME NEW i \in 0..n - 1 PROVE \E r \in 1..n : rank[r] = i
  <2>1. rank \in Injection(1..n, 0..n - 1)
    BY <1>4, <1>7 DEF Injection, IsInjective
  <2>2. IsFiniteSet(0..n - 1) /\ Cardinality(0..n - 1) = n
    BY FS_Interval
  <2>3. rank \in Surjection(1..n, 0..n - 1)
    BY <1>1, <2>1, <2>2, FS_Injection
  <2>. QED  BY <2>3 DEF Surjection
<1>. QED  BY <1>4, <1>7, <1>8

\* A number is below the power of two it is the exponent of.
LEMMA BelowPower == \A n \in Nat : n < 2^n
<1>. DEFINE S == {n \in Nat : n < 2^n}
<1>1. 0 \in S
  BY PowerPositive
<1>2. ASSUME NEW n \in Nat, n \in S PROVE n + 1 \in S
  BY <1>2, PowerStep, PowerPositive
<1>3. S = S /\ \A n \in S : n < 2^n
  OBVIOUS
<1>. HIDE DEF S
<1>. QED  BY <1>1, <1>2, <1>3, SetInduction
=============================================================================

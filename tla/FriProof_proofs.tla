---------------------------- MODULE FriProof_proofs ----------------------------
(***************************************************************************)
(* Proofs about FriProof for every dimension of the input, every degree    *)
(* bound, any number of paths and columns, and rows on either side of a    *)
(* position: no coin is early, the rows of a path meet, and the prover of  *)
(* a low degree polynomial is accepted.                                    *)
(*                                                                         *)
(* The argument has three parts.  Bit by bit, the number of an element of  *)
(* a row is its number in the row next to the row's, in either order, so   *)
(* that a layer folded from the right values holds the right values        *)
(* (LayerFolded).  Layers go along with the requests (AtLevel): what is    *)
(* filed, evaluated and asked for differs by one layer at most.  And every *)
(* place a test reads is asked for exactly once (PlacesTold).              *)
(***************************************************************************)
EXTENDS FriProof, NaturalLemmas

-----------------------------------------------------------------------------
(* Positions, bit by bit. *)

Bit(x, n) == (x \div 2^n) % 2

\* The low bits of a sum are those of the part below 2^m, the high ones those
\* of the part above.
LEMMA BitsOfSum ==
    ASSUME NEW m \in Nat, NEW a \in 0..2^m - 1, NEW b \in Nat, NEW n \in Nat
    PROVE  Bit(a + b * 2^m, n) = IF n < m THEN Bit(a, n) ELSE Bit(b, n - m)
<1>. DEFINE M == 2^m
<1>1. M \in Nat /\ M > 0 /\ a \in 0..M - 1
  BY PowerPositive
<1>2. a + b * M = M * b + a
  <2>. HIDE DEF M
  <2>. QED  BY <1>1
<1>3. CASE n >= m
  <2>1. (M * b + a) \div M = b
    <3>. HIDE DEF M
    <3>. QED  BY <1>1, QuotientUnique
  <2>2. M * b + a \in Nat
    <3>. HIDE DEF M
    <3>. QED  BY <1>1
  <2>3. n - m \in Nat /\ m + (n - m) = n
    BY <1>3
  <2>4. ((M * b + a) \div M) \div 2^(n - m) = (M * b + a) \div 2^n
    <3>. DEFINE A == M * b + a
    <3>. HIDE DEF A
    <3>1. (A \div 2^m) \div 2^(n - m) = A \div 2^(m + (n - m))
      BY <2>2, <2>3, ShiftSum DEF A
    <3>. QED  BY <2>3, <3>1 DEF A
  <2>. HIDE DEF M
  <2>5. (a + b * M) \div 2^n = b \div 2^(n - m)
    BY <1>2, <2>1, <2>4
  <2>6. Bit(a + b * M, n) = Bit(b, n - m)
    BY <2>5 DEF Bit
  <2>. QED  BY <1>3, <2>6 DEF M
<1>4. CASE n < m
  <2>. DEFINE N == 2^n
              K == 2^(m - n - 1)
              x == a \div N
  <2>1. m - n - 1 \in Nat /\ n + 1 \in Nat /\ m = (n + 1) + (m - n - 1)
    BY <1>4
  <2>2. 2^((n + 1) + (m - n - 1)) = 2^(n + 1) * 2^(m - n - 1)
    BY <2>1, PowerSum
  <2>3. M = 2^(n + 1) * K
    BY <2>1, <2>2
  <2>4. 2^(n + 1) = N + N /\ N \in Nat /\ N > 0 /\ K \in Nat
    BY <2>1, PowerStep, PowerPositive
  <2>5. x \in Nat
    <3>. HIDE DEF N, M
    <3>. QED  BY <1>1, <2>4, Quotient
  <2>. HIDE DEF N, K, M
  <2>6. M * b = N * (2 * (K * b)) /\ K * b \in Nat
    <3>1. M = (N + N) * K
      BY <2>3, <2>4
    <3>2. \A u, v, w \in Nat : ((u + u) * v) * w = u * (2 * (v * w)) /\ v * w \in Nat
      OBVIOUS
    <3>. QED  BY <3>1, <3>2, <2>4
  <2>7. (N * (2 * (K * b)) + a) \div N = 2 * (K * b) + x
    BY <1>1, <2>4, <2>6, QuotientOfSum
  <2>. HIDE DEF x
  <2>. DEFINE y == K * b
  <2>8. (2 * y + x) % 2 = x % 2
    <3>1. x \div 2 \in Nat /\ x % 2 \in 0..1 /\ x = 2 * (x \div 2) + (x % 2)
      BY <2>5, Quotient
    <3>. DEFINE s == x \div 2
                t == x % 2
    <3>. HIDE DEF s, t, y
    <3>2. 2 * y + x = 2 * (y + s) + t /\ y + s \in Nat /\ t \in 0..2 - 1
      BY <2>6, <3>1 DEF s, t, y
    <3>3. (2 * (y + s) + t) % 2 = t
      BY <3>2, QuotientUnique
    <3>. QED  BY <3>2, <3>3 DEF t
  <2>9. (a + b * M) \div N = 2 * y + x
    BY <1>2, <2>6, <2>7
  <2>10. Bit(a + b * M, n) = Bit(a, n)
    BY <2>8, <2>9 DEF Bit, N, x
  <2>. QED  BY <1>4, <2>10 DEF M
<1>. QED  BY <1>3, <1>4

\* Element x of a space, as the labels it is the sum of.
Element(basis, x) == getSpaceElementByIndex(basis, x)

LEMMA ElementBits ==
    ASSUME NEW k \in Nat, NEW basis, Lists(basis, k), NEW x
    PROVE  Element(basis, x) = {basis[j] : j \in {n \in 1..k : Bit(x, n - 1) = 1}}
BY DEF Element, getSpaceElementByIndex, Lists, Bit, POW2
\* What instances are, and that three bits at least are left for the last layer.
LEMMA DepthFacts ==
    ASSUME inst \in Instances
    PROVE  /\ inst.dim \in Nat /\ inst.L0isMSB \in BOOLEAN
           /\ inst.numComitmentPaths \in Nat \ {0} /\ inst.numQueryPaths \in Nat \ {0}
           /\ Depth \in Nat \ {0} /\ inst.dim - 2 * Depth >= 3
<1>1. /\ inst.L0isMSB \in BOOLEAN /\ inst.dim \in Nat /\ inst.logDegBound \in Nat
      /\ inst.numComitmentPaths \in Nat \ {0} /\ inst.numQueryPaths \in Nat \ {0}
      /\ calculateRecursionDepth(inst.dim, inst.logDegBound) >= 1
  BY InstancesAssumption
<1>. DEFINE a == inst.logDegBound \div 2
            b == (inst.dim - 3) \div 2
<1>2. a \in Int /\ b \in Int /\ 2 * b <= inst.dim - 3
  BY <1>1
<1>3. Depth = Min({a, b})
  BY DEF Depth, calculateRecursionDepth, dimReduction, logBlock
<1>. HIDE DEF a, b
<1>4. Depth \in {a, b} /\ Depth <= a /\ Depth <= b
  <2>1. \E x \in {a, b} : \A y \in {a, b} : x <= y
    BY <1>2
  <2>. QED  BY <1>3, <2>1 DEF Min
<1>. QED  BY <1>1, <1>2, <1>4 DEF Depth

\* A part of a sequence.
LEMMA PartOf ==
    ASSUME NEW k \in Nat, NEW s, Lists(s, k), NEW m \in 1..k + 1, NEW n \in 0..k, n >= m - 1
    PROVE  SubSeq(s, m, n) = [i \in 1..(n - m + 1) |-> s[m + i - 1]]
<1>. DEFINE S == {s[i] : i \in 1..k}
<1>1. \A i \in m..n : s[i] \in S
  OBVIOUS
<1>. HIDE DEF S
<1>2. /\ SubSeq(s, m, n) \in Seq(S)
      /\ Len(SubSeq(s, m, n)) = IF m <= n THEN n - m + 1 ELSE 0
      /\ \A i \in 1..n - m + 1 : SubSeq(s, m, n)[i] = s[m + i - 1]
  BY <1>1, SubSeqProperties
<1>3. SubSeq(s, m, n) \in [1..Len(SubSeq(s, m, n)) -> S]
  BY <1>2, LenProperties
<1>4. Len(SubSeq(s, m, n)) = n - m + 1
  BY <1>2
<1>. QED  BY <1>2, <1>3, <1>4

LEMMA PartLists ==
    ASSUME NEW k \in Nat, NEW s, Lists(s, k), NEW m \in 1..k + 1, NEW n \in 0..k, n >= m - 1
    PROVE  Lists(SubSeq(s, m, n), n - m + 1)
<1>1. SubSeq(s, m, n) = [i \in 1..(n - m + 1) |-> s[m + i - 1]]
  BY PartOf
<1>. QED  BY <1>1 DEF Lists

LEMMA ListLength == ASSUME NEW n \in Nat, NEW s, Lists(s, n) PROVE Len(s) = n
<1>. DEFINE S == {s[i] : i \in 1..n}
<1>1. s \in [1..n -> S]
  BY DEF Lists
<1>. HIDE DEF S
<1>. QED  BY <1>1, SeqDef, LenProperties

-----------------------------------------------------------------------------
(* The spaces of a layer: of its rows, and of the next layer. *)

\* The space of a row and that of the next layer, label by label.
LEMMA RowBases ==
    ASSUME inst \in Instances, NEW k \in Nat, k >= 2, NEW basis, Lists(basis, k)
    PROVE  /\ getL0Basis(basis) = [j \in 1..2 |-> basis[IF inst.L0isMSB THEN k - 2 + j ELSE j]]
           /\ getL1Basis(basis) = [j \in 1..k - 2 |-> basis[IF inst.L0isMSB THEN j ELSE j + 2]]
<1>1. Len(basis) = k /\ inst.L0isMSB \in BOOLEAN
  BY ListLength, DepthFacts
<1>2. CASE inst.L0isMSB
  <2>1. getL0Basis(basis) = SubSeq(basis, k - 1, k) /\ getL1Basis(basis) = SubSeq(basis, 1, k - 2)
    BY <1>1, <1>2 DEF getL0Basis, getL1Basis, dimReduction
  <2>2. SubSeq(basis, k - 1, k) = [i \in 1..(k - (k - 1) + 1) |-> basis[(k - 1) + i - 1]]
    BY PartOf
  <2>3. SubSeq(basis, 1, k - 2) = [i \in 1..(k - 2 - 1 + 1) |-> basis[1 + i - 1]]
    BY PartOf
  <2>. QED  BY <1>2, <2>1, <2>2, <2>3
<1>3. CASE ~ inst.L0isMSB
  <2>1. getL0Basis(basis) = SubSeq(basis, 1, 2) /\ getL1Basis(basis) = SubSeq(basis, 3, k)
    BY <1>1, <1>3 DEF getL0Basis, getL1Basis, dimReduction
  <2>2. SubSeq(basis, 1, 2) = [i \in 1..(2 - 1 + 1) |-> basis[1 + i - 1]]
    BY PartOf
  <2>3. SubSeq(basis, 3, k) = [i \in 1..(k - 3 + 1) |-> basis[3 + i - 1]]
    BY PartOf
  <2>. QED  BY <1>3, <2>1, <2>2, <2>3
<1>. QED  BY <1>2, <1>3

\* What both parties rely on: element i of row g is where the row begins plus
\* element i of the row's own space, on whichever side of a position rows are.
LEMMA RowsOfSpace ==
    ASSUME inst \in Instances, NEW k \in Nat, k >= 2, NEW basis, Lists(basis, k)
    PROVE  /\ Positions(basis) = 0..2^k - 1 /\ Rows(basis) = 0..2^(k - 2) - 1
           /\ \A i \in 0..3, g \in Rows(basis) :
                LET x == getBasisLIndex(basis, i, g)
                IN  /\ x \in Positions(basis)
                    /\ Element(basis, x) = Element(getL1Basis(basis), g)
                                             \cup Element(getL0Basis(basis), i)
<1>. DEFINE L0 == getL0Basis(basis)
            L1 == getL1Basis(basis)
            low == IF inst.L0isMSB THEN k - 2 ELSE 2
<1>1. Len(basis) = k /\ inst.L0isMSB \in BOOLEAN
  BY ListLength, DepthFacts
<1>2. /\ L0 = [j \in 1..2 |-> basis[IF inst.L0isMSB THEN k - 2 + j ELSE j]]
      /\ L1 = [j \in 1..k - 2 |-> basis[IF inst.L0isMSB THEN j ELSE j + 2]]
  BY RowBases
<1>3. Lists(L0, 2) /\ Lists(L1, k - 2)
  BY <1>2 DEF Lists
<1>4. Positions(basis) = 0..2^k - 1 /\ Rows(basis) = 0..2^(k - 2) - 1
  <2>1. Len(L1) = k - 2
    <3>. HIDE DEF L1
    <3>. QED  BY <1>3, ListLength
  <2>. QED  BY <1>1, <2>1 DEF Positions, Rows, POW2
<1>. HIDE DEF L0, L1
<1>5. ASSUME NEW i \in 0..3, NEW g \in 0..2^(k - 2) - 1
      PROVE  LET x == getBasisLIndex(basis, i, g)
             IN  x \in 0..2^k - 1 /\ Element(basis, x) = Element(L1, g) \cup Element(L0, i)
  <2>. DEFINE x == getBasisLIndex(basis, i, g)
              a == IF inst.L0isMSB THEN g ELSE i
              b == IF inst.L0isMSB THEN i ELSE g
  <2>1. 2^2 = 4 /\ 2^(k - 2) \in Nat /\ 2^k = 4 * 2^(k - 2)
    <3>1. 2^2 = 4
      OBVIOUS
    <3>2. 2^(2 + (k - 2)) = 2^2 * 2^(k - 2) /\ 2 + (k - 2) = k
      <4>1. 2 \in Nat /\ k - 2 \in Nat /\ 2 + (k - 2) = k
        OBVIOUS
      <4>2. \A n \in Nat : 2^(2 + n) = 2^2 * 2^n
        BY <4>1, PowerSum
      <4>. QED  BY <4>1, <4>2
    <3>. QED  BY <3>1, <3>2, PowerPositive
  <2>2. a \in 0..2^low - 1 /\ b \in Nat /\ x = a + b * 2^low /\ low \in Nat
    BY <1>1, <2>1 DEF getBasisLIndex, POW2, dimReduction
  <2>3. x \in 0..2^k - 1
    <3>. DEFINE M == 2^(k - 2)
    <3>1. M \in Nat /\ 2^k = 4 * M /\ g \in 0..M - 1
      BY <2>1
    <3>2. x = IF inst.L0isMSB THEN g + i * M ELSE i + g * 4
      BY <1>1, <2>1 DEF getBasisLIndex, POW2, dimReduction
    <3>. HIDE DEF M, x
    <3>3. M * i + g \in 0..4 * M - 1 /\ i * M + g = M * i + g
      <4>. HIDE <2>1, <2>2
      <4>. QED  BY <3>1, PositionInBlock
    <3>4. 4 * g + i \in 0..M * 4 - 1 /\ g * 4 + i = 4 * g + i
      BY <3>1
    <3>. QED  BY <1>1, <3>1, <3>2, <3>3, <3>4
  <2>4. ASSUME NEW n \in 1..k
        PROVE  Bit(x, n - 1) = IF n - 1 < low THEN Bit(a, n - 1) ELSE Bit(b, n - 1 - low)
    <3>. HIDE DEF a, b, x, low
    <3>1. n - 1 \in Nat
      OBVIOUS
    <3>. QED  BY <2>2, <3>1, BitsOfSum
  <2>. HIDE DEF x
  <2>5. Element(basis, x) = {basis[j] : j \in {n \in 1..k : Bit(x, n - 1) = 1}}
    BY ElementBits
  <2>6. Element(L0, i) = {L0[j] : j \in {n \in 1..2 : Bit(i, n - 1) = 1}}
    BY <1>3, ElementBits
  <2>7. Element(L1, g) = {L1[j] : j \in {n \in 1..k - 2 : Bit(g, n - 1) = 1}}
    BY <1>3, ElementBits
  <2>8. \A n \in 1..2 : LET p == IF inst.L0isMSB THEN k - 2 + n ELSE n
                        IN  p \in 1..k /\ L0[n] = basis[p] /\ Bit(x, p - 1) = Bit(i, n - 1)
    <3>. SUFFICES ASSUME NEW n \in 1..2
                  PROVE  LET p == IF inst.L0isMSB THEN k - 2 + n ELSE n
                         IN  p \in 1..k /\ L0[n] = basis[p] /\ Bit(x, p - 1) = Bit(i, n - 1)
      OBVIOUS
    <3>1. CASE inst.L0isMSB
      <4>1. k - 2 + n \in 1..k /\ L0[n] = basis[k - 2 + n]
        BY <1>2, <3>1
      <4>2. Bit(x, k - 2 + n - 1) = Bit(i, n - 1)
        BY <2>4, <3>1, <4>1
      <4>. QED  BY <3>1, <4>1, <4>2
    <3>2. CASE ~ inst.L0isMSB
      <4>1. n \in 1..k /\ L0[n] = basis[n]
        BY <1>2, <3>2
      <4>2. Bit(x, n - 1) = Bit(i, n - 1)
        BY <2>4, <3>2, <4>1
      <4>. QED  BY <3>2, <4>1, <4>2
    <3>. QED  BY <3>1, <3>2
  <2>9. \A n \in 1..k - 2 : LET p == IF inst.L0isMSB THEN n ELSE n + 2
                            IN  p \in 1..k /\ L1[n] = basis[p] /\ Bit(x, p - 1) = Bit(g, n - 1)
    <3>. SUFFICES ASSUME NEW n \in 1..k - 2
                  PROVE  LET p == IF inst.L0isMSB THEN n ELSE n + 2
                         IN  p \in 1..k /\ L1[n] = basis[p] /\ Bit(x, p - 1) = Bit(g, n - 1)
      OBVIOUS
    <3>1. CASE inst.L0isMSB
      <4>1. n \in 1..k /\ L1[n] = basis[n]
        BY <1>2, <3>1
      <4>2. Bit(x, n - 1) = Bit(g, n - 1)
        BY <2>4, <3>1, <4>1
      <4>. QED  BY <3>1, <4>1, <4>2
    <3>2. CASE ~ inst.L0isMSB
      <4>1. n + 2 \in 1..k /\ L1[n] = basis[n + 2]
        BY <1>2, <3>2
      <4>2. Bit(x, n + 2 - 1) = Bit(g, n - 1)
        BY <2>4, <3>2, <4>1
      <4>. QED  BY <3>2, <4>1, <4>2
    <3>. QED  BY <3>1, <3>2
  <2>10. \A p \in 1..k : \/ \E n \in 1..2 : p = IF inst.L0isMSB THEN k - 2 + n ELSE n
                         \/ \E n \in 1..k - 2 : p = IF inst.L0isMSB THEN n ELSE n + 2
    <3>. SUFFICES ASSUME NEW p \in 1..k
                  PROVE \/ \E n \in 1..2 : p = IF inst.L0isMSB THEN k - 2 + n ELSE n
                        \/ \E n \in 1..k - 2 : p = IF inst.L0isMSB THEN n ELSE n + 2
      OBVIOUS
    <3>1. CASE inst.L0isMSB
      <4>1. p \in 1..k - 2 \/ (p - (k - 2) \in 1..2 /\ p = k - 2 + (p - (k - 2)))
        OBVIOUS
      <4>. QED  BY <3>1, <4>1
    <3>2. CASE ~ inst.L0isMSB
      <4>1. p \in 1..2 \/ (p - 2 \in 1..k - 2 /\ p = (p - 2) + 2)
        OBVIOUS
      <4>. QED  BY <3>2, <4>1
    <3>. QED  BY <1>1, <3>1, <3>2
  <2>11. Element(basis, x) \subseteq Element(L1, g) \cup Element(L0, i)
    <3>. SUFFICES ASSUME NEW p \in 1..k, Bit(x, p - 1) = 1
                  PROVE  basis[p] \in Element(L1, g) \cup Element(L0, i)
      BY <2>5
    <3>. QED  BY <2>6, <2>7, <2>8, <2>9, <2>10
  <2>12. Element(L1, g) \cup Element(L0, i) \subseteq Element(basis, x)
    BY <2>5, <2>6, <2>7, <2>8, <2>9
  <2>. QED  BY <2>3, <2>11, <2>12 DEF x
<1>. QED  BY <1>4, <1>5 DEF L0, L1
\* The labels that are left in layer d.
Labels(d) == [k \in 1..inst.dim - 2 * d |-> IF inst.L0isMSB THEN k ELSE k + 2 * d]

LEMMA LabelsLeft ==
    ASSUME inst \in Instances
    PROVE  /\ \A d \in 0..Depth : /\ inst.dim - 2 * d \in Nat /\ inst.dim - 2 * d >= 3
                                  /\ Lists(Labels(d), inst.dim - 2 * d)
           /\ Labels(0) = [k \in 1..inst.dim |-> k]
           /\ \A d \in 1..Depth : getL1Basis(Labels(d - 1)) = Labels(d)
<1>1. /\ inst.dim \in Nat /\ Depth \in Nat /\ inst.dim - 2 * Depth >= 3
      /\ inst.L0isMSB \in BOOLEAN
  BY DepthFacts
<1>2. \A d \in 0..Depth : /\ inst.dim - 2 * d \in Nat /\ inst.dim - 2 * d >= 3
                          /\ Lists(Labels(d), inst.dim - 2 * d)
  BY <1>1 DEF Labels, Lists
<1>3. Labels(0) = [k \in 1..inst.dim |-> k]
  BY <1>1 DEF Labels
<1>4. ASSUME NEW d \in 1..Depth PROVE getL1Basis(Labels(d - 1)) = Labels(d)
  <2>. DEFINE k == inst.dim - 2 * (d - 1)
              B == Labels(d - 1)
  <2>1. k \in Nat /\ k >= 3 /\ Lists(B, k) /\ k - 2 = inst.dim - 2 * d
    BY <1>1, <1>2
  <2>2. \A j \in 1..k - 2 : B[IF inst.L0isMSB THEN j ELSE j + 2]
                              = IF inst.L0isMSB THEN j ELSE j + 2 * d
    BY <1>1, <2>1 DEF Labels
  <2>3. getL1Basis(B) = [j \in 1..k - 2 |-> B[IF inst.L0isMSB THEN j ELSE j + 2]]
    <3>. HIDE DEF k, B
    <3>. QED  BY <2>1, RowBases
  <2>. QED  BY <2>1, <2>2, <2>3 DEF Labels
<1>. QED  BY <1>2, <1>3, <1>4

LEMMA BasisIsLabels == ASSUME inst \in Instances, NEW d \in 0..Depth PROVE BasisAt(d) = Labels(d)
<1>. DEFINE Rule(f) == f = [e \in 0..d |-> IF e = 0 THEN [k \in 1..inst.dim |-> k]
                                                    ELSE getL1Basis(f[e - 1])]
            F == CHOOSE f : Rule(f)
<1>1. BasisAt(d) = F[d]
  BY DEF BasisAt
<1>2. Depth \in Nat
  BY DepthFacts
<1>3. \E f : Rule(f)
  <2>. DEFINE G == [e \in 0..d |-> Labels(e)]
  <2>1. ASSUME NEW e \in 0..d
        PROVE  G[e] = IF e = 0 THEN [k \in 1..inst.dim |-> k] ELSE getL1Basis(G[e - 1])
    <3>1. CASE e = 0
      BY <3>1, LabelsLeft
    <3>2. CASE e # 0
      <4>1. e \in 1..Depth /\ e - 1 \in 0..d /\ G[e] = Labels(e) /\ G[e - 1] = Labels(e - 1)
        BY <1>2, <3>2
      <4>2. getL1Basis(Labels(e - 1)) = Labels(e)
        BY <4>1, LabelsLeft
      <4>. QED  BY <3>2, <4>1, <4>2
    <3>. QED  BY <3>1, <3>2
  <2>2. Rule(G)
    <3>1. G = [e \in 0..d |-> G[e]]
      OBVIOUS
    <3>. HIDE DEF G
    <3>. QED  BY <2>1, <3>1
  <2>. QED  BY <2>2
<1>4. Rule(F)
  BY <1>3
<1>. HIDE DEF F
<1>5. \A e \in 0..d : e \in {n \in 0..d : F[n] = Labels(n)}
  <2>. DEFINE S == {n \in 0..d : F[n] = Labels(n)}
  <2>1. 0 \in S
    BY <1>4, LabelsLeft
  <2>2. ASSUME NEW n \in 0..d - 1, n \in S PROVE n + 1 \in S
    <3>1. n + 1 \in 0..d /\ n + 1 # 0 /\ (n + 1) - 1 = n /\ n + 1 \in 1..Depth
      BY <1>2
    <3>2. F[n + 1] = getL1Basis(F[n])
      BY <1>4, <3>1
    <3>3. getL1Basis(Labels(n)) = Labels(n + 1)
      BY <3>1, LabelsLeft
    <3>. QED  BY <2>2, <3>1, <3>2, <3>3
  <2>. HIDE DEF S
  <2>3. \A e \in 0..d : e \in S
    BY <1>2, <2>1, <2>2, BoundedInduction
  <2>. QED  BY <2>3 DEF S
<1>. QED  BY <1>1, <1>5

\* The positions of a layer, its rows, and where they lead.
Width(d) == inst.dim - 2 * d

LEMMA LayerSpaces ==
    ASSUME inst \in Instances
    PROVE  /\ \A d \in 0..Depth : /\ Width(d) \in Nat /\ Width(d) >= 3
                                  /\ Positions(BasisAt(d)) = 0..2^Width(d) - 1
                                  /\ \A x : Element(BasisAt(d), x) \in SUBSET (1..inst.dim)
           /\ \A d \in 1..Depth :
                /\ Width(d - 1) = Width(d) + 2
                /\ getL1Basis(BasisAt(d - 1)) = BasisAt(d)
                /\ Rows(BasisAt(d - 1)) = Positions(BasisAt(d))
                /\ \A i \in 0..3, g \in Positions(BasisAt(d)) :
                     LET x == getBasisLIndex(BasisAt(d - 1), i, g)
                     IN  /\ x \in Positions(BasisAt(d - 1))
                         /\ Element(BasisAt(d - 1), x)
                              = Element(BasisAt(d), g) \cup Element(getL0Basis(BasisAt(d - 1)), i)
<1>1. /\ inst.dim \in Nat /\ Depth \in Nat /\ inst.L0isMSB \in BOOLEAN
  BY DepthFacts
<1>2. ASSUME NEW d \in 0..Depth
      PROVE  /\ Width(d) \in Nat /\ Width(d) >= 3 /\ Lists(BasisAt(d), Width(d))
             /\ Positions(BasisAt(d)) = 0..2^Width(d) - 1
             /\ \A x : Element(BasisAt(d), x) \in SUBSET (1..inst.dim)
  <2>1. Width(d) \in Nat /\ Width(d) >= 3 /\ Lists(BasisAt(d), Width(d))
    BY BasisIsLabels, LabelsLeft DEF Width
  <2>2. Positions(BasisAt(d)) = 0..2^Width(d) - 1
    BY <2>1, ListLength DEF Positions, POW2
  <2>3. \A k \in 1..Width(d) : BasisAt(d)[k] \in 1..inst.dim
    BY <1>1, BasisIsLabels DEF Labels, Width
  <2>4. ASSUME NEW x PROVE Element(BasisAt(d), x) \in SUBSET (1..inst.dim)
    BY <2>1, <2>3, ElementBits
  <2>. QED  BY <2>1, <2>2, <2>4
<1>3. ASSUME NEW d \in 1..Depth
      PROVE  /\ Width(d - 1) = Width(d) + 2
             /\ getL1Basis(BasisAt(d - 1)) = BasisAt(d)
             /\ Rows(BasisAt(d - 1)) = Positions(BasisAt(d))
             /\ \A i \in 0..3, g \in Positions(BasisAt(d)) :
                  LET x == getBasisLIndex(BasisAt(d - 1), i, g)
                  IN  /\ x \in Positions(BasisAt(d - 1))
                      /\ Element(BasisAt(d - 1), x)
                           = Element(BasisAt(d), g) \cup Element(getL0Basis(BasisAt(d - 1)), i)
  <2>1. d - 1 \in 0..Depth /\ d \in 0..Depth /\ Width(d - 1) = Width(d) + 2
    BY <1>1 DEF Width
  <2>2. getL1Basis(BasisAt(d - 1)) = BasisAt(d)
    <3>1. BasisAt(d - 1) = Labels(d - 1) /\ BasisAt(d) = Labels(d)
      BY <2>1, BasisIsLabels
    <3>. QED  BY <3>1, LabelsLeft
  <2>3. Rows(BasisAt(d - 1)) = Positions(BasisAt(d))
    BY <2>2 DEF Rows
  <2>4. Width(d - 1) \in Nat /\ Width(d - 1) >= 2 /\ Lists(BasisAt(d - 1), Width(d - 1))
    BY <1>2, <2>1
  <2>. DEFINE B == BasisAt(d - 1)
  <2>5. /\ Rows(B) = Positions(BasisAt(d)) /\ getL1Basis(B) = BasisAt(d)
        /\ Width(d - 1) \in Nat /\ Width(d - 1) >= 2 /\ Lists(B, Width(d - 1))
    BY <2>2, <2>3, <2>4
  <2>. HIDE DEF B
  <2>6. \A i \in 0..3, g \in Rows(B) :
           LET x == getBasisLIndex(B, i, g)
           IN  /\ x \in Positions(B)
               /\ Element(B, x) = Element(getL1Basis(B), g) \cup Element(getL0Basis(B), i)
    BY <2>5, RowsOfSpace
  <2>. QED  BY <2>1, <2>2, <2>3, <2>5, <2>6 DEF B
<1>. QED  BY <1>2, <1>3

\* The sigments of a path are positions of its points, and each is the row of
\* the one before, if rows are in the low order bits.
LEMMA SigmentsRight ==
    ASSUME inst \in Instances, NEW first \in Rows(BasisAt(0))
    PROVE  /\ DOMAIN Sigments(first) = 1..Depth
           /\ \A d \in 1..Depth : Sigments(first)[d] \in Positions(BasisAt(d))
           /\ \A d \in 1..Depth - 1 : Sigments(first)[d + 1] = Sigments(first)[d] \div 4
<1>. DEFINE Rule(f) == f = [d \in 1..Depth |-> IF d = 1 THEN first ELSE nextSigment(f[d - 1])]
            F == CHOOSE f : Rule(f)
<1>1. Sigments(first) = F
  BY DEF Sigments
<1>2. /\ Depth \in Nat \ {0} /\ first \in Nat
      /\ \A d \in 0..Depth : Width(d) \in Nat /\ Width(d) >= 3
                             /\ Positions(BasisAt(d)) = 0..2^Width(d) - 1
      /\ first \in Positions(BasisAt(1))
  <2>1. Depth \in Nat \ {0}
    BY DepthFacts
  <2>2. first \in Positions(BasisAt(1)) /\ 1 \in 0..Depth
    <3>1. 1 \in 1..Depth /\ 1 - 1 = 0
      BY <2>1
    <3>2. Rows(BasisAt(1 - 1)) = Positions(BasisAt(1))
      BY <3>1, LayerSpaces
    <3>. QED  BY <3>1, <3>2
  <2>. QED  BY <2>1, <2>2, LayerSpaces
<1>3. \E f : Rule(f)
  <2>. DEFINE G == [d \in 1..Depth |-> first \div 2^(2 * (d - 1))]
  <2>1. ASSUME NEW d \in 1..Depth
        PROVE  G[d] = IF d = 1 THEN first ELSE nextSigment(G[d - 1])
    <3>1. CASE d = 1
      <4>1. 2 * (d - 1) = 0 /\ 2^0 = 1 /\ first \div 1 = first
        BY <1>2, <3>1, PowerPositive
      <4>. QED  BY <3>1, <4>1
    <3>2. CASE d # 1
      <4>1. d - 1 \in 1..Depth /\ 2 * ((d - 1) - 1) \in Nat /\ 2 \in Nat
            /\ 2 * ((d - 1) - 1) + 2 = 2 * (d - 1)
        BY <1>2, <3>2
      <4>2. (first \div 2^(2 * ((d - 1) - 1))) \div 2^2 = first \div 2^(2 * ((d - 1) - 1) + 2)
        <5>. DEFINE m == 2 * ((d - 1) - 1)
        <5>1. m \in Nat /\ first \in Nat /\ 2 \in Nat
          BY <1>2, <4>1
        <5>. HIDE DEF m
        <5>2. (first \div 2^m) \div 2^2 = first \div 2^(m + 2)
          BY <5>1, ShiftSum
        <5>. QED  BY <5>2 DEF m
      <4>3. G[d] = nextSigment(G[d - 1])
        <5>1. /\ G[d] = first \div 2^(2 * (d - 1))
              /\ G[d - 1] = first \div 2^(2 * ((d - 1) - 1))
          BY <4>1
        <5>. HIDE DEF G
        <5>. QED  BY <4>1, <4>2, <5>1 DEF nextSigment, POW2, dimReduction
      <4>. QED  BY <3>2, <4>3
    <3>. QED  BY <3>1, <3>2
  <2>2. Rule(G)
    <3>1. G = [d \in 1..Depth |-> G[d]]
      OBVIOUS
    <3>. HIDE DEF G
    <3>. QED  BY <2>1, <3>1
  <2>. QED  BY <2>2
<1>4. Rule(F)
  BY <1>3
<1>. HIDE DEF F
<1>5. \A d \in 1..Depth - 1 : F[d + 1] = F[d] \div 4
  <2>1. 2^2 = 4
    OBVIOUS
  <2>2. \A d \in 1..Depth - 1 : d + 1 \in 1..Depth /\ d + 1 # 1 /\ (d + 1) - 1 = d
    BY <1>2
  <2>. QED  BY <1>4, <2>1, <2>2 DEF nextSigment, POW2, dimReduction
<1>6. \A n \in 0..Depth - 1 : n \in {m \in 0..Depth - 1 : F[m + 1] \in Positions(BasisAt(m + 1))}
  <2>. DEFINE S == {m \in 0..Depth - 1 : F[m + 1] \in Positions(BasisAt(m + 1))}
  <2>1. 0 \in S
    <3>1. 1 \in 1..Depth /\ 0 \in 0..Depth - 1 /\ 0 + 1 = 1
      BY <1>2
    <3>. QED  BY <1>2, <1>4, <3>1
  <2>2. ASSUME NEW n \in 0..(Depth - 1) - 1, n \in S PROVE n + 1 \in S
    <3>1. n + 1 \in 1..Depth - 1 /\ n + 1 \in 0..Depth /\ (n + 1) + 1 \in 0..Depth
          /\ n + 1 \in 0..Depth - 1
      BY <1>2
    <3>2. F[n + 1] \in 0..2^Width(n + 1) - 1 /\ F[(n + 1) + 1] = F[n + 1] \div 2^2
      <4>1. 2^2 = 4
        OBVIOUS
      <4>. QED  BY <1>2, <1>5, <2>2, <3>1, <4>1
    <3>3. Width(n + 1) \in Nat /\ 2 \in 0..Width(n + 1) /\ Width((n + 1) + 1) = Width(n + 1) - 2
      <4>1. inst.dim \in Nat
        BY DepthFacts
      <4>2. Width((n + 1) + 1) = Width(n + 1) - 2
        BY <4>1 DEF Width
      <4>. QED  BY <1>2, <3>1, <4>2
    <3>4. F[n + 1] \div 2^2 \in 0..2^(Width(n + 1) - 2) - 1
      BY <3>2, <3>3, ShiftBelow
    <3>. QED  BY <1>2, <3>1, <3>2, <3>3, <3>4
  <2>. HIDE DEF S
  <2>3. Depth - 1 \in Nat
    BY <1>2
  <2>4. \A n \in 0..Depth - 1 : n \in S
    BY <2>1, <2>2, <2>3, BoundedInduction
  <2>. QED  BY <2>4 DEF S
<1>7. \A d \in 1..Depth : F[d] \in Positions(BasisAt(d))
  <2>1. \A d \in 1..Depth : d - 1 \in 0..Depth - 1 /\ (d - 1) + 1 = d
    BY <1>2
  <2>. QED  BY <1>6, <2>1
<1>. QED  BY <1>1, <1>4, <1>5, <1>7
-----------------------------------------------------------------------------
(* Sequences of columns, and sequences of requests. *)

\* What is drawn for the first d layers.
Chains(d) == [1..d -> ColumnIds]

LEMMA ChainLists == ASSUME NEW d \in Nat, NEW p \in Chains(d) PROVE Lists(p, d) /\ Len(p) = d
<1>1. Lists(p, d)
  BY DEF Chains, Lists
<1>. QED  BY <1>1, ListLength

\* The beginning of a sequence of columns.
LEMMA ChainParts ==
    ASSUME NEW d \in Nat, NEW p \in Chains(d), NEW e \in 0..d
    PROVE  /\ SubSeq(p, 1, e) \in Chains(e) /\ Len(SubSeq(p, 1, e)) = e
           /\ SubSeq(p, 1, e) = [i \in 1..e |-> p[i]]
           /\ \A c \in 0..e : SubSeq(SubSeq(p, 1, e), 1, c) = SubSeq(p, 1, c)
           /\ SubSeq(p, 1, d) = p /\ SubSeq(p, 1, 0) = <<>>
<1>1. Lists(p, d)
  BY ChainLists
<1>2. \A c \in 0..d : SubSeq(p, 1, c) = [i \in 1..c |-> p[i]]
  <2>1. ASSUME NEW c \in 0..d PROVE SubSeq(p, 1, c) = [i \in 1..c |-> p[i]]
    <3>1. 1 \in 1..d + 1 /\ c >= 1 - 1 /\ c - 1 + 1 = c /\ \A i \in Int : 1 + i - 1 = i
      OBVIOUS
    <3>2. SubSeq(p, 1, c) = [i \in 1..(c - 1 + 1) |-> p[1 + i - 1]]
      BY <1>1, <3>1, PartOf
    <3>. QED  BY <3>1, <3>2
  <2>. QED  BY <2>1
<1>3. \A c \in 0..d : SubSeq(p, 1, c) \in Chains(c)
  <2>1. ASSUME NEW c \in 0..d PROVE [i \in 1..c |-> p[i]] \in Chains(c)
    BY DEF Chains
  <2>2. ASSUME NEW c \in 0..d PROVE SubSeq(p, 1, c) \in Chains(c)
    <3>. DEFINE q == SubSeq(p, 1, c)
    <3>1. q = [i \in 1..c |-> p[i]]
      BY <1>2
    <3>. HIDE DEF q
    <3>2. q \in Chains(c)
      BY <2>1, <3>1
    <3>. QED  BY <3>2 DEF q
  <2>. QED  BY <2>2
<1>4. Len(SubSeq(p, 1, e)) = e
  BY <1>3, ChainLists
<1>5. ASSUME NEW c \in 0..e PROVE SubSeq(SubSeq(p, 1, e), 1, c) = SubSeq(p, 1, c)
  <2>. DEFINE q == SubSeq(p, 1, e)
  <2>1. Lists(q, e) /\ e \in Nat /\ q = [i \in 1..e |-> p[i]]
    BY <1>2, <1>3, ChainLists
  <2>. HIDE DEF q
  <2>2. 1 \in 1..e + 1 /\ c >= 1 - 1 /\ c - 1 + 1 = c /\ \A i \in Int : 1 + i - 1 = i
    OBVIOUS
  <2>3. SubSeq(q, 1, c) = [i \in 1..(c - 1 + 1) |-> q[1 + i - 1]]
    BY <2>1, <2>2, PartOf
  <2>4. SubSeq(q, 1, c) = [i \in 1..c |-> p[i]]
    BY <2>1, <2>2, <2>3
  <2>5. SubSeq(p, 1, c) = [i \in 1..c |-> p[i]]
    BY <1>2
  <2>. QED  BY <2>4, <2>5 DEF q
<1>6. SubSeq(p, 1, d) = p
  BY <1>2 DEF Chains
<1>7. SubSeq(p, 1, 0) = <<>>
  BY SubSeqEmpty
<1>. QED  BY <1>2, <1>3, <1>4, <1>5, <1>6, <1>7

\* A sequence of columns is the one before it and its last column.
LEMMA ChainSplit ==
    ASSUME NEW d \in Nat \ {0}, NEW p \in Chains(d)
    PROVE  /\ Front(p) = SubSeq(p, 1, d - 1) /\ Last(p) = p[d]
           /\ Front(p) \in Chains(d - 1) /\ Len(Front(p)) = d - 1
           /\ Append(Front(p), Last(p)) = p
<1>1. Len(p) = d /\ p[d] \in ColumnIds
  BY ChainLists DEF Chains
<1>2. Front(p) = SubSeq(p, 1, d - 1) /\ Last(p) = p[d]
  BY <1>1 DEF Front, Last
<1>3. /\ SubSeq(p, 1, d - 1) \in Chains(d - 1) /\ Len(SubSeq(p, 1, d - 1)) = d - 1
      /\ SubSeq(p, 1, d - 1) = [i \in 1..d - 1 |-> p[i]]
  BY ChainParts
<1>4. Append(Front(p), Last(p)) = p
  <2>. DEFINE f == Front(p)
              a == Append(f, p[d])
  <2>1. f \in Seq(ColumnIds) /\ Len(f) = d - 1
    <3>1. f \in [1..d - 1 -> ColumnIds] /\ d - 1 \in Nat /\ Len(f) = d - 1
      BY <1>2, <1>3 DEF Chains
    <3>. HIDE DEF f
    <3>. QED  BY <3>1, SeqDef
  <2>. HIDE DEF f
  <2>2. /\ a \in Seq(ColumnIds) /\ Len(a) = d
        /\ \A i \in 1..d - 1 : a[i] = f[i]
        /\ a[d] = p[d]
    BY <1>1, <2>1, AppendProperties
  <2>3. \A i \in 1..d : a[i] = p[i]
    BY <1>2, <1>3, <2>2 DEF f
  <2>. HIDE DEF a
  <2>4. a \in [1..d -> ColumnIds]
    BY <2>2, LenProperties
  <2>5. a = p
    BY <2>3, <2>4 DEF Chains
  <2>. QED  BY <1>2, <2>5 DEF a, f
<1>. QED  BY <1>2, <1>3, <1>4

Listed(s) == \E n \in Nat : Lists(s, n)

\* All that is in a finite set can be put in a sequence.
LEMMA SetListed ==
    ASSUME NEW S, IsFiniteSet(S)
    PROVE  Listed(SetToSeq(S)) /\ ToSet(SetToSeq(S)) = S
<1>. DEFINE n == Cardinality(S)
            f == SetToSeq(S)
<1>1. n \in Nat /\ ExistsBijection(1..n, S)
  BY FS_CardinalityType
<1>2. \E g \in [1..n -> S] : IsInjective(g)
  BY <1>1 DEF ExistsBijection, Bijection, Injection
<1>3. f \in [1..n -> S] /\ IsInjective(f)
  BY <1>2 DEF SetToSeq
<1>. HIDE DEF f
<1>. DEFINE T == {f[i] : i \in 1..n}
<1>4. f \in Surjection(1..n, T) /\ f \in Injection(1..n, T)
  BY <1>3 DEF Surjection, Injection
<1>5. T \in SUBSET S /\ ToSet(f) = T
  BY <1>3 DEF ToSet
<1>6. Lists(f, n)
  BY <1>3 DEF Lists
<1>. HIDE DEF T, n
<1>7. IsFiniteSet(1..n) /\ Cardinality(1..n) = n
  BY <1>1, FS_Interval
<1>8. Cardinality(T) = n
  BY <1>4, <1>7, FS_Surjection
<1>9. S = T
  BY <1>5, <1>8, FS_Subset DEF n
<1>. QED  BY <1>1, <1>5, <1>6, <1>9 DEF Listed, f

LEMMA ListedJoined ==
    ASSUME NEW s, NEW t, Listed(s), Listed(t)
    PROVE  Listed(Joined(s, t)) /\ ToSet(Joined(s, t)) = ToSet(s) \cup ToSet(t)
<1>1. PICK n \in Nat : Lists(s, n)
  BY DEF Listed
<1>2. PICK k \in Nat : Lists(t, k)
  BY DEF Listed
<1>. DEFINE j == Joined(s, t)
<1>3. /\ Lists(j, n + k) /\ \A i \in 1..n : j[i] = s[i]
      /\ \A i \in 1..k : j[n + i] = t[i]
  BY <1>1, <1>2, Concatenation
<1>. HIDE DEF j
<1>4. ToSet(s) = {s[i] : i \in 1..n} /\ ToSet(t) = {t[i] : i \in 1..k}
      /\ ToSet(j) = {j[i] : i \in 1..n + k}
  BY <1>1, <1>2, <1>3 DEF Lists, ToSet
<1>5. \A i \in 1..n + k : i \in 1..n \/ (i - n \in 1..k /\ n + (i - n) = i)
  OBVIOUS
<1>6. \A i \in 1..k : n + i \in 1..n + k
  OBVIOUS
<1>7. ToSet(j) = ToSet(s) \cup ToSet(t)
  BY <1>3, <1>4, <1>5, <1>6
<1>. QED  BY <1>3, <1>7 DEF Listed, j

\* What a sequence of sequences holds, flattened.
LEMMA FlattenHolds ==
    ASSUME NEW N \in Nat, NEW seqs, Lists(seqs, N), \A n \in 1..N : Listed(seqs[n])
    PROVE  /\ Listed(FlattenSeq(seqs))
           /\ ToSet(FlattenSeq(seqs)) = UNION {ToSet(seqs[n]) : n \in 1..N}
<1>1. Len(seqs) = N
  BY ListLength
<1>2. CASE N = 0
  <2>1. FlattenSeq(seqs) = seqs
    BY <1>1, <1>2 DEF FlattenSeq
  <2>2. ToSet(seqs) = {} /\ 1..N = {}
    BY <1>2 DEF Lists, ToSet
  <2>. QED  BY <2>1, <2>2 DEF Listed
<1>3. CASE N # 0
  <2>. DEFINE Rule(f, m) == f = [i \in 1..m |-> IF i = 1 THEN seqs[i]
                                                ELSE Joined(f[i - 1], seqs[i])]
              F == CHOOSE f : Rule(f, N)
              E == {m \in Nat : \E f : Rule(f, m)}
  <2>1. FlattenSeq(seqs) = F[N]
    BY <1>1, <1>3 DEF FlattenSeq, Joined
  <2>2. 0 \in E
    <3>1. Rule(<<>>, 0)
      OBVIOUS
    <3>. QED  BY <3>1
  <2>3. ASSUME NEW m \in Nat, m \in E PROVE m + 1 \in E
    <3>1. PICK f : Rule(f, m)
      BY <2>3
    <3>. DEFINE g == [i \in 1..m + 1 |-> IF i = m + 1
                                         THEN IF i = 1 THEN seqs[i] ELSE Joined(f[m], seqs[i])
                                         ELSE f[i]]
    <3>2. ASSUME NEW i \in 1..m + 1
          PROVE  g[i] = IF i = 1 THEN seqs[i] ELSE Joined(g[i - 1], seqs[i])
      <4>1. i # 1 => i - 1 \in 1..m /\ g[i - 1] = f[i - 1] /\ i - 1 \in 1..m + 1
        OBVIOUS
      <4>2. i # m + 1 => f[i] = IF i = 1 THEN seqs[i] ELSE Joined(f[i - 1], seqs[i])
        BY <3>1
      <4>. QED  BY <4>1, <4>2
    <3>3. g = [i \in 1..m + 1 |-> g[i]]
      OBVIOUS
    <3>. HIDE DEF g
    <3>4. Rule(g, m + 1)
      BY <3>2, <3>3
    <3>. QED  BY <3>4
  <2>4. N \in E
    <3>. HIDE DEF E
    <3>. QED  BY <2>2, <2>3, SetInduction
  <2>5. Rule(F, N)
    BY <2>4
  <2>. HIDE DEF F, E
  <2>. DEFINE S == {m \in 0..N - 1 : /\ Listed(F[m + 1])
                                     /\ ToSet(F[m + 1]) = UNION {ToSet(seqs[n]) : n \in 1..m + 1}}
  <2>6. 0 \in S
    <3>1. F[1] = seqs[1] /\ 1..1 = {1} /\ 0 \in 0..N - 1 /\ 1 \in 1..N /\ 0 + 1 = 1
      BY <1>3, <2>5
    <3>2. UNION {ToSet(seqs[n]) : n \in {1}} = ToSet(seqs[1])
      OBVIOUS
    <3>. QED  BY <3>1, <3>2
  <2>7. ASSUME NEW m \in 0..(N - 1) - 1, m \in S PROVE m + 1 \in S
    <3>1. /\ m + 1 \in 0..N - 1 /\ (m + 1) + 1 \in 1..N /\ (m + 1) + 1 # 1
          /\ ((m + 1) + 1) - 1 = m + 1
          /\ 1..(m + 1) + 1 = (1..m + 1) \cup {(m + 1) + 1}
      OBVIOUS
    <3>. DEFINE k == (m + 1) + 1
    <3>2. F[k] = Joined(F[m + 1], seqs[k])
      BY <2>5, <3>1
    <3>3. Listed(F[m + 1]) /\ Listed(seqs[k])
      BY <2>7, <3>1
    <3>4. Listed(F[k]) /\ ToSet(F[k]) = ToSet(F[m + 1]) \cup ToSet(seqs[k])
      BY <3>2, <3>3, ListedJoined
    <3>. HIDE DEF k
    <3>5. UNION {ToSet(seqs[n]) : n \in (1..m + 1) \cup {k}}
            = (UNION {ToSet(seqs[n]) : n \in 1..m + 1}) \cup ToSet(seqs[k])
      OBVIOUS
    <3>6. ToSet(F[k]) = UNION {ToSet(seqs[n]) : n \in 1..k}
      BY <2>7, <3>1, <3>4, <3>5 DEF k
    <3>. QED  BY <3>1, <3>4, <3>6 DEF k
  <2>8. N - 1 \in S
    <3>. HIDE DEF S
    <3>1. N - 1 \in Nat /\ N - 1 \in 0..N - 1
      BY <1>3
    <3>2. \A m \in 0..N - 1 : m \in S
      BY <2>6, <2>7, <3>1, BoundedInduction
    <3>. QED  BY <3>1, <3>2
  <2>9. (N - 1) + 1 = N
    OBVIOUS
  <2>. QED  BY <2>1, <2>8, <2>9
<1>. QED  BY <1>2, <1>3

-----------------------------------------------------------------------------
(* The invariant. *)

\* What layer p holds: the values of the input, folded by the columns of p.
Values(p) == [x \in Positions(BasisAt(Len(p))) |-> <<p, Element(BasisAt(Len(p)), x)>>]

\* The layers down to depth l.
Upto(l) == {<<>>} \cup {p \in tree : Len(p) <= l}
Level(l) == {p \in tree : Len(p) = l}

\* The tree of subproofs is closed under what is above.
TreeInv ==
    /\ inst \in Instances /\ IsFiniteSet(tree)
    /\ \A p \in tree : \E d \in 1..Depth : p \in Chains(d)
    /\ \A p \in tree : \A d \in 1..Len(p) : SubSeq(p, 1, d) \in tree

RsQueries(n, p) == {query(p, x, <<"rs", n, x>>) : x \in Positions(BasisAt(Depth))}
PathQueries(q) == PointQueries(q, paths[q])
                    \cup UNION {RowQueries(q, paths[q], d) : d \in 2..Depth}

\* The queries are those of the columns drawn and of the paths, and no others.
QueriesInv ==
    /\ rsResults \in 0..inst.numComitmentPaths
    /\ \E n \in 0..inst.numQueryPaths : Lists(paths, n)
    /\ \A q \in DOMAIN paths :
         /\ paths[q].columns \in Level(Depth)
         /\ \E first \in Rows(BasisAt(0)) : paths[q].sigments = Sigments(first)
    /\ \E choice \in [1..rsResults -> Level(Depth)] :
         proof = (UNION {RsQueries(n, choice[n]) : n \in 1..rsResults})
                   \cup UNION {PathQueries(q) : q \in DOMAIN paths}
    /\ univariate = UNION {RowQueries(q, paths[q], 1) : q \in DOMAIN paths}
    /\ paths # <<>> => rsResults = inst.numComitmentPaths
    /\ stage # "draw" => /\ rsResults = inst.numComitmentPaths
                         /\ Lists(paths, inst.numQueryPaths)

\* Requests, commitments and evaluations are one layer apart, and right.
AtLevel(l) ==
    /\ Listed(requests) /\ ToSet(requests) = Level(l)
    /\ DOMAIN commitment = Upto(l - 1)
    /\ DOMAIN evaluations = Upto(IF stage = "receive" THEN l ELSE l - 1)

ResultsRight == message.results = [p \in tree |-> answerQueries(Values(p), RawQueries[p])]

LayersInv ==
    /\ stage = "draw" => /\ DOMAIN commitment = {<<>>} /\ DOMAIN evaluations = {<<>>}
    /\ stage \in {"verifier", "prover", "receive"} => \E l \in 1..Depth + 1 : AtLevel(l)
    /\ \A p \in DOMAIN evaluations : evaluations[p] = Values(p)
    /\ \A p \in DOMAIN commitment \ {<<>>} : commitment[p] = Values(p)
    /\ stage = "prover" => message = Request
    /\ stage = "receive" =>
         /\ message.comitments = [n \in DOMAIN requests |-> Values(requests[n])]
         /\ requests = <<>> => ResultsRight
    /\ stage \in {"input", "verify"} => ResultsRight /\ tree \subseteq DOMAIN commitment

\* A place that waits for a position holds the value that is there.
Holds(q) ==
    /\ q.place \in DOMAIN answers
    /\ answers[q.place] = <<q.at, Element(BasisAt(Len(q.at)), q.idx)>>

AnswersInv ==
    /\ stage \in {"draw", "verifier", "prover", "receive"} => DOMAIN answers = {}
    /\ stage = "input" => DOMAIN answers = {q.place : q \in proof}
    /\ stage \in {"input", "verify"} => \A q \in proof : Holds(q)
    /\ stage = "verify" => \A q \in univariate : Holds(q)

IInv ==
    /\ TreeInv /\ QueriesInv /\ LayersInv /\ AnswersInv
    /\ stage \in {"draw", "verifier", "prover", "receive", "input", "verify", "decided"}
    /\ stage = "decided" => accepted
-----------------------------------------------------------------------------
(* Layers. *)

\* Nothing but the instance says what spaces, layers and paths are.
LEMMA Unmoved ==
    ASSUME UNCHANGED inst
    PROVE  /\ Depth' = Depth
           /\ \A d : BasisAt(d)' = BasisAt(d)
           /\ \A b, i, g : getBasisLIndex(b, i, g)' = getBasisLIndex(b, i, g)
           /\ \A b : Rows(b)' = Rows(b)
           /\ \A p : Values(p)' = Values(p)
           /\ \A first : Sigments(first)' = Sigments(first)
           /\ \A q, p : PointQueries(q, p)' = PointQueries(q, p)
           /\ \A q, p, d : RowQueries(q, p, d)' = RowQueries(q, p, d)
           /\ \A n, p : RsQueries(n, p)' = RsQueries(n, p)
<1>1. Depth' = Depth
  BY DEF Depth
<1>2. ASSUME NEW b PROVE getL1Basis(b)' = getL1Basis(b)
  BY DEF getL1Basis
<1>3. ASSUME NEW d PROVE BasisAt(d)' = BasisAt(d)
  BY <1>2 DEF BasisAt
<1>4. ASSUME NEW b, NEW i, NEW g PROVE getBasisLIndex(b, i, g)' = getBasisLIndex(b, i, g)
  BY DEF getBasisLIndex
<1>5. ASSUME NEW b PROVE Rows(b)' = Rows(b)
  BY <1>2 DEF Rows
<1>6. ASSUME NEW p PROVE Values(p)' = Values(p)
  BY <1>3 DEF Values
<1>7. ASSUME NEW first PROVE Sigments(first)' = Sigments(first)
  BY <1>1 DEF Sigments
<1>8. ASSUME NEW q, NEW p PROVE PointQueries(q, p)' = PointQueries(q, p)
  BY <1>1 DEF PointQueries
<1>9. ASSUME NEW q, NEW p, NEW d PROVE RowQueries(q, p, d)' = RowQueries(q, p, d)
  BY <1>3, <1>4 DEF RowQueries
<1>10. ASSUME NEW n, NEW p PROVE RsQueries(n, p)' = RsQueries(n, p)
  BY <1>1, <1>3 DEF RsQueries
<1>. QED  BY <1>1, <1>3, <1>4, <1>5, <1>6, <1>7, <1>8, <1>9, <1>10

\* A row of a layer, in its order over its own space, is folded to one value.
LEMMA InterpolateRight ==
    ASSUME NEW p \in tree \cup {<<>>}, NEW L0, NEW offset, NEW column, NEW row,
           \A i \in 0..3 : row[i] = <<p, offset \cup Element(L0, i)>>
    PROVE  Interpolate(row, L0, offset, column) = <<Append(p, column), offset>>
<1>1. RowSize = 4
  BY DEF RowSize, POW2, dimReduction
<1>2. row[0][1] = p
  OBVIOUS
<1>. QED  BY <1>1, <1>2 DEF Interpolate, Element

\* A layer that is right is folded to a layer that is right.
LEMMA LayerFolded ==
    ASSUME inst \in Instances, NEW d \in 1..Depth, NEW p \in Chains(d),
           Front(p) \in tree \cup {<<>>}
    PROVE  Fold(Values(Front(p)), d - 1, Last(p)) = Values(p)
<1>. DEFINE f == Front(p)
            B == BasisAt(d - 1)
            row(k) == [j \in 0..RowSize - 1 |-> Values(f)[getBasisLIndex(B, j, k)]]
<1>1. Depth \in Nat /\ RowSize = 4
  BY DepthFacts DEF RowSize, POW2, dimReduction
<1>2. Len(f) = d - 1 /\ Append(f, Last(p)) = p /\ Len(p) = d
  BY <1>1, ChainSplit, ChainLists
<1>3. getL1Basis(B) = BasisAt(d) /\ Rows(B) = Positions(BasisAt(d))
  BY LayerSpaces
<1>4. ASSUME NEW g \in Positions(BasisAt(d))
      PROVE  Interpolate(row(g), getL0Basis(B), Element(BasisAt(d), g), Last(p))
               = <<p, Element(BasisAt(d), g)>>
  <2>1. ASSUME NEW i \in 0..3
        PROVE  row(g)[i] = <<f, Element(BasisAt(d), g) \cup Element(getL0Basis(B), i)>>
    <3>. DEFINE x == getBasisLIndex(B, i, g)
    <3>1. /\ x \in Positions(B)
          /\ Element(B, x) = Element(BasisAt(d), g) \cup Element(getL0Basis(B), i)
      BY LayerSpaces
    <3>2. row(g)[i] = Values(f)[x]
      BY <1>1
    <3>. HIDE DEF x
    <3>3. Values(f)[x] = <<f, Element(B, x)>>
      BY <1>2, <3>1 DEF Values
    <3>. QED  BY <3>1, <3>2, <3>3
  <2>. DEFINE r == row(g)
  <2>. HIDE DEF r, B
  <2>2. \A i \in 0..3 : r[i] = <<f, Element(BasisAt(d), g) \cup Element(getL0Basis(B), i)>>
    BY <2>1 DEF r, B
  <2>. HIDE DEF f
  <2>3. f \in tree \cup {<<>>}
    BY DEF f
  <2>4. Interpolate(r, getL0Basis(B), Element(BasisAt(d), g), Last(p))
          = <<Append(f, Last(p)), Element(BasisAt(d), g)>>
    BY <2>2, <2>3, InterpolateRight
  <2>. QED  BY <1>2, <2>4 DEF r, f
<1>5. Fold(Values(f), d - 1, Last(p))
        = [g \in Rows(B) |-> Interpolate(row(g), getL0Basis(B),
                                         Element(getL1Basis(B), g), Last(p))]
  BY DEF Fold, Element
<1>6. Values(p) = [g \in Positions(BasisAt(d)) |-> <<p, Element(BasisAt(d), g)>>]
  BY <1>2 DEF Values
<1>7. Fold(Values(f), d - 1, Last(p)) = [g \in Positions(BasisAt(d)) |-> <<p, Element(BasisAt(d), g)>>]
  <2>. DEFINE folded(k) == Interpolate(row(k), getL0Basis(B), Element(BasisAt(d), k), Last(p))
  <2>1. \A g \in Positions(BasisAt(d)) : folded(g) = <<p, Element(BasisAt(d), g)>>
    BY <1>4
  <2>2. Fold(Values(f), d - 1, Last(p)) = [g \in Positions(BasisAt(d)) |-> folded(g)]
    BY <1>3, <1>5
  <2>. HIDE DEF folded
  <2>. QED  BY <2>1, <2>2
<1>. QED  BY <1>6, <1>7

\* The layers of the tree are sequences of columns, and what is above them too.
LEMMA TreeFacts ==
    ASSUME TreeInv
    PROVE  /\ inst \in Instances /\ Depth \in Nat \ {0}
           /\ \A p \in tree :
                /\ Len(p) \in 1..Depth /\ p \in Chains(Len(p))
                /\ Front(p) \in Upto(Len(p) - 1) /\ Len(Front(p)) = Len(p) - 1
                /\ Front(p) = SubSeq(p, 1, Len(p) - 1)
                /\ Front(p) # <<>> => Front(p) \in tree
                /\ Len(p) = 1 => Front(p) = <<>>
                /\ \A d \in 1..Len(p) : SubSeq(p, 1, d) \in tree /\ Len(SubSeq(p, 1, d)) = d
<1>1. inst \in Instances /\ Depth \in Nat \ {0}
  BY DepthFacts DEF TreeInv
<1>2. ASSUME NEW p \in tree
      PROVE  /\ Len(p) \in 1..Depth /\ p \in Chains(Len(p))
             /\ Front(p) \in Upto(Len(p) - 1) /\ Len(Front(p)) = Len(p) - 1
             /\ Front(p) = SubSeq(p, 1, Len(p) - 1)
             /\ Front(p) # <<>> => Front(p) \in tree
             /\ Len(p) = 1 => Front(p) = <<>>
             /\ \A d \in 1..Len(p) : SubSeq(p, 1, d) \in tree /\ Len(SubSeq(p, 1, d)) = d
  <2>1. PICK d \in 1..Depth : p \in Chains(d)
    BY DEF TreeInv
  <2>2. d \in Nat \ {0} /\ Len(p) = d
    BY <1>1, <2>1, ChainLists
  <2>3. \A e \in 1..d : SubSeq(p, 1, e) \in tree
    BY <2>2 DEF TreeInv
  <2>4. \A e \in 0..d : Len(SubSeq(p, 1, e)) = e /\ SubSeq(p, 1, 0) = <<>>
    BY <2>1, <2>2, ChainParts
  <2>5. Front(p) = SubSeq(p, 1, d - 1) /\ Len(Front(p)) = d - 1
    BY <2>1, <2>2, ChainSplit
  <2>6. CASE d = 1
    BY <1>1, <2>1, <2>2, <2>3, <2>4, <2>5, <2>6 DEF Upto
  <2>7. CASE d # 1
    <3>1. d - 1 \in 1..d
      BY <2>2, <2>7
    <3>2. Front(p) \in tree
      BY <2>3, <2>5, <3>1
    <3>. QED  BY <1>1, <2>1, <2>2, <2>3, <2>4, <2>5, <2>7, <3>2 DEF Upto
  <2>. QED  BY <2>6, <2>7
<1>. QED  BY <1>1, <1>2

\* The requests after these are for the layers right below.
LEMMA RequestsBelow ==
    ASSUME TreeInv, NEW reqs, Listed(reqs)
    PROVE  /\ Listed(NextRequests(reqs))
           /\ ToSet(NextRequests(reqs)) = {r \in tree : Front(r) \in ToSet(reqs)}
<1>1. PICK n \in Nat : Lists(reqs, n)
  BY DEF Listed
<1>. DEFINE seqs == [k \in DOMAIN reqs |-> SetToSeq(Children(reqs[k]))]
<1>2. DOMAIN reqs = 1..n /\ ToSet(reqs) = {reqs[k] : k \in 1..n}
  BY <1>1 DEF Lists, ToSet
<1>3. \A p : IsFiniteSet(Children(p))
  <2>1. \A p : Children(p) \in SUBSET tree
    BY DEF Children
  <2>. QED  BY <2>1, FS_Subset DEF TreeInv
<1>4. Lists(seqs, n)
  BY <1>2 DEF Lists
<1>5. \A k \in 1..n : Listed(seqs[k]) /\ ToSet(seqs[k]) = Children(reqs[k])
  BY <1>2, <1>3, SetListed
<1>6. NextRequests(reqs) = FlattenSeq(seqs)
  BY DEF NextRequests
<1>. HIDE DEF seqs
<1>7. Listed(FlattenSeq(seqs)) /\ ToSet(FlattenSeq(seqs)) = UNION {ToSet(seqs[k]) : k \in 1..n}
  BY <1>4, <1>5, FlattenHolds
<1>8. \A r \in tree : Len(r) = Len(Front(r)) + 1
  BY TreeFacts
<1>9. UNION {ToSet(seqs[k]) : k \in 1..n} = {r \in tree : Front(r) \in ToSet(reqs)}
  <2>1. UNION {ToSet(seqs[k]) : k \in 1..n} \subseteq {r \in tree : Front(r) \in ToSet(reqs)}
    BY <1>2, <1>5 DEF Children
  <2>2. \A r \in tree : \A k \in 1..n : Front(r) = reqs[k] => r \in Children(reqs[k])
    BY <1>8 DEF Children
  <2>3. {r \in tree : Front(r) \in ToSet(reqs)} \subseteq UNION {ToSet(seqs[k]) : k \in 1..n}
    BY <1>2, <1>5, <2>2
  <2>. QED  BY <2>1, <2>3
<1>. QED  BY <1>6, <1>7, <1>9
\* Another element at the end of a sequence.
LEMMA ListAppended ==
    ASSUME NEW n \in Nat, NEW s, Lists(s, n), NEW x
    PROVE  /\ Lists(Append(s, x), n + 1) /\ Append(s, x)[n + 1] = x
           /\ \A i \in 1..n : Append(s, x)[i] = s[i]
<1>. DEFINE S == {s[i] : i \in 1..n} \cup {x}
            a == Append(s, x)
<1>1. s \in [1..n -> S] /\ x \in S
  BY DEF Lists
<1>. HIDE DEF S
<1>2. s \in Seq(S) /\ Len(s) = n
  BY <1>1, SeqDef, LenProperties
<1>3. /\ a \in Seq(S) /\ Len(a) = n + 1 /\ a[n + 1] = x
      /\ \A i \in 1..n : a[i] = s[i]
  BY <1>1, <1>2, AppendProperties
<1>. HIDE DEF a
<1>4. a \in [1..n + 1 -> S]
  BY <1>3, LenProperties
<1>5. Lists(a, n + 1)
  BY <1>4 DEF Lists
<1>. QED  BY <1>3, <1>5 DEF a

-----------------------------------------------------------------------------
(* The actions, one by one: first what the constructor draws. *)

LEMMA InitInv == Init => IInv
<1>. SUFFICES ASSUME Init PROVE IInv
  OBVIOUS
<1>. USE DEF Init
<1>1. Depth \in Nat \ {0} /\ inst.numComitmentPaths \in Nat /\ inst.numQueryPaths \in Nat
  BY DepthFacts
<1>2. TreeInv
  BY FS_EmptySet DEF TreeInv
<1>3. QueriesInv
  <2>1. Lists(<<>>, 0)
    BY DEF Lists
  <2>2. proof = (UNION {RsQueries(n, [m \in 1..0 |-> m][n]) : n \in 1..0})
                  \cup UNION {PathQueries(q) : q \in DOMAIN paths}
    OBVIOUS
  <2>3. [m \in 1..0 |-> m] \in [1..rsResults -> Level(Depth)]
    OBVIOUS
  <2>4. \E choice \in [1..rsResults -> Level(Depth)] :
         proof = (UNION {RsQueries(n, choice[n]) : n \in 1..rsResults})
                   \cup UNION {PathQueries(q) : q \in DOMAIN paths}
    BY <2>2, <2>3
  <2>5. DOMAIN paths = {} /\ paths = <<>> /\ stage = "draw"
    OBVIOUS
  <2>6. univariate = UNION {RowQueries(q, paths[q], 1) : q \in DOMAIN paths}
    BY <2>5
  <2>7. rsResults \in 0..inst.numComitmentPaths /\ \E n \in 0..inst.numQueryPaths : Lists(paths, n)
    BY <1>1, <2>1
  <2>8. \A q \in DOMAIN paths : /\ paths[q].columns \in Level(Depth)
                                /\ \E first \in Rows(BasisAt(0)) : paths[q].sigments = Sigments(first)
    BY <2>5
  <2>. HIDE DEF Init
  <2>. QED  BY <2>4, <2>5, <2>6, <2>7, <2>8 DEF QueriesInv
<1>4. LayersInv
  <2>1. Len(<<>>) = 0
    OBVIOUS
  <2>2. evaluations[<<>>] = Values(<<>>)
    BY <2>1 DEF Values, Element
  <2>. QED  BY <2>2 DEF LayersInv
<1>5. AnswersInv
  BY DEF AnswersInv
<1>. QED  BY <1>2, <1>3, <1>4, <1>5 DEF IInv

\* More columns.
LEMMA ComitmentPathStep == IInv /\ addRandomComitmentPath => IInv'
<1>. SUFFICES ASSUME IInv, addRandomComitmentPath PROVE IInv'
  OBVIOUS
<1>. USE DEF IInv
<1>1. PICK columns \in Chains(Depth) :
        /\ tree'  = tree \cup {SubSeq(columns, 1, d) : d \in 1..Depth}
        /\ proof' = proof \cup RsQueries(rsResults + 1, columns)
  BY DEF addRandomComitmentPath, Chains, RsQueries
<1>2. /\ stage = "draw" /\ rsResults < inst.numComitmentPaths /\ rsResults' = rsResults + 1
      /\ UNCHANGED <<inst, paths, univariate, requests, commitment, evaluations,
                     message, answers, stage, accepted>>
  BY DEF addRandomComitmentPath
<1>3. inst \in Instances /\ Depth \in Nat \ {0} /\ inst.numComitmentPaths \in Nat
  BY DepthFacts DEF TreeInv
<1>4. /\ Depth' = Depth
      /\ \A d : BasisAt(d)' = BasisAt(d)
      /\ \A b : Rows(b)' = Rows(b)
      /\ \A p : Values(p)' = Values(p)
      /\ \A first : Sigments(first)' = Sigments(first)
      /\ \A q, p : PointQueries(q, p)' = PointQueries(q, p)
      /\ \A q, p, d : RowQueries(q, p, d)' = RowQueries(q, p, d)
      /\ \A n, p : RsQueries(n, p)' = RsQueries(n, p)
  <2>1. UNCHANGED inst
    BY <1>2
  <2>. QED  BY ONLY <2>1, Unmoved
<1>. DEFINE new == {SubSeq(columns, 1, d) : d \in 1..Depth}
<1>5. \A d \in 1..Depth : /\ SubSeq(columns, 1, d) \in Chains(d)
                          /\ Len(SubSeq(columns, 1, d)) = d
                          /\ \A c \in 1..d : SubSeq(SubSeq(columns, 1, d), 1, c)
                                               = SubSeq(columns, 1, c)
  <2>1. \A d \in 0..Depth : /\ SubSeq(columns, 1, d) \in Chains(d)
                            /\ Len(SubSeq(columns, 1, d)) = d
                            /\ \A c \in 0..d : SubSeq(SubSeq(columns, 1, d), 1, c)
                                                 = SubSeq(columns, 1, c)
    <3>1. Depth \in Nat /\ columns \in Chains(Depth)
      BY <1>3
    <3>. QED  BY ONLY <3>1, ChainParts
  <2>2. \A d \in 1..Depth : d \in 0..Depth
    BY <1>3
  <2>3. \A d : \A c \in 1..d : c \in 0..d
    OBVIOUS
  <2>. QED  BY <2>1, <2>2, <2>3
<1>6. columns \in new /\ Len(columns) = Depth
  BY <1>3, ChainParts, ChainLists
<1>7. TreeInv'
  <2>1. IsFiniteSet(new)
    <3>. DEFINE g == [d \in 1..Depth |-> SubSeq(columns, 1, d)]
    <3>1. g \in Surjection(1..Depth, new)
      BY DEF Surjection
    <3>2. IsFiniteSet(1..Depth)
      BY <1>3, FS_Interval
    <3>. HIDE DEF new, g
    <3>. QED  BY <3>1, <3>2, FS_Surjection
  <2>2. IsFiniteSet(tree \cup new)
    <3>. HIDE DEF new
    <3>. QED  BY <2>1, FS_Union DEF TreeInv
  <2>3. ASSUME NEW p \in new
        PROVE  (\E d \in 1..Depth : p \in Chains(d)) /\ \A d \in 1..Len(p) : SubSeq(p, 1, d) \in new
    <3>1. PICK d \in 1..Depth : p = SubSeq(columns, 1, d)
      OBVIOUS
    <3>2. Len(p) = d /\ \A c \in 1..d : c \in 1..Depth /\ SubSeq(p, 1, c) = SubSeq(columns, 1, c)
      BY <1>3, <1>5, <3>1
    <3>. QED  BY <1>5, <3>1, <3>2
  <2>. HIDE DEF new
  <2>4. tree' = tree \cup new
    BY <1>1 DEF new
  <2>5. (\A p \in tree' : \E d \in 1..Depth : p \in Chains(d))
        /\ \A p \in tree' : \A d \in 1..Len(p) : SubSeq(p, 1, d) \in tree'
    BY <2>3, <2>4 DEF TreeInv
  <2>. QED  BY <1>2, <1>4, <2>2, <2>4, <2>5 DEF TreeInv
<1>8. QueriesInv'
  <2>1. Level(Depth) \subseteq Level(Depth)' /\ columns \in Level(Depth)'
    BY <1>1, <1>4, <1>6 DEF Level
  <2>2. \A q : PathQueries(q)' = PathQueries(q)
    BY <1>2, <1>4 DEF PathQueries
  <2>3. PICK choice \in [1..rsResults -> Level(Depth)] :
         proof = (UNION {RsQueries(n, choice[n]) : n \in 1..rsResults})
                   \cup UNION {PathQueries(q) : q \in DOMAIN paths}
    BY DEF QueriesInv
  <2>. DEFINE m == rsResults + 1
              more == [n \in 1..m |-> IF n = m THEN columns ELSE choice[n]]
  <2>4. rsResults \in Nat /\ 1..m = (1..rsResults) \cup {m} /\ m \notin 1..rsResults
    BY <1>3 DEF QueriesInv
  <2>5. more \in [1..m -> Level(Depth)']
    BY <2>1, <2>4
  <2>6. more[m] = columns /\ \A n \in 1..rsResults : more[n] = choice[n]
    BY <2>4
  <2>. HIDE DEF more
  <2>7. proof' = (UNION {RsQueries(n, more[n]) : n \in 1..m})
                   \cup UNION {PathQueries(q) : q \in DOMAIN paths}
    BY <1>1, <2>3, <2>4, <2>6
  <2>8. \E other \in [1..rsResults' -> Level(Depth)'] :
         proof' = (UNION {RsQueries(n, other[n])' : n \in 1..rsResults'})
                   \cup UNION {PathQueries(q)' : q \in DOMAIN paths'}
    BY <1>2, <1>4, <2>2, <2>5, <2>7
  <2>9. paths = <<>> /\ rsResults' \in 0..inst.numComitmentPaths
    BY <1>2, <1>3, <2>4 DEF QueriesInv
  <2>10. DOMAIN paths = {} /\ univariate = UNION {RowQueries(q, paths[q], 1) : q \in DOMAIN paths}
         /\ \E n \in 0..inst.numQueryPaths : Lists(paths, n)
    BY <2>9 DEF QueriesInv
  <2>. QED  BY <1>2, <1>4, <2>8, <2>9, <2>10 DEF QueriesInv
<1>9. LayersInv'
  BY <1>2, <1>4 DEF LayersInv
<1>10. AnswersInv'
  BY <1>2 DEF AnswersInv
<1>. QED  BY <1>2, <1>7, <1>8, <1>9, <1>10

\* One more path, over columns that were drawn.
LEMMA QueryPathStep == IInv /\ addRandomQueryPath => IInv'
<1>. SUFFICES ASSUME IInv, addRandomQueryPath PROVE IInv'
  OBVIOUS
<1>. USE DEF IInv
<1>. DEFINE k == Len(paths) + 1
<1>1. PICK columns \in Level(Depth), first \in Rows(BasisAt(0)) :
        LET path == [columns |-> columns, sigments |-> Sigments(first)]
        IN  /\ paths' = Append(paths, path)
            /\ univariate' = univariate \cup RowQueries(k, path, 1)
            /\ proof' = proof \cup PointQueries(k, path)
                              \cup UNION {RowQueries(k, path, d) : d \in 2..Depth}
  BY DEF addRandomQueryPath, Level
<1>2. /\ stage = "draw" /\ rsResults = inst.numComitmentPaths /\ Len(paths) < inst.numQueryPaths
      /\ UNCHANGED <<inst, rsResults, tree, requests, commitment, evaluations,
                     message, answers, stage, accepted>>
  BY DEF addRandomQueryPath
<1>3. inst \in Instances /\ inst.numQueryPaths \in Nat
  BY DepthFacts DEF TreeInv
<1>4. /\ Depth' = Depth
      /\ \A d : BasisAt(d)' = BasisAt(d)
      /\ \A b : Rows(b)' = Rows(b)
      /\ \A p : Values(p)' = Values(p)
      /\ \A f : Sigments(f)' = Sigments(f)
      /\ \A q, p : PointQueries(q, p)' = PointQueries(q, p)
      /\ \A q, p, d : RowQueries(q, p, d)' = RowQueries(q, p, d)
      /\ \A n, p : RsQueries(n, p)' = RsQueries(n, p)
  BY <1>2, Unmoved
<1>. DEFINE path == [columns |-> columns, sigments |-> Sigments(first)]
<1>5. PICK n \in 0..inst.numQueryPaths : Lists(paths, n)
  BY DEF QueriesInv
<1>6. Len(paths) = n /\ k = n + 1 /\ n < inst.numQueryPaths /\ n \in Nat
  BY <1>2, <1>3, <1>5, ListLength
<1>7. /\ Lists(paths', n + 1) /\ paths'[n + 1] = path
      /\ \A i \in 1..n : paths'[i] = paths[i]
  BY <1>1, <1>5, <1>6, ListAppended
<1>. HIDE DEF path, k
<1>8. DOMAIN paths = 1..n /\ DOMAIN paths' = (1..n) \cup {n + 1} /\ n + 1 \notin 1..n
  <2>1. 1..n + 1 = (1..n) \cup {n + 1}
    BY <1>6
  <2>. QED  BY <1>5, <1>6, <1>7, <2>1 DEF Lists
<1>9. TreeInv'
  BY <1>2, <1>4 DEF TreeInv
<1>10. QueriesInv'
  <2>1. Level(Depth)' = Level(Depth)
    BY <1>2, <1>4 DEF Level
  <2>2. \A q \in 1..n : PathQueries(q)' = PathQueries(q)
    BY <1>4, <1>7 DEF PathQueries
  <2>3. PathQueries(n + 1)' = PointQueries(n + 1, path)
                                \cup UNION {RowQueries(n + 1, path, d) : d \in 2..Depth}
    BY <1>4, <1>7 DEF PathQueries
  <2>4. PICK choice \in [1..rsResults -> Level(Depth)] :
         proof = (UNION {RsQueries(m, choice[m]) : m \in 1..rsResults})
                   \cup UNION {PathQueries(q) : q \in DOMAIN paths}
    BY DEF QueriesInv
  <2>5. proof' = proof \cup PathQueries(n + 1)'
    BY <1>1, <1>6, <2>3 DEF path, k
  <2>6. proof' = (UNION {RsQueries(m, choice[m]) : m \in 1..rsResults})
                   \cup UNION {PathQueries(q)' : q \in DOMAIN paths'}
    <3>1. UNION {PathQueries(q)' : q \in (1..n) \cup {n + 1}}
            = (UNION {PathQueries(q) : q \in 1..n}) \cup PathQueries(n + 1)'
      BY <2>2
    <3>. QED  BY <1>8, <2>4, <2>5, <3>1
  <2>7. \E other \in [1..rsResults' -> Level(Depth)'] :
         proof' = (UNION {RsQueries(m, other[m])' : m \in 1..rsResults'})
                   \cup UNION {PathQueries(q)' : q \in DOMAIN paths'}
    <3>1. choice \in [1..rsResults' -> Level(Depth)']
      BY <1>2, <2>1
    <3>2. UNION {RsQueries(m, choice[m])' : m \in 1..rsResults'}
            = UNION {RsQueries(m, choice[m]) : m \in 1..rsResults}
      BY <1>2, <1>4
    <3>. QED  BY <2>6, <3>1, <3>2
  <2>8. univariate' = UNION {RowQueries(q, paths[q], 1)' : q \in DOMAIN paths'}
    <3>1. univariate' = univariate \cup RowQueries(n + 1, path, 1)
      BY <1>1, <1>6 DEF path, k
    <3>2. UNION {RowQueries(q, paths'[q], 1) : q \in (1..n) \cup {n + 1}}
            = (UNION {RowQueries(q, paths[q], 1) : q \in 1..n}) \cup RowQueries(n + 1, path, 1)
      BY <1>7
    <3>3. \A q : RowQueries(q, paths[q], 1)' = RowQueries(q, paths'[q], 1)
      BY <1>4
    <3>. QED  BY <1>8, <3>1, <3>2, <3>3 DEF QueriesInv
  <2>9. \A q \in DOMAIN paths' :
          /\ paths'[q].columns \in Level(Depth)'
          /\ \E f \in Rows(BasisAt(0)) : paths'[q].sigments = Sigments(f)
    BY <1>7, <1>8, <2>1 DEF QueriesInv, path
  <2>10. n + 1 \in 0..inst.numQueryPaths
    BY <1>3, <1>6
  <2>. QED  BY <1>2, <1>4, <1>7, <2>7, <2>8, <2>9, <2>10 DEF QueriesInv
<1>11. LayersInv'
  BY <1>2, <1>4 DEF LayersInv
<1>12. AnswersInv'
  BY <1>2 DEF AnswersInv
<1>. QED  BY <1>2, <1>9, <1>10, <1>11, <1>12

-----------------------------------------------------------------------------
(* Layer by layer. *)

\* Nothing more is drawn.
LEMMA DrawnKept ==
    ASSUME TreeInv, QueriesInv, UNCHANGED drawn,
           stage = "draw" /\ stage' # "draw" => Len(paths) = inst.numQueryPaths
    PROVE  /\ TreeInv' /\ QueriesInv'
           /\ Depth' = Depth /\ \A d : BasisAt(d)' = BasisAt(d)
           /\ \A p : Values(p)' = Values(p)
           /\ \A l : Upto(l)' = Upto(l) /\ Level(l)' = Level(l)
           /\ RawQueries' = RawQueries
<1>1. UNCHANGED <<inst, rsResults, paths, univariate, proof, tree>>
  BY DEF drawn
<1>2. /\ Depth' = Depth
      /\ \A d : BasisAt(d)' = BasisAt(d)
      /\ \A b : Rows(b)' = Rows(b)
      /\ \A p : Values(p)' = Values(p)
      /\ \A f : Sigments(f)' = Sigments(f)
      /\ \A q, p : PointQueries(q, p)' = PointQueries(q, p)
      /\ \A q, p, d : RowQueries(q, p, d)' = RowQueries(q, p, d)
      /\ \A n, p : RsQueries(n, p)' = RsQueries(n, p)
  BY <1>1, Unmoved
<1>3. TreeInv'
  BY <1>1, <1>2 DEF TreeInv
<1>4. \A l : Upto(l)' = Upto(l) /\ Level(l)' = Level(l)
  BY <1>1 DEF Upto, Level
<1>5. \A q : PathQueries(q)' = PathQueries(q)
  BY <1>1, <1>2 DEF PathQueries
<1>6. stage' # "draw" => rsResults = inst.numComitmentPaths /\ Lists(paths, inst.numQueryPaths)
  <2>1. CASE stage # "draw"
    BY <2>1 DEF QueriesInv
  <2>2. CASE stage = "draw" /\ stage' # "draw"
    <3>1. PICK n \in 0..inst.numQueryPaths : Lists(paths, n)
      BY DEF QueriesInv
    <3>2. inst.numQueryPaths \in Nat \ {0} /\ n \in Nat
      BY DepthFacts DEF TreeInv
    <3>3. n = inst.numQueryPaths
      BY <2>2, <3>1, <3>2, ListLength
    <3>4. 1 \in DOMAIN paths
      BY <3>1, <3>2, <3>3 DEF Lists
    <3>5. paths # <<>>
      BY <3>4
    <3>. QED  BY <3>1, <3>3, <3>5 DEF QueriesInv
  <2>. QED  BY <2>1, <2>2
<1>7. QueriesInv'
  BY <1>1, <1>2, <1>4, <1>5, <1>6 DEF QueriesInv
<1>8. RawQueries' = RawQueries
  BY <1>1 DEF RawQueries
<1>. QED  BY <1>2, <1>3, <1>4, <1>7, <1>8

\* Layers are counted from one, and nothing is below the last.
LEMMA LevelFacts ==
    ASSUME TreeInv
    PROVE  /\ Upto(0) = {<<>>} /\ \A l \in 1..Depth + 1 : <<>> \notin Level(l)
           /\ \A l \in 1..Depth + 1 : Upto(l) = Upto(l - 1) \cup Level(l)
           /\ \A l \in 1..Depth + 1 : {r \in tree : Front(r) \in Level(l)} = Level(l + 1)
           /\ {r \in tree : Front(r) = <<>>} = Level(1)
           /\ \A l \in 1..Depth + 1 : Level(l) = {} => tree \cup {<<>>} = Upto(l - 1)
           /\ \A l \in 1..Depth + 1 : Level(l) # {} => l \in 1..Depth
<1>1. /\ Depth \in Nat \ {0}
      /\ \A p \in tree :
           /\ Len(p) \in 1..Depth
           /\ Front(p) \in Upto(Len(p) - 1) /\ Len(Front(p)) = Len(p) - 1
           /\ Front(p) # <<>> => Front(p) \in tree
           /\ Len(p) = 1 => Front(p) = <<>>
           /\ \A d \in 1..Len(p) : SubSeq(p, 1, d) \in tree /\ Len(SubSeq(p, 1, d)) = d
  BY TreeFacts
<1>2. Len(<<>>) = 0
  OBVIOUS
<1>3. <<>> \notin tree
  BY <1>1, <1>2
<1>4. Upto(0) = {<<>>} /\ \A l \in 1..Depth + 1 : <<>> \notin Level(l)
  BY <1>1, <1>3 DEF Upto, Level
<1>5. \A l \in 1..Depth + 1 : Upto(l) = Upto(l - 1) \cup Level(l)
  BY <1>1 DEF Upto, Level
<1>6. ASSUME NEW l \in 1..Depth + 1
      PROVE  {r \in tree : Front(r) \in Level(l)} = Level(l + 1)
  <2>1. \A r \in tree : Len(r) = l + 1 => Front(r) # <<>>
    BY <1>1, <1>2
  <2>. QED  BY <1>1, <2>1 DEF Level
<1>7. {r \in tree : Front(r) = <<>>} = Level(1)
  <2>1. ASSUME NEW r \in tree, Front(r) = <<>> PROVE Len(r) = 1
    <3>1. Len(Front(r)) = 0
      BY <1>2, <2>1
    <3>2. Len(Front(r)) = Len(r) - 1 /\ Len(r) \in 1..Depth
      BY <1>1
    <3>. QED  BY <1>1, <3>1, <3>2
  <2>. QED  BY <1>1, <2>1 DEF Level
<1>8. ASSUME NEW l \in 1..Depth + 1, Level(l) = {} PROVE tree \cup {<<>>} = Upto(l - 1)
  <2>1. ASSUME NEW p \in tree PROVE Len(p) <= l - 1
    <3>1. SUFFICES ASSUME l <= Len(p) PROVE FALSE
      BY <1>1
    <3>2. SubSeq(p, 1, l) \in Level(l)
      BY <1>1, <3>1 DEF Level
    <3>. QED  BY <1>8, <3>2
  <2>. QED  BY <2>1 DEF Upto
<1>9. \A l \in 1..Depth + 1 : Level(l) # {} => l \in 1..Depth
  BY <1>1 DEF Level
<1>. QED  BY <1>4, <1>5, <1>6, <1>7, <1>8, <1>9

\* What holds no request is the empty sequence.
LEMMA NothingListed == ASSUME NEW s, Listed(s) PROVE s = <<>> <=> ToSet(s) = {}
<1>1. PICK n \in Nat : Lists(s, n)
  BY DEF Listed
<1>2. DOMAIN s = 1..n /\ s \in [1..n -> {s[i] : i \in 1..n}]
  BY <1>1 DEF Lists
<1>3. CASE n = 0
  BY <1>2, <1>3 DEF ToSet
<1>4. CASE n # 0
  <2>1. 1 \in 1..n
    BY <1>4
  <2>2. DOMAIN <<>> = {} /\ 1 \in DOMAIN s
    BY <1>2, <2>1
  <2>3. s # <<>> /\ s[1] \in ToSet(s)
    BY <2>2 DEF ToSet
  <2>. QED  BY <2>3
<1>. QED  BY <1>3, <1>4

LEMMA ConstructedStep == IInv /\ Constructed => IInv'
<1>. SUFFICES ASSUME IInv, Constructed PROVE IInv'
  OBVIOUS
<1>. USE DEF IInv
<1>1. /\ stage = "draw" /\ Len(paths) = inst.numQueryPaths /\ stage' = "verifier"
      /\ requests' = NextRequests(<<<<>>>>)
      /\ UNCHANGED <<drawn, commitment, evaluations, message, answers, accepted>>
  BY DEF Constructed
<1>2. /\ TreeInv' /\ QueriesInv' /\ Depth' = Depth
      /\ \A p : Values(p)' = Values(p)
      /\ \A l : Upto(l)' = Upto(l) /\ Level(l)' = Level(l)
  BY <1>1, DrawnKept
<1>3. Listed(requests') /\ ToSet(requests') = Level(1)
  <2>1. Lists(<<<<>>>>, 1) /\ ToSet(<<<<>>>>) = {<<>>}
    BY DEF Lists, ToSet
  <2>2. Listed(<<<<>>>>)
    BY <2>1 DEF Listed
  <2>3. /\ Listed(requests')
        /\ ToSet(requests') = {r \in tree : Front(r) \in {<<>>}}
    BY <1>1, <2>1, <2>2, RequestsBelow
  <2>. QED  BY <2>3, LevelFacts
<1>4. LayersInv'
  <2>1. AtLevel(1)'
    BY <1>1, <1>2, <1>3, LevelFacts DEF AtLevel, LayersInv
  <2>2. 1 \in 1..Depth + 1
    BY TreeFacts
  <2>. QED  BY <1>1, <1>2, <2>1, <2>2 DEF LayersInv
<1>5. AnswersInv'
  BY <1>1 DEF AnswersInv
<1>. QED  BY <1>1, <1>2, <1>4, <1>5

LEMMA VerifierSendsStep == IInv /\ VerifierSends => IInv'
<1>. SUFFICES ASSUME IInv, VerifierSends PROVE IInv'
  OBVIOUS
<1>. USE DEF IInv
<1>1. /\ stage = "verifier" /\ stage' = "prover" /\ message' = Request
      /\ UNCHANGED <<drawn, requests, commitment, evaluations, answers, accepted>>
  BY DEF VerifierSends
<1>2. /\ TreeInv' /\ QueriesInv' /\ Depth' = Depth
      /\ \A p : Values(p)' = Values(p)
      /\ \A l : Upto(l)' = Upto(l) /\ Level(l)' = Level(l)
      /\ RawQueries' = RawQueries
  BY <1>1, DrawnKept
<1>3. LayersInv'
  <2>1. \A l : AtLevel(l) => AtLevel(l)'
    BY <1>1, <1>2 DEF AtLevel
  <2>2. Request' = Request
    BY <1>1, <1>2 DEF Request
  <2>. QED  BY <1>1, <1>2, <2>1, <2>2 DEF LayersInv
<1>4. AnswersInv'
  BY <1>1 DEF AnswersInv
<1>. QED  BY <1>1, <1>2, <1>3, <1>4

\* The prover evaluates the layers that are asked for, and only those, from
\* the layers above.
LEMMA LayersBuilt ==
    ASSUME TreeInv, NEW l \in 1..Depth + 1, NEW reqs, Listed(reqs), ToSet(reqs) = Level(l),
           DOMAIN evaluations = Upto(l - 1), \A p \in Upto(l - 1) : evaluations[p] = Values(p)
    PROVE  constructProofs(reqs) = [p \in Upto(l) |-> Values(p)]
<1>. DEFINE above(n) == {SubSeq(reqs[n], 1, d) : d \in 0..Len(reqs[n])}
            wanted == UNION {above(n) : n \in DOMAIN reqs}
            S == wanted \cup DOMAIN evaluations
            Rule(f) == f = [p \in S |-> IF p \in DOMAIN evaluations THEN evaluations[p]
                                        ELSE Fold(f[Front(p)], Len(p) - 1, Last(p))]
            F == CHOOSE f : Rule(f)
<1>1. constructProofs(reqs) = F
  BY DEF constructProofs
<1>2. S = Upto(l)
  <2>1. Upto(l) = Upto(l - 1) \cup Level(l)
    BY LevelFacts
  <2>2. Level(l) \subseteq wanted
    <3>1. ASSUME NEW p \in Level(l) PROVE p \in wanted
      <4>1. p \in Chains(Len(p)) /\ Len(p) \in Nat /\ Len(p) \in 0..Len(p)
        BY TreeFacts DEF Level
      <4>2. SubSeq(p, 1, Len(p)) = p
        BY <4>1, ChainParts
      <4>3. PICK n \in DOMAIN reqs : reqs[n] = p
        BY DEF ToSet
      <4>4. p \in above(n)
        BY <4>1, <4>2, <4>3
      <4>. HIDE DEF above
      <4>. QED  BY <4>4
    <3>. QED  BY <3>1
  <2>3. wanted \subseteq Upto(l)
    <3>1. ASSUME NEW n \in DOMAIN reqs, NEW d \in 0..Len(reqs[n])
          PROVE  SubSeq(reqs[n], 1, d) \in Upto(l)
      <4>. DEFINE p == reqs[n]
      <4>1. p \in Level(l)
        BY DEF ToSet
      <4>. HIDE DEF p
      <4>2. /\ p \in tree /\ Len(p) = l /\ Len(p) \in Nat /\ p \in Chains(Len(p))
            /\ \A e \in 1..Len(p) : SubSeq(p, 1, e) \in tree /\ Len(SubSeq(p, 1, e)) = e
        BY <4>1, TreeFacts DEF Level
      <4>3. SubSeq(p, 1, 0) = <<>>
        BY SubSeqEmpty
      <4>4. d \in 0..Len(p)
        BY DEF p
      <4>5. SubSeq(p, 1, d) \in Upto(l)
        BY <4>2, <4>3, <4>4 DEF Upto
      <4>. QED  BY <4>5 DEF p
    <3>2. \A n \in DOMAIN reqs : above(n) \subseteq Upto(l)
      BY <3>1
    <3>. HIDE DEF above
    <3>. QED  BY <3>2
  <2>. HIDE DEF wanted
  <2>. QED  BY <2>1, <2>2, <2>3
<1>3. ASSUME NEW p \in Upto(l), p \notin Upto(l - 1)
      PROVE  /\ Front(p) \in Upto(l - 1) /\ Front(p) \in Upto(l)
             /\ Fold(Values(Front(p)), Len(p) - 1, Last(p)) = Values(p)
  <2>1. p \in tree /\ Len(p) = l
    BY <1>3, LevelFacts DEF Level
  <2>2. /\ inst \in Instances /\ Len(p) \in 1..Depth /\ p \in Chains(Len(p))
        /\ Front(p) \in Upto(l - 1)
    BY <2>1, TreeFacts
  <2>3. Front(p) \in tree \cup {<<>>} /\ Front(p) \in Upto(l)
    BY <2>2, LevelFacts DEF Upto
  <2>. QED  BY <2>1, <2>2, <2>3, LayerFolded
<1>. HIDE DEF S, wanted
<1>4. Rule([p \in Upto(l) |-> Values(p)])
  BY <1>2, <1>3
<1>5. Rule(F)
  BY <1>4
<1>. HIDE DEF F
<1>6. \A p \in Upto(l) : F[p] = Values(p)
  <2>1. Upto(l - 1) \subseteq Upto(l)
    BY LevelFacts
  <2>2. \A p \in Upto(l - 1) : F[p] = Values(p)
    BY <1>2, <1>5, <2>1
  <2>3. \A p \in Upto(l) : p \notin Upto(l - 1) => F[p] = Values(p)
    BY <1>2, <1>3, <1>5, <2>2
  <2>. QED  BY <2>2, <2>3
<1>. QED  BY <1>1, <1>2, <1>5, <1>6
LEMMA ProverAnswersStep == IInv /\ ProverAnswers => IInv'
<1>. SUFFICES ASSUME IInv, ProverAnswers PROVE IInv'
  OBVIOUS
<1>. USE DEF IInv
<1>. DEFINE built == constructProofs(message.build)
<1>1. /\ stage = "prover"
      /\ UNCHANGED <<drawn, requests, commitment, answers, accepted>>
  BY DEF ProverAnswers
<1>2. PICK l \in 1..Depth + 1 : AtLevel(l)
  BY <1>1 DEF LayersInv
<1>3. /\ message = Request /\ Listed(requests) /\ ToSet(requests) = Level(l)
      /\ DOMAIN commitment = Upto(l - 1) /\ DOMAIN evaluations = Upto(l - 1)
      /\ \A p \in Upto(l - 1) : evaluations[p] = Values(p)
  BY <1>1, <1>2 DEF LayersInv, AtLevel
<1>4. message.build = requests
  BY <1>3 DEF Request
<1>5. built = [p \in Upto(l) |-> Values(p)]
  BY <1>3, <1>4, LayersBuilt
<1>. HIDE DEF built
<1>6. /\ requests # <<>> => DOMAIN message.data = {}
      /\ requests = <<>> => message.data = RawQueries /\ DOMAIN message.data = tree
                            /\ tree \subseteq DOMAIN built
  <2>1. requests = <<>> => tree \subseteq Upto(l - 1) /\ Upto(l - 1) \subseteq Upto(l)
    BY <1>3, NothingListed, LevelFacts
  <2>. QED  BY <1>3, <1>5, <2>1 DEF Request, RawQueries
<1>7. \A p \in DOMAIN message.data : p \in DOMAIN built
  BY <1>6
<1>8. /\ evaluations' = built /\ stage' = "receive"
      /\ message'.comitments = [n \in DOMAIN message.build |-> built[message.build[n]]]
      /\ message'.results = [p \in DOMAIN message.data |-> answerQueries(built[p], message.data[p])]
  BY <1>7 DEF ProverAnswers, built
<1>9. /\ TreeInv' /\ QueriesInv' /\ Depth' = Depth
      /\ \A p : Values(p)' = Values(p)
      /\ \A k : Upto(k)' = Upto(k) /\ Level(k)' = Level(k)
      /\ RawQueries' = RawQueries
  BY <1>1, <1>8, DrawnKept
<1>10. message'.comitments = [n \in DOMAIN requests |-> Values(requests[n])]
  <2>1. \A n \in DOMAIN requests : requests[n] \in Upto(l)
    BY <1>3, LevelFacts DEF ToSet
  <2>. QED  BY <1>4, <1>5, <1>8, <2>1
<1>11. requests = <<>> => message'.results = [p \in tree |-> answerQueries(Values(p), RawQueries[p])]
  BY <1>5, <1>6, <1>8
<1>12. LayersInv'
  <2>1. AtLevel(l)'
    BY <1>1, <1>3, <1>5, <1>8, <1>9 DEF AtLevel
  <2>2. \A p \in DOMAIN evaluations' : evaluations'[p] = Values(p)
    BY <1>5, <1>8
  <2>3. \A p \in DOMAIN commitment' \ {<<>>} : commitment'[p] = Values(p)
    BY <1>1 DEF LayersInv
  <2>4. requests' = <<>> => ResultsRight'
    <3>1. tree' = tree /\ \A e, k : answerQueries(e, k)' = answerQueries(e, k)
      BY <1>1 DEF drawn, answerQueries
    <3>. QED  BY <1>1, <1>9, <1>11, <3>1 DEF ResultsRight
  <2>. QED  BY <1>1, <1>8, <1>9, <1>10, <2>1, <2>2, <2>3, <2>4 DEF LayersInv
<1>13. AnswersInv'
  BY <1>1, <1>8 DEF AnswersInv
<1>. QED  BY <1>8, <1>9, <1>12, <1>13

\* The commitments are filed under what was asked for, and one layer more is
\* asked for.
LEMMA ReceiveComitmentsStep == IInv /\ ReceiveComitments => IInv'
<1>. SUFFICES ASSUME IInv, ReceiveComitments PROVE IInv'
  OBVIOUS
<1>. USE DEF IInv
<1>1. /\ stage = "receive" /\ requests # <<>>
      /\ UNCHANGED <<drawn, evaluations, message, answers, accepted>>
  BY DEF ReceiveComitments
<1>2. PICK l \in 1..Depth + 1 : AtLevel(l)
  BY <1>1 DEF LayersInv
<1>3. /\ Listed(requests) /\ ToSet(requests) = Level(l)
      /\ DOMAIN commitment = Upto(l - 1) /\ DOMAIN evaluations = Upto(l)
      /\ message.comitments = [n \in DOMAIN requests |-> Values(requests[n])]
  BY <1>1, <1>2 DEF LayersInv, AtLevel
<1>4. Len(message.comitments) = Len(requests)
  <2>1. PICK n \in Nat : Lists(requests, n)
    BY <1>3 DEF Listed
  <2>. DEFINE c == message.comitments
  <2>2. Lists(c, n)
    BY <1>3, <2>1 DEF Lists
  <2>. HIDE DEF c
  <2>3. Len(c) = n /\ Len(requests) = n
    BY <2>1, <2>2, ListLength
  <2>. QED  BY <2>3 DEF c
<1>5. /\ commitment' = Filed(message.comitments) /\ stage' = "verifier"
      /\ requests' = NextRequests(requests)
  BY <1>1, <1>4 DEF ReceiveComitments
<1>6. /\ TreeInv' /\ QueriesInv' /\ Depth' = Depth
      /\ \A p : Values(p)' = Values(p)
      /\ \A k : Upto(k)' = Upto(k) /\ Level(k)' = Level(k)
  BY <1>1, <1>5, DrawnKept
<1>7. Level(l) # {} /\ l \in 1..Depth /\ l + 1 \in 1..Depth + 1 /\ Depth \in Nat /\ (l + 1) - 1 = l
  <2>1. Level(l) # {}
    BY <1>1, <1>3, NothingListed
  <2>2. Depth \in Nat /\ l \in 1..Depth
    BY <2>1, LevelFacts, TreeFacts
  <2>. QED  BY <2>1, <2>2
<1>8. DOMAIN commitment' = Upto(l)
  BY <1>3, <1>5, LevelFacts DEF Filed
<1>9. ASSUME NEW p \in Upto(l) \ {<<>>} PROVE commitment'[p] = Values(p)
  <2>1. CASE p \in ToSet(requests)
    <3>. DEFINE n == CHOOSE k \in DOMAIN requests : requests[k] = p
    <3>1. \E k \in DOMAIN requests : requests[k] = p
      BY <2>1 DEF ToSet
    <3>2. n \in DOMAIN requests /\ requests[n] = p
      BY <3>1
    <3>3. commitment'[p] = message.comitments[n]
      BY <1>3, <1>5, <2>1 DEF Filed
    <3>. HIDE DEF n
    <3>. QED  BY <1>3, <3>2, <3>3
  <2>2. CASE p \notin ToSet(requests)
    <3>1. p \in DOMAIN commitment
      BY <1>3, <2>2, LevelFacts
    <3>2. commitment'[p] = commitment[p]
      BY <1>5, <2>2, <3>1 DEF Filed
    <3>. QED  BY <3>1, <3>2 DEF LayersInv
  <2>. QED  BY <2>1, <2>2
<1>10. Listed(requests') /\ ToSet(requests') = Level(l + 1)
  <2>1. /\ Listed(requests')
        /\ ToSet(requests') = {r \in tree : Front(r) \in Level(l)}
    BY <1>3, <1>5, RequestsBelow
  <2>. QED  BY <2>1, LevelFacts
<1>11. LayersInv'
  <2>1. AtLevel(l + 1)'
    BY <1>1, <1>3, <1>5, <1>6, <1>7, <1>8, <1>10 DEF AtLevel
  <2>2. \A p \in DOMAIN evaluations' : evaluations'[p] = Values(p)
    BY <1>1 DEF LayersInv
  <2>. QED  BY <1>5, <1>6, <1>7, <1>8, <1>9, <2>1, <2>2 DEF LayersInv
<1>12. AnswersInv'
  BY <1>1, <1>5 DEF AnswersInv
<1>. QED  BY <1>5, <1>6, <1>11, <1>12
-----------------------------------------------------------------------------
(* Queries, and the places that wait for their answers. *)

\* The layers and positions a path goes through.
LEMMA PathFacts ==
    ASSUME TreeInv, QueriesInv, NEW q \in DOMAIN paths, NEW d \in 1..Depth
    PROVE  LET c == paths[q].columns
           IN  /\ SubSeq(c, 1, d) \in tree \cap Chains(d) /\ Len(SubSeq(c, 1, d)) = d
               /\ SubSeq(c, 1, d - 1) \in tree \cup {<<>>} /\ Len(SubSeq(c, 1, d - 1)) = d - 1
               /\ d = 1 => SubSeq(c, 1, d - 1) = <<>>
               /\ d # 1 => SubSeq(c, 1, d - 1) \in tree
               /\ Append(SubSeq(c, 1, d - 1), c[d]) = SubSeq(c, 1, d)
               /\ paths[q].sigments[d] \in Positions(BasisAt(d))
<1>. DEFINE c == paths[q].columns
<1>1. /\ inst \in Instances /\ Depth \in Nat \ {0}
      /\ c \in tree /\ Len(c) = Depth /\ c \in Chains(Depth)
      /\ \A e \in 1..Depth : SubSeq(c, 1, e) \in tree
  BY TreeFacts DEF QueriesInv, Level
<1>2. paths[q].sigments[d] \in Positions(BasisAt(d))
  <2>1. PICK first \in Rows(BasisAt(0)) : paths[q].sigments = Sigments(first)
    BY DEF QueriesInv
  <2>. QED  BY <1>1, <2>1, SigmentsRight
<1>. HIDE DEF c
<1>. DEFINE p == SubSeq(c, 1, d)
<1>3. /\ d \in 0..Depth /\ d - 1 \in 0..Depth /\ d - 1 \in 0..d /\ d \in Nat \ {0}
      /\ d \in 1..d
  BY <1>1
<1>4. /\ p \in Chains(d) /\ Len(p) = d /\ p = [i \in 1..d |-> c[i]]
      /\ \A e \in 0..d : SubSeq(p, 1, e) = SubSeq(c, 1, e)
      /\ SubSeq(c, 1, 0) = <<>>
  BY <1>1, <1>3, ChainParts
<1>5. Len(SubSeq(c, 1, d - 1)) = d - 1
  BY <1>1, <1>3, ChainParts
<1>6. p[d] = c[d] /\ SubSeq(p, 1, d - 1) = SubSeq(c, 1, d - 1)
  BY <1>3, <1>4
<1>. HIDE DEF p
<1>7. Append(SubSeq(p, 1, d - 1), p[d]) = p
  BY <1>3, <1>4, ChainSplit
<1>8. p \in tree
  BY <1>1 DEF p
<1>9. /\ d = 1 => SubSeq(c, 1, d - 1) = <<>>
      /\ d # 1 => SubSeq(c, 1, d - 1) \in tree
  <2>1. d = 1 => d - 1 = 0
    OBVIOUS
  <2>2. d # 1 => d - 1 \in 1..Depth
    BY <1>3
  <2>. QED  BY <1>1, <1>4, <2>1, <2>2
<1>10. SubSeq(c, 1, d - 1) \in tree \cup {<<>>}
  BY <1>9
<1>. QED  BY <1>2, <1>4, <1>5, <1>6, <1>7, <1>8, <1>9, <1>10 DEF p, c

\* What each place waits for: it tells the path and the layer, or the column
\* and the position, it is for.
RsQuery(p, n, x) == query(p, x, <<"rs", n, x>>)
PointQuery(q, d) == query(SubSeq(paths[q].columns, 1, d), paths[q].sigments[d], <<"point", q, d>>)
RowQuery(q, d, i) == query(SubSeq(paths[q].columns, 1, d - 1),
                           getBasisLIndex(BasisAt(d - 1), i, paths[q].sigments[d]),
                           <<"row", q, d, i>>)

LEMMA QueriesAre ==
    ASSUME TreeInv, QueriesInv
    PROVE  /\ \E choice \in [1..rsResults -> Level(Depth)] :
                \A r : r \in proof <=>
                  \/ \E n \in 1..rsResults, x \in Positions(BasisAt(Depth)) :
                       r = RsQuery(choice[n], n, x)
                  \/ \E q \in DOMAIN paths, d \in 1..Depth : r = PointQuery(q, d)
                  \/ \E q \in DOMAIN paths, d \in 2..Depth, i \in 0..3 : r = RowQuery(q, d, i)
           /\ \A r : r \in univariate <=>
                \E q \in DOMAIN paths, i \in 0..3 : r = RowQuery(q, 1, i)
<1>1. PICK choice \in [1..rsResults -> Level(Depth)] :
         proof = (UNION {RsQueries(n, choice[n]) : n \in 1..rsResults})
                   \cup UNION {PathQueries(q) : q \in DOMAIN paths}
  BY DEF QueriesInv
<1>2. 0..RowSize - 1 = 0..3
  BY DEF RowSize, POW2, dimReduction
<1>3. ASSUME NEW n, NEW r
      PROVE  r \in RsQueries(n, choice[n]) <=>
               \E x \in Positions(BasisAt(Depth)) : r = RsQuery(choice[n], n, x)
  BY Zenon DEF RsQueries, RsQuery
<1>. DEFINE row(q, d) == {RowQuery(q, d, i) : i \in 0..3}
<1>4. ASSUME NEW q, NEW d PROVE RowQueries(q, paths[q], d) = row(q, d)
  BY <1>2, Zenon DEF RowQueries, RowQuery
<1>5. ASSUME NEW q, NEW r
      PROVE  r \in PathQueries(q) <=>
               \/ \E d \in 1..Depth : r = PointQuery(q, d)
               \/ \E d \in 2..Depth, i \in 0..3 : r = RowQuery(q, d, i)
  <2>1. r \in PointQueries(q, paths[q]) <=> \E d \in 1..Depth : r = PointQuery(q, d)
    BY Zenon DEF PointQueries, PointQuery
  <2>2. r \in PathQueries(q) <=> \/ r \in PointQueries(q, paths[q])
                                \/ \E d \in 2..Depth : r \in row(q, d)
    <3>. HIDE DEF row
    <3>. QED  BY <1>4, Zenon DEF PathQueries
  <2>. QED  BY <2>1, <2>2, Zenon
<1>6. ASSUME NEW r
      PROVE  r \in proof <=>
               \/ \E n \in 1..rsResults, x \in Positions(BasisAt(Depth)) :
                    r = RsQuery(choice[n], n, x)
               \/ \E q \in DOMAIN paths, d \in 1..Depth : r = PointQuery(q, d)
               \/ \E q \in DOMAIN paths, d \in 2..Depth, i \in 0..3 : r = RowQuery(q, d, i)
  <2>1. r \in proof <=> \/ \E n \in 1..rsResults : r \in RsQueries(n, choice[n])
                       \/ \E q \in DOMAIN paths : r \in PathQueries(q)
    BY <1>1, Zenon
  <2>2. \A n : r \in RsQueries(n, choice[n]) <=>
                 \E x \in Positions(BasisAt(Depth)) : r = RsQuery(choice[n], n, x)
    BY <1>3, Zenon
  <2>3. \A q : r \in PathQueries(q) <=>
                 \/ \E d \in 1..Depth : r = PointQuery(q, d)
                 \/ \E d \in 2..Depth, i \in 0..3 : r = RowQuery(q, d, i)
    BY <1>5, Zenon
  <2>. QED  BY <2>1, <2>2, <2>3, Zenon
<1>7. ASSUME NEW r
      PROVE  r \in univariate <=> \E q \in DOMAIN paths, i \in 0..3 : r = RowQuery(q, 1, i)
  <2>1. univariate = UNION {RowQueries(q, paths[q], 1) : q \in DOMAIN paths}
    BY DEF QueriesInv
  <2>2. r \in univariate <=> \E q \in DOMAIN paths : r \in row(q, 1)
    <3>. HIDE DEF row
    <3>. QED  BY <1>4, <2>1, Zenon
  <2>. QED  BY <2>2, Zenon
<1>. QED  BY <1>6, <1>7, Zenon

\* No place waits for two positions, and positions are in the layers' ranges.
LEMMA PlacesTold ==
    ASSUME TreeInv, QueriesInv
    PROVE  /\ \A q, r \in proof \cup univariate : q.place = r.place => q = r
           /\ \A q \in proof : q.at \in tree /\ q.idx \in Positions(BasisAt(Len(q.at)))
           /\ \A q \in univariate : q.at = <<>> /\ q.idx \in Positions(BasisAt(0))
<1>1. PICK choice \in [1..rsResults -> Level(Depth)] :
        \A r : r \in proof <=>
          \/ \E n \in 1..rsResults, x \in Positions(BasisAt(Depth)) : r = RsQuery(choice[n], n, x)
          \/ \E q \in DOMAIN paths, d \in 1..Depth : r = PointQuery(q, d)
          \/ \E q \in DOMAIN paths, d \in 2..Depth, i \in 0..3 : r = RowQuery(q, d, i)
  BY QueriesAre
<1>2. \A r : r \in univariate <=> \E q \in DOMAIN paths, i \in 0..3 : r = RowQuery(q, 1, i)
  BY QueriesAre
<1>3. inst \in Instances /\ Depth \in Nat \ {0}
  BY TreeFacts
<1>4. ASSUME NEW r \in proof \cup univariate
      PROVE  \/ \E n \in 1..rsResults, x \in Positions(BasisAt(Depth)) :
                  r = RsQuery(choice[n], n, x)
             \/ \E q \in DOMAIN paths, d \in 1..Depth : r = PointQuery(q, d)
             \/ \E q \in DOMAIN paths, d \in 1..Depth, i \in 0..3 : r = RowQuery(q, d, i)
  <2>1. 1 \in 1..Depth /\ \A d \in 2..Depth : d \in 1..Depth
    BY <1>3
  <2>. QED  BY <1>1, <1>2, <2>1
<1>5. ASSUME NEW q \in proof \cup univariate, NEW r \in proof \cup univariate, q.place = r.place
      PROVE  q = r
  <2>1. CASE \E n \in 1..rsResults, x \in Positions(BasisAt(Depth)) : q = RsQuery(choice[n], n, x)
    <3>1. PICK n, x : q = RsQuery(choice[n], n, x)
      BY <2>1
    <3>2. PICK m, y : r = RsQuery(choice[m], m, y)
      BY <1>4, <1>5, <3>1 DEF RsQuery, PointQuery, RowQuery, query
    <3>. QED  BY <1>5, <3>1, <3>2 DEF RsQuery, query
  <2>2. CASE \E k \in DOMAIN paths, d \in 1..Depth : q = PointQuery(k, d)
    <3>1. PICK k, d : q = PointQuery(k, d)
      BY <2>2
    <3>2. PICK m, e : r = PointQuery(m, e)
      BY <1>4, <1>5, <3>1 DEF RsQuery, PointQuery, RowQuery, query
    <3>3. k = m /\ d = e
      BY <1>5, <3>1, <3>2 DEF PointQuery, query
    <3>. QED  BY <3>1, <3>2, <3>3
  <2>3. CASE \E k \in DOMAIN paths, d \in 1..Depth, i \in 0..3 : q = RowQuery(k, d, i)
    <3>1. PICK k, d, i : q = RowQuery(k, d, i)
      BY <2>3
    <3>2. PICK m, e, j : r = RowQuery(m, e, j)
      BY <1>4, <1>5, <3>1 DEF RsQuery, PointQuery, RowQuery, query
    <3>3. k = m /\ d = e /\ i = j
      BY <1>5, <3>1, <3>2 DEF RowQuery, query
    <3>. QED  BY <3>1, <3>2, <3>3
  <2>. QED  BY <1>4, <2>1, <2>2, <2>3
<1>6. ASSUME NEW q \in DOMAIN paths, NEW d \in 1..Depth, NEW i \in 0..3
      PROVE  /\ RowQuery(q, d, i).at \in tree \cup {<<>>}
             /\ d = 1 => RowQuery(q, d, i).at = <<>>
             /\ d # 1 => RowQuery(q, d, i).at \in tree
             /\ Len(RowQuery(q, d, i).at) = d - 1
             /\ RowQuery(q, d, i).idx \in Positions(BasisAt(d - 1))
  <2>1. getBasisLIndex(BasisAt(d - 1), i, paths[q].sigments[d]) \in Positions(BasisAt(d - 1))
    BY <1>3, PathFacts, LayerSpaces
  <2>. QED  BY <2>1, PathFacts DEF RowQuery, query
<1>7. ASSUME NEW q \in proof PROVE q.at \in tree /\ q.idx \in Positions(BasisAt(Len(q.at)))
  <2>1. ASSUME NEW n \in 1..rsResults, NEW x \in Positions(BasisAt(Depth)),
               q = RsQuery(choice[n], n, x)
        PROVE  q.at \in tree /\ q.idx \in Positions(BasisAt(Len(q.at)))
    BY <2>1 DEF Level, RsQuery, query
  <2>2. ASSUME NEW k \in DOMAIN paths, NEW d \in 1..Depth, q = PointQuery(k, d)
        PROVE  q.at \in tree /\ q.idx \in Positions(BasisAt(Len(q.at)))
    BY <2>2, PathFacts DEF PointQuery, query
  <2>3. ASSUME NEW k \in DOMAIN paths, NEW d \in 2..Depth, NEW i \in 0..3, q = RowQuery(k, d, i)
        PROVE  q.at \in tree /\ q.idx \in Positions(BasisAt(Len(q.at)))
    <3>1. d \in 1..Depth /\ d # 1
      BY <1>3
    <3>. QED  BY <1>6, <2>3, <3>1
  <2>. QED  BY <1>1, <2>1, <2>2, <2>3
<1>8. ASSUME NEW q \in univariate PROVE q.at = <<>> /\ q.idx \in Positions(BasisAt(0))
  <2>1. PICK k \in DOMAIN paths, i \in 0..3 : q = RowQuery(k, 1, i)
    BY <1>2
  <2>2. 1 \in 1..Depth /\ 1 - 1 = 0
    BY <1>3
  <2>. QED  BY <1>6, <2>1, <2>2
<1>. QED  BY <1>5, <1>7, <1>8
\* A position is where its block begins plus its offset there, and a block is
\* in the pair that is read.
LEMMA BlocksRead ==
    ASSUME NEW p \in tree, NEW q \in proof, q.at = p, q.idx \in Nat
    PROVE  answerQueries(Values(p), RawQueries[p])[getBlockIndex(q.idx)][getOffsetInBlock(q.idx)]
             = Values(p)[q.idx]
<1>. DEFINE x == q.idx
            b == x \div 2
            o == x % 2
            k == b \div 2
            blocks == UNION {{2 * m, 2 * m + 1} : m \in RawQueries[p]}
<1>1. POW2(logBlock) = 2 /\ getBlockIndex(x) = b /\ getOffsetInBlock(x) = o
  BY DEF POW2, logBlock, getBlockIndex, getOffsetInBlock
<1>2. k \in RawQueries[p]
  BY <1>1 DEF RawQueries
<1>3. b \in Nat /\ o \in 0..1 /\ b * 2 + o = x /\ b \in {2 * k, 2 * k + 1}
  OBVIOUS
<1>4. answerQueries(Values(p), RawQueries[p])
        = [c \in blocks |-> [i \in 0..1 |-> Values(p)[c * 2 + i]]]
  BY <1>1 DEF answerQueries
<1>5. b \in blocks
  <2>. HIDE DEF b, k
  <2>. QED  BY <1>2, <1>3
<1>. HIDE DEF b, o, k, blocks, x
<1>6. answerQueries(Values(p), RawQueries[p])[b] = [i \in 0..1 |-> Values(p)[b * 2 + i]]
  BY <1>4, <1>5
<1>. QED  BY <1>1, <1>3, <1>6 DEF x

\* The answers are handed to the places that wait for them.
LEMMA DigestStep == IInv /\ Digest => IInv'
<1>. SUFFICES ASSUME IInv, Digest PROVE IInv'
  OBVIOUS
<1>. USE DEF IInv
<1>1. /\ stage = "receive" /\ requests = <<>>
      /\ UNCHANGED <<drawn, requests, commitment, evaluations, message, accepted>>
  BY DEF Digest
<1>2. ResultsRight /\ DOMAIN answers = {}
  BY <1>1 DEF LayersInv, AnswersInv
<1>3. DOMAIN message.results = tree
  BY <1>2 DEF ResultsRight
<1>4. answers' = Answered([q \in proof |-> ResultOf(q)]) /\ stage' = "input"
  BY <1>3 DEF Digest
<1>5. /\ TreeInv' /\ QueriesInv' /\ Depth' = Depth /\ \A d : BasisAt(d)' = BasisAt(d)
      /\ \A p : Values(p)' = Values(p)
      /\ \A k : Upto(k)' = Upto(k) /\ Level(k)' = Level(k)
      /\ RawQueries' = RawQueries
  BY <1>1, <1>4, DrawnKept
<1>6. tree \subseteq DOMAIN commitment
  <2>1. PICK l \in 1..Depth + 1 : AtLevel(l)
    BY <1>1 DEF LayersInv
  <2>2. Level(l) = {} /\ DOMAIN commitment = Upto(l - 1)
    BY <1>1, <2>1, NothingListed DEF AtLevel
  <2>. QED  BY <2>2, LevelFacts
<1>7. LayersInv'
  <2>1. /\ \A p \in DOMAIN evaluations' : evaluations'[p] = Values(p)
        /\ \A p \in DOMAIN commitment' \ {<<>>} : commitment'[p] = Values(p)
    BY <1>1 DEF LayersInv
  <2>2. ResultsRight'
    <3>1. tree' = tree /\ \A e, k : answerQueries(e, k)' = answerQueries(e, k)
      BY <1>1 DEF drawn, answerQueries
    <3>. QED  BY <1>1, <1>2, <1>5, <3>1 DEF ResultsRight
  <2>3. tree' \subseteq DOMAIN commitment'
    BY <1>1, <1>6 DEF drawn
  <2>. QED  BY <1>4, <1>5, <2>1, <2>2, <2>3 DEF LayersInv
<1>8. AnswersInv'
  <2>1. DOMAIN answers' = {q.place : q \in proof}
    BY <1>2, <1>4 DEF Answered
  <2>2. ASSUME NEW q \in proof
        PROVE  answers'[q.place] = <<q.at, Element(BasisAt(Len(q.at)), q.idx)>>
    <3>. DEFINE r == CHOOSE r \in proof : r.place = q.place
    <3>1. r = q
      <4>1. r \in proof /\ r.place = q.place
        OBVIOUS
      <4>. HIDE DEF r
      <4>. QED  BY <4>1, PlacesTold
    <3>2. answers'[q.place] = ResultOf(r)
      BY <1>4 DEF Answered
    <3>. HIDE DEF r
    <3>3. q.at \in tree /\ q.idx \in Positions(BasisAt(Len(q.at)))
      BY PlacesTold
    <3>4. q.idx \in Nat
      <4>1. Len(q.at) \in 0..Depth /\ inst \in Instances
        BY <3>3, TreeFacts
      <4>2. Positions(BasisAt(Len(q.at))) = 0..2^Width(Len(q.at)) - 1
        BY <4>1, LayerSpaces
      <4>. QED  BY <3>3, <4>2
    <3>5. ResultOf(q) = answerQueries(Values(q.at), RawQueries[q.at])
                            [getBlockIndex(q.idx)][getOffsetInBlock(q.idx)]
      BY <1>2, <3>3 DEF ResultOf, ResultsRight
    <3>6. ResultOf(q) = Values(q.at)[q.idx]
      BY <3>3, <3>4, <3>5, BlocksRead
    <3>. QED  BY <3>1, <3>2, <3>3, <3>6 DEF Values
  <2>3. proof' = proof
    BY <1>1 DEF drawn
  <2>4. ASSUME NEW q \in proof PROVE Holds(q)'
    <3>1. Element(BasisAt(Len(q.at)), q.idx)' = Element(BasisAt(Len(q.at)), q.idx)
      BY <1>5 DEF Element, getSpaceElementByIndex
    <3>. QED  BY <2>1, <2>2, <3>1 DEF Holds
  <2>. QED  BY <1>4, <2>1, <2>3, <2>4 DEF AnswersInv
<1>. QED  BY <1>4, <1>5, <1>7, <1>8

\* The caller's answers are for other places.
LEMMA AnswerInputStep == IInv /\ AnswerInput => IInv'
<1>. SUFFICES ASSUME IInv, AnswerInput PROVE IInv'
  OBVIOUS
<1>. USE DEF IInv
<1>1. /\ stage = "input" /\ stage' = "verify" /\ answers' = Answered([q \in univariate |-> InputAt(q)])
      /\ UNCHANGED <<drawn, requests, commitment, evaluations, message, accepted>>
  BY DEF AnswerInput
<1>2. /\ TreeInv' /\ QueriesInv' /\ Depth' = Depth /\ \A d : BasisAt(d)' = BasisAt(d)
      /\ \A p : Values(p)' = Values(p)
      /\ RawQueries' = RawQueries
  BY <1>1, DrawnKept
<1>3. LayersInv'
  <2>1. /\ \A p \in DOMAIN evaluations' : evaluations'[p] = Values(p)
        /\ \A p \in DOMAIN commitment' \ {<<>>} : commitment'[p] = Values(p)
    BY <1>1, <1>2 DEF LayersInv
  <2>2. ResultsRight'
    <3>1. tree' = tree /\ \A e, k : answerQueries(e, k)' = answerQueries(e, k)
      BY <1>1 DEF drawn, answerQueries
    <3>. QED  BY <1>1, <1>2, <3>1 DEF LayersInv, ResultsRight
  <2>3. tree' \subseteq DOMAIN commitment'
    BY <1>1 DEF drawn, LayersInv
  <2>. QED  BY <1>1, <1>2, <2>1, <2>2, <2>3 DEF LayersInv
<1>4. AnswersInv'
  <2>1. \A q \in proof : Holds(q)
    BY <1>1 DEF AnswersInv
  <2>2. DOMAIN answers' = {q.place : q \in univariate} \cup DOMAIN answers
    BY <1>1 DEF Answered
  <2>3. ASSUME NEW q \in univariate
        PROVE  answers'[q.place] = <<q.at, Element(BasisAt(Len(q.at)), q.idx)>>
    <3>. DEFINE r == CHOOSE r \in univariate : r.place = q.place
    <3>1. r = q
      <4>1. r \in univariate /\ r.place = q.place
        OBVIOUS
      <4>. HIDE DEF r
      <4>. QED  BY <4>1, PlacesTold
    <3>2. answers'[q.place] = InputAt(r)
      BY <1>1 DEF Answered
    <3>. HIDE DEF r
    <3>3. q.at = <<>> /\ Len(<<>>) = 0
      BY PlacesTold
    <3>. QED  BY <3>1, <3>2, <3>3 DEF InputAt, Element
  <2>4. ASSUME NEW q \in proof
        PROVE  /\ q.place \in DOMAIN answers'
               /\ answers'[q.place] = <<q.at, Element(BasisAt(Len(q.at)), q.idx)>>
    <3>1. q.place \in DOMAIN answers /\ answers[q.place] = <<q.at, Element(BasisAt(Len(q.at)), q.idx)>>
      BY <2>1 DEF Holds
    <3>2. CASE q \in univariate
      BY <2>2, <2>3, <3>2
    <3>3. CASE q \notin univariate
      <4>1. ~ \E r \in univariate : r.place = q.place
        BY <3>3, PlacesTold
      <4>2. answers'[q.place] = answers[q.place]
        BY <1>1, <2>2, <3>1, <4>1 DEF Answered
      <4>. QED  BY <2>2, <3>1, <4>2
    <3>. QED  BY <3>2, <3>3
  <2>5. proof' = proof /\ univariate' = univariate
    BY <1>1 DEF drawn
  <2>6. ASSUME NEW q \in proof \cup univariate PROVE Holds(q)'
    <3>1. Element(BasisAt(Len(q.at)), q.idx)' = Element(BasisAt(Len(q.at)), q.idx)
      BY <1>2 DEF Element, getSpaceElementByIndex
    <3>. QED  BY <2>2, <2>3, <2>4, <3>1 DEF Holds
  <2>. QED  BY <1>1, <2>5, <2>6 DEF AnswersInv
<1>. QED  BY <1>1, <1>2, <1>3, <1>4
-----------------------------------------------------------------------------
(* The tests, and what was to be proved. *)

\* A test of a path reads a row, and the point it folds to.
LEMMA PathConsistent ==
    ASSUME TreeInv, QueriesInv, \A q \in proof \cup univariate : Holds(q),
           NEW q \in DOMAIN paths, NEW d \in 1..Depth
    PROVE  ConsistencyHolds(q, d)
<1>. DEFINE c == paths[q].columns
            g == paths[q].sigments[d]
            B == BasisAt(d - 1)
            above == SubSeq(c, 1, d - 1)
            below == SubSeq(c, 1, d)
            row == [i \in 0..RowSize - 1 |-> answers[<<"row", q, d, i>>]]
<1>1. inst \in Instances /\ Depth \in Nat \ {0} /\ RowSize = 4 /\ d - 1 \in 0..Depth /\ d \in 0..Depth
  BY TreeFacts DEF RowSize, POW2, dimReduction
<1>2. /\ below \in tree \cap Chains(d) /\ Len(below) = d
      /\ above \in tree \cup {<<>>} /\ Len(above) = d - 1
      /\ Append(above, c[d]) = below /\ g \in Positions(BasisAt(d))
  BY PathFacts
<1>3. /\ getL1Basis(B) = BasisAt(d)
      /\ \A i \in 0..3 : Element(B, getBasisLIndex(B, i, g))
                           = Element(BasisAt(d), g) \cup Element(getL0Basis(B), i)
      /\ Element(BasisAt(d), g) \in SUBSET (1..inst.dim)
  BY <1>1, <1>2, LayerSpaces
<1>4. PointQuery(q, d) \in proof
  BY QueriesAre
<1>5. answers[<<"point", q, d>>] = <<below, Element(BasisAt(d), g)>>
  <2>1. /\ PointQuery(q, d).at = below /\ PointQuery(q, d).idx = g
        /\ PointQuery(q, d).place = <<"point", q, d>>
    BY DEF PointQuery, query
  <2>2. Holds(PointQuery(q, d))
    BY <1>4
  <2>. HIDE DEF below, g
  <2>. QED  BY <1>2, <2>1, <2>2 DEF Holds
<1>6. ASSUME NEW i \in 0..3
      PROVE  row[i] = <<above, Element(BasisAt(d), g) \cup Element(getL0Basis(B), i)>>
  <2>1. RowQuery(q, d, i) \in proof \cup univariate
    <3>1. CASE d = 1
      BY <3>1, QueriesAre
    <3>2. CASE d # 1
      <4>1. d \in 2..Depth
        BY <1>1, <3>2
      <4>. QED  BY <4>1, QueriesAre
    <3>. QED  BY <3>1, <3>2
  <2>2. answers[<<"row", q, d, i>>] = <<above, Element(BasisAt(Len(above)), getBasisLIndex(B, i, g))>>
    BY <2>1 DEF Holds, RowQuery, query
  <2>3. row[i] = answers[<<"row", q, d, i>>]
    BY <1>1
  <2>. QED  BY <1>2, <1>3, <2>2, <2>3
<1>. HIDE DEF row, above, below, B, g
<1>7. Interpolate(row, getL0Basis(B), Element(BasisAt(d), g), c[d])
        = <<Append(above, c[d]), Element(BasisAt(d), g)>>
  <2>. DEFINE L0 == getL0Basis(B)
              offset == Element(BasisAt(d), g)
              column == c[d]
  <2>1. above \in tree \cup {<<>>} /\ \A i \in 0..3 : row[i] = <<above, offset \cup Element(L0, i)>>
    BY <1>2, <1>6
  <2>. HIDE DEF L0, offset, column
  <2>2. Interpolate(row, L0, offset, column) = <<Append(above, column), offset>>
    BY <2>1, InterpolateRight
  <2>. QED  BY <2>2 DEF L0, offset, column
<1>8. Garbage # <<below, Element(BasisAt(d), g)>>
  <2>1. d \in 0..calculateRecursionDepth(inst.dim, inst.logDegBound)
    BY <1>1 DEF Depth
  <2>2. below \in [1..d -> ColumnIds]
    BY <1>2 DEF Chains
  <2>. QED  BY <1>1, <1>3, <2>1, <2>2, GarbageAssumption
<1>9. ConsistencyHolds(q, d)
        <=> /\ answers[<<"point", q, d>>] # Garbage
            /\ answers[<<"point", q, d>>]
                 = Interpolate(row, getL0Basis(B), Element(getL1Basis(B), g), c[d])
  BY DEF ConsistencyHolds, Element, row, B, g
<1>. QED  BY <1>2, <1>3, <1>5, <1>7, <1>8, <1>9

LEMMA VerifyStep == IInv /\ Verify => IInv'
<1>. SUFFICES ASSUME IInv, Verify PROVE IInv'
  OBVIOUS
<1>. USE DEF IInv
<1>1. /\ stage = "verify" /\ stage' = "decided"
      /\ accepted' = (verifyComitment /\ verifyLowDegree /\ verifyConsistencyPaths)
      /\ UNCHANGED <<drawn, requests, commitment, evaluations, message, answers>>
  BY DEF Verify
<1>2. /\ TreeInv' /\ QueriesInv' /\ Depth' = Depth /\ \A p : Values(p)' = Values(p)
  BY <1>1, DrawnKept
<1>3. inst \in Instances /\ \A q \in proof \cup univariate : Holds(q)
  BY <1>1 DEF AnswersInv, TreeInv
<1>4. verifyComitment
  <2>. SUFFICES ASSUME NEW p \in tree, NEW b \in DOMAIN message.results[p]
                PROVE  message.results[p][b]
                         = [o \in 0..POW2(logBlock) - 1 |-> commitment[p][b * POW2(logBlock) + o]]
    BY DEF verifyComitment
  <2>1. message.results[p] = answerQueries(Values(p), RawQueries[p])
    BY <1>1 DEF LayersInv, ResultsRight
  <2>2. commitment[p] = Values(p)
    <3>1. p # <<>>
      <4>1. Len(p) \in 1..Depth /\ Len(<<>>) = 0 /\ 0 \notin 1..Depth
        BY TreeFacts
      <4>. QED  BY <4>1
    <3>. QED  BY <1>1, <3>1 DEF LayersInv
  <2>. QED  BY <2>1, <2>2 DEF answerQueries
<1>5. verifyLowDegree
  <2>1. PICK choice \in [1..rsResults -> Level(Depth)] :
          \A r : (\E n \in 1..rsResults, x \in Positions(BasisAt(Depth)) :
                    r = RsQuery(choice[n], n, x)) => r \in proof
    BY QueriesAre
  <2>2. rsResults = inst.numComitmentPaths
    BY <1>1 DEF QueriesInv
  <2>. SUFFICES ASSUME NEW n \in 1..rsResults
                PROVE  \E p \in tree : \A x \in Positions(BasisAt(Depth)) :
                         answers[<<"rs", n, x>>]
                           = <<p, getSpaceElementByIndex(BasisAt(Depth), x)>>
    BY <2>2 DEF verifyLowDegree
  <2>3. choice[n] \in tree /\ Len(choice[n]) = Depth
    BY DEF Level
  <2>4. ASSUME NEW x \in Positions(BasisAt(Depth))
        PROVE  answers[<<"rs", n, x>>]
                 = <<choice[n], getSpaceElementByIndex(BasisAt(Depth), x)>>
    <3>1. RsQuery(choice[n], n, x) \in proof
      BY <2>1
    <3>. QED  BY <1>3, <2>3, <3>1 DEF Holds, RsQuery, query, Element
  <2>. QED  BY <2>3, <2>4
<1>6. verifyConsistencyPaths
  BY <1>3, PathConsistent DEF verifyConsistencyPaths
<1>7. accepted'
  BY <1>1, <1>4, <1>5, <1>6
<1>8. LayersInv'
  <2>1. /\ \A p \in DOMAIN evaluations' : evaluations'[p] = Values(p)
        /\ \A p \in DOMAIN commitment' \ {<<>>} : commitment'[p] = Values(p)
    BY <1>1 DEF LayersInv
  <2>. QED  BY <1>1, <1>2, <2>1 DEF LayersInv
<1>9. AnswersInv'
  BY <1>1 DEF AnswersInv
<1>. QED  BY <1>1, <1>2, <1>7, <1>8, <1>9

\* Nothing moves when it is over.
LEMMA NothingMoves == IInv /\ UNCHANGED vars => IInv'
<1>. SUFFICES ASSUME IInv, UNCHANGED vars PROVE IInv'
  OBVIOUS
<1>. USE DEF IInv
<1>1. UNCHANGED <<drawn, requests, commitment, evaluations, message, answers, stage, accepted>>
  BY DEF vars
<1>2. /\ TreeInv' /\ QueriesInv' /\ Depth' = Depth
      /\ \A d : BasisAt(d)' = BasisAt(d)
      /\ \A p : Values(p)' = Values(p)
      /\ \A l : Upto(l)' = Upto(l) /\ Level(l)' = Level(l)
      /\ RawQueries' = RawQueries
  BY <1>1, DrawnKept
<1>3. LayersInv'
  <2>1. \A l : AtLevel(l) => AtLevel(l)'
    BY <1>1, <1>2 DEF AtLevel
  <2>2. Request' = Request
    BY <1>1, <1>2 DEF Request
  <2>3. ResultsRight => ResultsRight'
    <3>1. tree' = tree /\ \A e, k : answerQueries(e, k)' = answerQueries(e, k)
      BY <1>1 DEF drawn, answerQueries
    <3>. QED  BY <1>1, <1>2, <3>1 DEF ResultsRight
  <2>4. tree' = tree
    BY <1>1 DEF drawn
  <2>. QED  BY <1>1, <1>2, <2>1, <2>2, <2>3, <2>4 DEF LayersInv
<1>4. AnswersInv'
  <2>1. ASSUME NEW q PROVE Holds(q)' <=> Holds(q)
    <3>1. Element(BasisAt(Len(q.at)), q.idx)' = Element(BasisAt(Len(q.at)), q.idx)
      BY <1>2 DEF Element, getSpaceElementByIndex
    <3>. QED  BY <1>1, <3>1 DEF Holds
  <2>2. proof' = proof /\ univariate' = univariate
    BY <1>1 DEF drawn
  <2>. QED  BY <1>1, <2>1, <2>2 DEF AnswersInv
<1>. QED  BY <1>1, <1>2, <1>3, <1>4

\* What the code keeps: the tree is closed, the queries are those of the coins,
\* layers are right and one apart, and places hold what they wait for.
THEOREM Invariance == Spec => []IInv
<1>1. Init => IInv
  BY InitInv
<1>2. IInv /\ [Next]_vars => IInv'
  BY ComitmentPathStep, QueryPathStep, ConstructedStep, VerifierSendsStep, ProverAnswersStep,
     ReceiveComitmentsStep, DigestStep, AnswerInputStep, VerifyStep, NothingMoves
  DEF Next, Finished
<1>. QED  BY <1>1, <1>2, PTL DEF Spec

\* The prover of a low degree polynomial is accepted, whatever is drawn: no
\* party aborts, and every test passes (verifier_t::verify).
THEOREM Acceptance == Spec => []HonestAccepted
<1>1. IInv => HonestAccepted
  BY DEF IInv, HonestAccepted
<1>. QED  BY <1>1, Invariance, PTL

\* The value a row folds to is a value of the next row that is read, where rows
\* are in the low order bits (addRandomQueryPath).
THEOREM Connection == Spec => []PathConnected
<1>1. IInv => PathConnected
  <2>. SUFFICES ASSUME IInv, ~ inst.L0isMSB, NEW q \in DOMAIN paths, NEW d \in 1..Depth - 1
                PROVE  \E i \in 0..RowSize - 1 :
                         query(SubSeq(paths[q].columns, 1, d), paths[q].sigments[d],
                               <<"row", q, d + 1, i>>) \in proof
    BY DEF PathConnected
  <2>1. TreeInv /\ QueriesInv
    BY DEF IInv
  <2>2. /\ inst \in Instances /\ Depth \in Nat \ {0} /\ RowSize = 4 /\ 2^2 = 4
        /\ d \in 1..Depth /\ d + 1 \in 2..Depth /\ (d + 1) - 1 = d /\ d \in 0..Depth
    BY <2>1, TreeFacts DEF RowSize, POW2, dimReduction
  <2>. DEFINE g == paths[q].sigments[d]
              h == paths[q].sigments[d + 1]
              i == g % 4
  <2>3. g \in Nat
    <3>1. g \in Positions(BasisAt(d)) /\ Positions(BasisAt(d)) = 0..2^Width(d) - 1
      BY <2>1, <2>2, PathFacts, LayerSpaces
    <3>. QED  BY <3>1
  <2>4. h = g \div 4
    <3>1. PICK first \in Rows(BasisAt(0)) : paths[q].sigments = Sigments(first)
      BY <2>1 DEF QueriesInv
    <3>. QED  BY <2>2, <3>1, SigmentsRight
  <2>5. i \in 0..3 /\ i + (g \div 4) * 4 = g
    <3>. HIDE DEF g
    <3>. QED  BY <2>3
  <2>6. getBasisLIndex(BasisAt(d), i, h) = g
    BY <2>2, <2>4, <2>5 DEF getBasisLIndex, POW2, dimReduction
  <2>7. RowQuery(q, d + 1, i) \in proof
    BY <2>1, <2>2, <2>5, QueriesAre
  <2>8. RowQuery(q, d + 1, i) = query(SubSeq(paths[q].columns, 1, d), g, <<"row", q, d + 1, i>>)
    BY <2>2, <2>6 DEF RowQuery
  <2>. QED  BY <2>2, <2>5, <2>7, <2>8
<1>. QED  BY <1>1, Invariance, PTL

\* No column is revealed before what is above it is committed to and filed, and
\* no position before everything is (Fri verifier's sendMessage).
THEOREM Protection == Spec => []CoinsProtected
<1>1. IInv => CoinsProtected
  <2>. SUFFICES ASSUME IInv, stage = "prover",
                       NEW p \in ToSet(message.build) \cup DOMAIN message.data,
                       NEW d \in 1..(IF p \in DOMAIN message.data THEN Len(p) ELSE Len(p) - 1)
                PROVE  /\ SubSeq(p, 1, d) \in DOMAIN commitment
                       /\ commitment[SubSeq(p, 1, d)] = evaluations[SubSeq(p, 1, d)]
    BY DEF CoinsProtected
  <2>1. TreeInv /\ LayersInv
    BY DEF IInv
  <2>2. PICK l \in 1..Depth + 1 : AtLevel(l)
    BY <2>1 DEF LayersInv
  <2>3. /\ message = Request /\ Listed(requests) /\ ToSet(requests) = Level(l)
        /\ DOMAIN commitment = Upto(l - 1) /\ DOMAIN evaluations = Upto(l - 1)
    BY <2>1, <2>2 DEF LayersInv, AtLevel
  <2>4. SubSeq(p, 1, d) \in tree /\ Len(SubSeq(p, 1, d)) = d /\ SubSeq(p, 1, d) \in Upto(l - 1)
    <3>1. CASE requests # <<>>
      <4>1. message.build = requests /\ DOMAIN message.data = {}
        BY <2>3, <3>1 DEF Request
      <4>2. p \in tree /\ Len(p) = l /\ d \in 1..l - 1
        BY <2>3, <4>1 DEF Level
      <4>3. SubSeq(p, 1, d) \in tree /\ Len(SubSeq(p, 1, d)) = d
        BY <2>1, <4>2, TreeFacts
      <4>. QED  BY <4>2, <4>3 DEF Upto
    <3>2. CASE requests = <<>>
      <4>1. message.build = <<>> /\ DOMAIN message.data = tree /\ ToSet(<<>>) = {}
        BY <2>3, <3>2 DEF Request, RawQueries, ToSet
      <4>2. p \in tree /\ d \in 1..Len(p)
        BY <4>1
      <4>3. SubSeq(p, 1, d) \in tree /\ Len(SubSeq(p, 1, d)) = d
        BY <2>1, <4>2, TreeFacts
      <4>4. tree \subseteq Upto(l - 1)
        BY <2>1, <2>3, <3>2, NothingListed, LevelFacts
      <4>. QED  BY <4>3, <4>4
    <3>. QED  BY <3>1, <3>2
  <2>5. SubSeq(p, 1, d) # <<>>
    <3>. DEFINE s == SubSeq(p, 1, d)
    <3>1. s \in tree
      BY <2>4
    <3>. HIDE DEF s
    <3>2. Len(s) \in 1..Depth /\ Len(<<>>) = 0 /\ Depth \in Nat
      BY <2>1, <3>1, TreeFacts
    <3>. QED  BY <3>2 DEF s
  <2>. QED  BY <2>1, <2>3, <2>4, <2>5 DEF LayersInv
<1>. QED  BY <1>1, Invariance, PTL
=============================================================================

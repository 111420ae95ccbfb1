---------------------------- MODULE Gadgets_proofs ----------------------------
(***************************************************************************)
(* Proofs about Gadgets for registers of every length: what generateWitness*)
(* fills in satisfies the constraints, and the constraints determine the   *)
(* relation on numbers a gadget stands for.                                *)
(*                                                                         *)
(* A gadget works bit by bit, so a word is taken apart into the sums of    *)
(* its bits from 0 up (PackParts).  Each relation then follows the gadget  *)
(* along the word: a carry is what the sum below it is too large by, a     *)
(* flag is the order of what lies above it, and a power is the product     *)
(* with what lies above it.                                                *)
(***************************************************************************)
EXTENDS Gadgets, NaturalLemmas

-----------------------------------------------------------------------------
(* Words as sums over their positions. *)

LEMMA PackParts ==
    ASSUME NEW b1, \A i \in Index : b1[i] \in Bit
    PROVE  \E p : LowParts(p, b1, W) /\ p[W] = Pack(b1)
<1>1. W \in Nat /\ \A i \in 0..W - 1 : b1[i] \in {0, 1}
  BY WordLengthAssumption DEF Index, Bit
<1>2. Pack(b1) = BinaryNumber(b1, W)
  BY DEF Pack, MapThenSumSet, MapThenFoldSet, BinaryNumber, Index
<1>. QED  BY <1>1, <1>2, BinaryLowParts

\* The exponent MultiplicationPacking raises the generator to is summed the
\* same way, from its own weights.
LEMMA PackedParts ==
    ASSUME a \in Bits
    PROVE  \E p : PartialSums(p, [i \in Index |-> a[i] * Weight(i)], W) /\ p[W] = PackedExponent
<1>. DEFINE t == [i \in Index |-> a[i] * Weight(i)]
            Sums(J) == J = [s \in SUBSET Index |->
                              IF s = {} THEN 0
                              ELSE LET x == CHOOSE x \in s : TRUE IN a[x] * Weight(x) + J[s \ {x}]]
            I == CHOOSE J : Sums(J)
<1>1. ASSUME NEW J
      PROVE  FoldOf(J, t, Index) <=> Sums(J)
  <2>1. ASSUME NEW s \in SUBSET Index, s # {}
        PROVE  t[CHOOSE x \in s : TRUE] = a[CHOOSE x \in s : TRUE] * Weight(CHOOSE x \in s : TRUE)
    <3>1. (CHOOSE x \in s : TRUE) \in Index
      BY <2>1
    <3>. QED  BY <3>1
  <2>. HIDE DEF t
  <2>. QED  BY <2>1 DEF FoldOf
<1>2. PackedExponent = I[Index]
  BY DEF PackedExponent, MapThenSumSet, MapThenFoldSet
<1>3. ASSUME NEW i \in Index PROVE t[i] \in Int
  <2>1. 2^i \in Nat /\ a[i] \in Bit
    BY WordLengthAssumption, PowerPositive DEF Index, Bits
  <2>2. Weight(i) \in Int
    BY <2>1 DEF Weight
  <2>. QED  BY <2>1, <2>2 DEF Bit
<1>4. FoldOf(I, t, Index)
  <2>1. IsFiniteSet(Index)
    BY WordLengthAssumption, FS_Interval DEF Index
  <2>. HIDE DEF t, Sums
  <2>2. \E J : FoldOf(J, t, Index)
    BY <2>1, FoldExists
  <2>3. \E J : Sums(J)
    BY <1>1, <2>2
  <2>4. Sums(I)
    BY <2>3
  <2>. QED  BY <1>1, <2>4
<1>. HIDE DEF t, I, Sums
<1>5. \E p : PartialSums(p, t, W) /\ p[W] = PackedExponent
  <2>1. W \in Nat /\ Index = 0..W - 1
    BY WordLengthAssumption DEF Index
  <2>. QED  BY <1>2, <1>3, <1>4, <2>1, FoldParts
<1>. QED  BY <1>5 DEF t

-----------------------------------------------------------------------------
(* Words from their bits. *)

LEMMA Positions ==
    /\ W \in Nat /\ Last \in Index /\ Last \in Nat /\ Last + 1 = W /\ Last >= 2
    /\ First \in Index /\ First \in Nat /\ First >= 1
    /\ First = IF isSigned THEN Last - 1 ELSE Last
    /\ \A i \in Index : /\ i \in Nat /\ i \in 0..W /\ i + 1 \in 0..W
                        /\ 2^i \in Nat /\ 2^i > 0 /\ 2^(i + 1) = 2^i + 2^i
BY WordLengthAssumption, PowerPositive, PowerStep DEF Index, Last, First

\* A word is what is below its last bit and that bit, which counts
\* negatively when the word is signed.
LEMMA ValueOfBits ==
    ASSUME NEW b1 \in Bits
    PROVE  \E p : /\ p[0] = 0
                  /\ \A n \in 0..W : p[n] \in 0..2^n - 1
                  /\ \A n \in Index : p[n + 1] = p[n] + b1[n] * 2^n
                  /\ p[W] = Pack(b1)
                  /\ Value(b1) = IF isSigned THEN p[Last] - b1[Last] * 2^Last ELSE p[W]
<1>1. \A i \in Index : b1[i] \in Bit
  BY DEF Bits
<1>2. PICK p : LowParts(p, b1, W) /\ p[W] = Pack(b1)
  BY <1>1, PackParts
<1>3. /\ \A n \in 0..W : p[n] \in 0..2^n - 1
      /\ \A n \in Index : p[n + 1] = p[n] + b1[n] * 2^n
  BY <1>2 DEF LowParts, Index
<1>4. Value(b1) = IF isSigned THEN p[Last] - b1[Last] * 2^Last ELSE p[W]
  <2>. DEFINE q == 2^Last
  <2>1. /\ q \in Nat /\ q > 0 /\ 2^W = q + q /\ 2^(W - 1) = q /\ p[Last] \in 0..q - 1
        /\ p[W] = p[Last] + b1[Last] * q /\ (b1[Last] = 0 \/ b1[Last] = 1)
    <3>1. Last \in Index /\ Last + 1 = W /\ Last = W - 1
      BY Positions DEF Last
    <3>2. Last \in 0..W /\ 2^Last \in Nat /\ 2^Last > 0 /\ 2^(Last + 1) = 2^Last + 2^Last
      BY <3>1, Positions
    <3>. QED  BY <1>1, <1>3, <3>1, <3>2 DEF Bit
  <2>2. Signed(p[W]) = IF p[W] >= q THEN p[W] - (q + q) ELSE p[W]
    BY <2>1 DEF Signed
  <2>. HIDE DEF q
  <2>3. Signed(p[W]) = p[Last] - b1[Last] * q
    <3>1. CASE b1[Last] = 0
      BY <2>1, <2>2, <3>1
    <3>2. CASE b1[Last] = 1
      BY <2>1, <2>2, <3>2
    <3>. QED  BY <2>1, <3>1, <3>2
  <2>. QED  BY <1>2, <2>3 DEF Value, q
<1>5. p[0] = 0
  BY <1>2 DEF LowParts
<1>. QED  BY <1>2, <1>3, <1>4, <1>5

-----------------------------------------------------------------------------
(* Addition: the sum below a position is too small by the carry into it.   *)

LEMMA FullAdder ==
    ASSUME NEW x \in Bit, NEW y \in Bit, NEW z \in Bit
    PROVE  /\ Majority(x, y, z) \in Bit /\ (x + y + z) % 2 \in Bit
           /\ x + y + z = ((x + y + z) % 2) + 2 * Majority(x, y, z)
BY DEF Bit, Majority

LEMMA HalfAdder ==
    ASSUME NEW x \in Bit, NEW y \in Bit
    PROVE  (x + y) % 2 \in Bit /\ x * y \in Bit /\ x + y = ((x + y) % 2) + 2 * (x * y)
BY DEF Bit

LEMMA AdditionDetermines ==
    ASSUME a \in Bits, b \in Bits, AdditionConstraints
    PROVE  Adds(Pack(a), Pack(b), Pack(r), flag)
<1>. DEFINE Carry(n) == IF n < W THEN mid[n] ELSE flag
<1>1. \A i \in Index : a[i] \in Bit /\ b[i] \in Bit
  BY DEF Bits
<1>2. /\ r[0] = (a[0] + b[0]) % 2 /\ Carry(1) = a[0] * b[0]
      /\ \A i \in 1..Last : /\ r[i] = (a[i] + b[i] + Carry(i)) % 2
                            /\ Carry(i + 1) = Majority(a[i], b[i], Carry(i))
  BY Positions DEF AdditionConstraints, Last
<1>3. 0 \in Index /\ \A i \in 1..Last : i \in Index /\ i \in Nat
  BY Positions DEF Index
<1>. HIDE DEF Carry
<1>4. \A n \in 0..Last : Carry(n + 1) \in Bit
  <2>. DEFINE S == {n \in Nat : Carry(n + 1) \in Bit}
  <2>1. 0 \in S
    <3>1. a[0] * b[0] \in Bit
      BY <1>1, <1>3, HalfAdder
    <3>. QED  BY <1>2, <3>1
  <2>2. ASSUME NEW n \in 0..Last - 1, n \in S PROVE n + 1 \in S
    <3>1. n + 1 \in 1..Last /\ n + 1 \in Index /\ n + 1 \in Nat
      BY <1>3, Positions
    <3>2. Carry(n + 1) \in Bit
      BY <2>2
    <3>3. Majority(a[n + 1], b[n + 1], Carry(n + 1)) \in Bit
      BY <1>1, <3>1, <3>2, FullAdder
    <3>4. Carry((n + 1) + 1) \in Bit
      BY <1>2, <3>1, <3>3
    <3>. QED  BY <3>1, <3>4
  <2>3. \A n \in 0..Last : n \in S
    <3>1. Last \in Nat
      BY Positions
    <3>. HIDE DEF S
    <3>. QED  BY <2>1, <2>2, <3>1, BoundedInduction
  <2>. QED  BY <2>3
<1>5. \A i \in 1..W : Carry(i) \in Bit
  <2>. SUFFICES ASSUME NEW i \in 1..W PROVE Carry(i) \in Bit
    OBVIOUS
  <2>1. i - 1 \in 0..Last /\ (i - 1) + 1 = i
    BY Positions
  <2>2. Carry((i - 1) + 1) \in Bit
    BY <1>4, <2>1
  <2>. QED  BY <2>1, <2>2
<1>6. ASSUME NEW i \in Index PROVE r[i] \in Bit
  <2>1. CASE i = 0
    BY <1>1, <1>2, <1>3, <2>1, HalfAdder
  <2>2. CASE i # 0
    <3>1. i \in 1..Last /\ i \in 1..W
      BY <2>2, Positions DEF Index
    <3>2. (a[i] + b[i] + Carry(i)) % 2 \in Bit
      BY <1>1, <1>5, <3>1, FullAdder
    <3>. QED  BY <1>2, <3>1, <3>2
  <2>. QED  BY <2>1, <2>2
<1>7. \A i \in Index : a[i] \in Int /\ b[i] \in Int /\ r[i] \in Int
  BY <1>1, <1>6 DEF Bit
<1>8. PICK pa : LowParts(pa, a, W) /\ pa[W] = Pack(a)
  BY <1>1, <1>6, PackParts
<1>9. PICK pb : LowParts(pb, b, W) /\ pb[W] = Pack(b)
  BY <1>1, <1>6, PackParts
<1>10. PICK pr : LowParts(pr, r, W) /\ pr[W] = Pack(r)
  BY <1>1, <1>6, PackParts
<1>11. /\ \A n \in 0..W : pa[n] \in Int /\ pb[n] \in Int /\ pr[n] \in Int
       /\ pa[0] = 0 /\ pb[0] = 0 /\ pr[0] = 0
       /\ \A n \in Index : /\ pa[n + 1] = pa[n] + a[n] * 2^n
                           /\ pb[n + 1] = pb[n] + b[n] * 2^n
                           /\ pr[n + 1] = pr[n] + r[n] * 2^n
  <2>1. ASSUME NEW n \in 0..W PROVE pa[n] \in Int /\ pb[n] \in Int /\ pr[n] \in Int
    BY <1>8, <1>9, <1>10 DEF LowParts
  <2>. QED  BY <1>8, <1>9, <1>10, <2>1 DEF LowParts, Index
<1>. DEFINE Sum(n) == pa[n] + pb[n] = pr[n] + Carry(n) * 2^n
            S == {n \in Nat : Sum(n + 1)}
<1>12. 0 \in S
  <2>1. 2^0 = 1 /\ 2^1 = 2 /\ 0 + 1 = 1
    BY PowerPositive, PowerStep
  <2>2. a[0] \in Int /\ b[0] \in Int /\ r[0] \in Int
    BY <1>3, <1>7
  <2>3. pa[1] = a[0] /\ pb[1] = b[0] /\ pr[1] = r[0]
    <3>1. /\ pa[0 + 1] = pa[0] + a[0] * 2^0 /\ pb[0 + 1] = pb[0] + b[0] * 2^0
          /\ pr[0 + 1] = pr[0] + r[0] * 2^0
      BY <1>3, <1>11
    <3>. QED  BY <1>11, <2>1, <2>2, <3>1
  <2>4. a[0] + b[0] = r[0] + 2 * Carry(1)
    BY <1>1, <1>2, <1>3, HalfAdder
  <2>5. Carry(1) \in Int
    BY <1>5, Positions DEF Bit
  <2>. QED  BY <2>1, <2>2, <2>3, <2>4, <2>5
<1>13. ASSUME NEW n \in 0..Last - 1, n \in S PROVE n + 1 \in S
  <2>. DEFINE i == n + 1
              q == 2^i
  <2>1. i \in 1..Last /\ i \in Index /\ i \in Nat /\ i \in 1..W /\ i + 1 \in 1..W
    BY <1>3, Positions
  <2>2. q \in Nat /\ 2^(i + 1) = q + q
    BY <2>1, Positions
  <2>3. Sum(i)
    BY <1>13
  <2>. HIDE DEF i
  <2>4. a[i] + b[i] + Carry(i) = r[i] + 2 * Carry(i + 1)
    BY <1>1, <1>2, <1>5, <2>1, FullAdder
  <2>5. a[i] \in Int /\ b[i] \in Int /\ r[i] \in Int /\ Carry(i) \in Int /\ Carry(i + 1) \in Int
    BY <1>5, <1>7, <2>1 DEF Bit
  <2>6. /\ pa[i + 1] = pa[i] + a[i] * q /\ pb[i + 1] = pb[i] + b[i] * q
        /\ pr[i + 1] = pr[i] + r[i] * q
        /\ pa[i] \in Int /\ pb[i] \in Int /\ pr[i] \in Int
    BY <1>11, <2>1, Positions
  <2>. HIDE DEF q
  <2>7. a[i] * q + b[i] * q + Carry(i) * q = r[i] * q + Carry(i + 1) * (q + q)
    <3>1. (a[i] + b[i] + Carry(i)) * q = (r[i] + 2 * Carry(i + 1)) * q
      BY <2>4
    <3>. QED  BY <2>2, <2>5, <3>1
  <2>8. pa[i] + pb[i] = pr[i] + Carry(i) * q
    BY <2>3 DEF q
  <2>9. /\ a[i] * q \in Int /\ b[i] * q \in Int /\ r[i] * q \in Int /\ Carry(i) * q \in Int
        /\ Carry(i + 1) * (q + q) \in Int
    BY <2>2, <2>5
  <2>10. pa[i + 1] + pb[i + 1] = pr[i + 1] + Carry(i + 1) * (q + q)
    BY <2>6, <2>7, <2>8, <2>9
  <2>11. Sum(i + 1)
    BY <2>2, <2>10
  <2>. QED  BY <2>1, <2>11 DEF i
<1>14. Sum(W)
  <2>1. Last \in Nat /\ Last + 1 = W
    BY Positions
  <2>2. \A n \in 0..Last : n \in S
    <3>. HIDE DEF S
    <3>. QED  BY <1>12, <1>13, <2>1, BoundedInduction
  <2>. QED  BY <2>1, <2>2
<1>15. Carry(W) = flag
  BY Positions DEF Carry
<1>. QED  BY <1>8, <1>9, <1>10, <1>14, <1>15 DEF Adds

-----------------------------------------------------------------------------
(* Comparison: the flag of a position is the order of what is above it.    *)

LEMMA OrderBelow ==
    ASSUME NEW x \in Nat, NEW y \in Nat, NEW p \in Bit, NEW q \in Bit
    PROVE  /\ Order(2 * x + p, 2 * y + q)
                = IF Order(x, y) = Equal THEN IF p = q THEN Equal ELSE p ELSE Order(x, y)
           /\ Order(p, q) = IF p = q THEN Equal ELSE p
BY DEF Order, Bit, Less, Greater, Equal

\* One more bit of a number from a position.
LEMMA TakeBit ==
    ASSUME NEW q \in Nat, NEW x \in Nat, NEW d \in Bit, NEW low \in Int
    PROVE  x * (q + q) + (low + d * q) = (2 * x + d) * q + low
<1>1. CASE d = 0
  BY <1>1
<1>2. CASE d = 1
  BY <1>2
<1>. QED  BY <1>1, <1>2 DEF Bit

\* What lies above the position the comparison has come down to.
ComparedTo(pa, pb, i) ==
    \E x \in Nat, y \in Nat :
        /\ pa[First + 1] = x * 2^i + pa[i]
        /\ pb[First + 1] = y * 2^i + pb[i]
        /\ (IF i = 0 THEN Below(mid[1], 0) ELSE mid[i]) = Order(x, y)

LEMMA ComparisonDetermines ==
    ASSUME a \in Bits, b \in Bits, GreaterEqualConstraints
    PROVE  flag = Order(Value(a), Value(b))
<1>. DEFINE Flag(i) == IF i = 0 THEN Below(mid[1], 0) ELSE mid[i]
<1>1. \A i \in Index : a[i] \in Bit /\ b[i] \in Bit
  BY DEF Bits
<1>2. /\ Flag(First) = BitFlag(First)
      /\ \A i \in 0..First - 1 : Flag(i) = Below(Flag(i + 1), i)
      /\ flag = SignRule(Flag(0))
  BY Positions DEF GreaterEqualConstraints
<1>3. PICK pa : /\ pa[0] = 0 /\ \A n \in 0..W : pa[n] \in 0..2^n - 1
                /\ \A n \in Index : pa[n + 1] = pa[n] + a[n] * 2^n
                /\ pa[W] = Pack(a)
                /\ Value(a) = IF isSigned THEN pa[Last] - a[Last] * 2^Last ELSE pa[W]
  BY ValueOfBits
<1>4. PICK pb : /\ pb[0] = 0 /\ \A n \in 0..W : pb[n] \in 0..2^n - 1
                /\ \A n \in Index : pb[n + 1] = pb[n] + b[n] * 2^n
                /\ pb[W] = Pack(b)
                /\ Value(b) = IF isSigned THEN pb[Last] - b[Last] * 2^Last ELSE pb[W]
  BY ValueOfBits
<1>. DEFINE top == First + 1
            Seen(i) == ComparedTo(pa, pb, i)
<1>. HIDE DEF Flag
<1>5. Seen(First)
  <2>1. a[First] \in Nat /\ b[First] \in Nat /\ First \in Index
    BY <1>1, Positions DEF Bit
  <2>2. Flag(First) = Order(a[First], b[First])
    BY <1>1, <1>2, <2>1, OrderBelow DEF BitFlag
  <2>3. /\ pa[First + 1] = a[First] * 2^First + pa[First]
        /\ pb[First + 1] = b[First] * 2^First + pb[First]
    <3>1. /\ pa[First + 1] = pa[First] + a[First] * 2^First
          /\ pb[First + 1] = pb[First] + b[First] * 2^First
          /\ 2^First \in Nat /\ pa[First] \in Int /\ pb[First] \in Int
      BY <1>3, <1>4, <2>1, Positions
    <3>2. a[First] * 2^First \in Int /\ b[First] * 2^First \in Int
      BY <2>1, <3>1
    <3>. QED  BY <3>1, <3>2
  <2>. QED  BY <2>1, <2>2, <2>3 DEF ComparedTo, Flag
<1>6. ASSUME NEW i \in 0..First - 1, Seen(i + 1) PROVE Seen(i)
  <2>. DEFINE q == 2^i
  <2>1. /\ i \in Index /\ i \in Nat /\ i + 1 # 0 /\ q \in Nat /\ 2^(i + 1) = q + q
        /\ a[i] \in Bit /\ b[i] \in Bit
    BY <1>1, Positions DEF Index
  <2>2. PICK x \in Nat, y \in Nat : /\ pa[top] = x * 2^(i + 1) + pa[i + 1]
                                    /\ pb[top] = y * 2^(i + 1) + pb[i + 1]
                                    /\ Flag(i + 1) = Order(x, y)
    BY <1>6 DEF ComparedTo, Flag
  <2>3. /\ pa[i + 1] = pa[i] + a[i] * q /\ pb[i + 1] = pb[i] + b[i] * q
        /\ pa[i] \in Int /\ pb[i] \in Int
    BY <1>3, <1>4, <2>1, Positions
  <2>. HIDE DEF q, top
  <2>4. pa[top] = (2 * x + a[i]) * q + pa[i] /\ pb[top] = (2 * y + b[i]) * q + pb[i]
    <3>1. pa[top] = x * (q + q) + (pa[i] + a[i] * q) /\ pb[top] = y * (q + q) + (pb[i] + b[i] * q)
      BY <2>1, <2>2, <2>3
    <3>2. x * (q + q) + (pa[i] + a[i] * q) = (2 * x + a[i]) * q + pa[i]
      BY <2>1, <2>3, TakeBit
    <3>3. y * (q + q) + (pb[i] + b[i] * q) = (2 * y + b[i]) * q + pb[i]
      BY <2>1, <2>3, TakeBit
    <3>. QED  BY <3>1, <3>2, <3>3
  <2>5. Flag(i) = Order(2 * x + a[i], 2 * y + b[i])
    <3>1. Flag(i) = IF Order(x, y) = Equal THEN BitFlag(i) ELSE Order(x, y)
      BY <1>2, <2>2 DEF Below
    <3>. QED  BY <2>1, <3>1, OrderBelow DEF BitFlag
  <2>6. 2 * x + a[i] \in Nat /\ 2 * y + b[i] \in Nat
    BY <2>1 DEF Bit
  <2>. QED  BY <2>4, <2>5, <2>6 DEF ComparedTo, Flag, q, top
<1>7. Seen(0)
  <2>. DEFINE S == {k \in Nat : Seen(First - k)}
  <2>1. First \in Nat
    BY Positions
  <2>. HIDE DEF Seen
  <2>2. 0 \in S
    BY <1>5, <2>1
  <2>3. ASSUME NEW k \in 0..First - 1, k \in S PROVE k + 1 \in S
    <3>1. First - (k + 1) \in 0..First - 1 /\ (First - (k + 1)) + 1 = First - k
      BY <2>1
    <3>2. Seen((First - (k + 1)) + 1)
      BY <2>3, <3>1
    <3>. QED  BY <1>6, <3>1, <3>2
  <2>4. First \in S
    <3>1. \A k \in 0..First : k \in S
      <4>. HIDE DEF S
      <4>. QED  BY <2>1, <2>2, <2>3, BoundedInduction
    <3>. QED  BY <2>1, <3>1
  <2>5. First - First = 0
    BY <2>1
  <2>. QED  BY <2>4, <2>5
<1>8. Flag(0) = Order(pa[top], pb[top])
  <2>1. PICK x \in Nat, y \in Nat : /\ pa[top] = x * 2^0 + pa[0]
                                    /\ pb[top] = y * 2^0 + pb[0]
                                    /\ Flag(0) = Order(x, y)
    BY <1>7 DEF ComparedTo, Flag
  <2>2. pa[top] = x /\ pb[top] = y
    BY <1>3, <1>4, <2>1, PowerPositive
  <2>. QED  BY <2>1, <2>2
<1>9. CASE ~ isSigned
  <2>1. top = W
    BY <1>9, Positions
  <2>. QED  BY <1>2, <1>3, <1>4, <1>8, <1>9, <2>1 DEF SignRule
<1>10. CASE isSigned
  <2>. DEFINE q == 2^Last
  <2>1. /\ top = Last /\ q \in Nat /\ q > 0 /\ pa[Last] \in 0..q - 1 /\ pb[Last] \in 0..q - 1
        /\ (a[Last] = 0 \/ a[Last] = 1) /\ (b[Last] = 0 \/ b[Last] = 1)
    BY <1>1, <1>3, <1>4, <1>10, Positions DEF Bit
  <2>2. Value(a) = pa[Last] - a[Last] * q /\ Value(b) = pb[Last] - b[Last] * q
    BY <1>3, <1>4, <1>10
  <2>3. flag = IF a[Last] = b[Last] THEN Order(pa[Last], pb[Last]) ELSE (1 - a[Last]) * b[Last]
    BY <1>2, <1>8, <1>10, <2>1 DEF SignRule
  <2>. HIDE DEF q
  <2>4. CASE a[Last] = b[Last]
    <3>1. Order(Value(a), Value(b)) = Order(pa[Last], pb[Last])
      BY <2>1, <2>2, <2>4 DEF Order
    <3>. QED  BY <2>3, <2>4, <3>1
  <2>5. CASE a[Last] # b[Last]
    BY <2>1, <2>2, <2>3, <2>5 DEF Order, Less, Greater
  <2>. QED  BY <2>4, <2>5
<1>. QED  BY <1>9, <1>10

-----------------------------------------------------------------------------
(* Product: the power of a position is the product with what is above it.  *)

LEMMA PackedIsValue == ASSUME a \in Bits PROVE PackedExponent = Value(a) /\ Value(a) \in Int
<1>1. PICK p : /\ p[0] = 0 /\ \A n \in 0..W : p[n] \in 0..2^n - 1
               /\ \A n \in Index : p[n + 1] = p[n] + a[n] * 2^n
               /\ p[W] = Pack(a)
               /\ Value(a) = IF isSigned THEN p[Last] - a[Last] * 2^Last ELSE p[W]
  BY ValueOfBits
<1>2. PICK t : PartialSums(t, [i \in Index |-> a[i] * Weight(i)], W) /\ t[W] = PackedExponent
  BY PackedParts
<1>3. t[0] = 0 /\ \A n \in Index : t[n + 1] = t[n] + a[n] * Weight(n)
  BY <1>2 DEF PartialSums, Index
<1>4. \A n \in 0..Last : n \in {m \in Nat : t[m] = p[m]}
  <2>. DEFINE S == {m \in Nat : t[m] = p[m]}
  <2>1. 0 \in S
    BY <1>1, <1>3
  <2>2. ASSUME NEW n \in 0..Last - 1, n \in S PROVE n + 1 \in S
    <3>1. n \in Index /\ n # Last
      BY Positions DEF Index
    <3>2. Weight(n) = 2^n
      BY <3>1 DEF Weight
    <3>. QED  BY <1>1, <1>3, <2>2, <3>1, <3>2
  <2>3. Last \in Nat
    BY Positions
  <2>4. \A n \in 0..Last : n \in S
    <3>. HIDE DEF S
    <3>. QED  BY <2>1, <2>2, <2>3, BoundedInduction
  <2>. QED  BY <2>4
<1>. DEFINE q == 2^Last
<1>5. /\ t[Last] = p[Last] /\ t[W] = t[Last] + a[Last] * Weight(Last)
      /\ p[W] = p[Last] + a[Last] * q
      /\ q \in Nat /\ p[Last] \in Int /\ p[W] \in Int /\ (a[Last] = 0 \/ a[Last] = 1)
  <2>1. Last \in 0..Last /\ Last \in Index /\ Last + 1 = W /\ Last \in 0..W /\ W \in 0..W
    BY Positions
  <2>2. a[Last] \in Bit
    BY <2>1 DEF Bits
  <2>3. t[Last + 1] = t[Last] + a[Last] * Weight(Last) /\ p[Last + 1] = p[Last] + a[Last] * q
    BY <1>1, <1>3, <2>1
  <2>. QED  BY <1>1, <1>4, <2>1, <2>2, <2>3, Positions DEF Bit
<1>6. Weight(Last) = IF isSigned THEN -q ELSE q
  BY DEF Weight
<1>. HIDE DEF q
<1>7. a[Last] = 0 => a[Last] * Weight(Last) = 0 /\ a[Last] * q = 0
  BY <1>5, <1>6
<1>8. a[Last] = 1 => a[Last] * Weight(Last) = Weight(Last) /\ a[Last] * q = q
  BY <1>5, <1>6
<1>. QED  BY <1>1, <1>2, <1>5, <1>6, <1>7, <1>8 DEF q

\* A power together with the factors still to come, per position.
LEMMA TakeFactor ==
    ASSUME NEW q \in Nat, NEW m \in Int, NEW P \in Int, NEW d \in Bit, NEW low \in Int
    PROVE  (2 * m + d * P) * q + P * low = m * (q + q) + P * (low + d * q)
<1>1. CASE d = 0
  BY <1>1
<1>2. CASE d = 1
  <2>1. (2 * m + P) * q + P * low = m * (q + q) + P * (low + q)
    OBVIOUS
  <2>. QED  BY <1>2, <2>1
<1>. QED  BY <1>1, <1>2 DEF Bit

LEMMA MultiplicationDetermines ==
    ASSUME a \in Bits, b \in Bits, MultiplicationConstraints
    PROVE  flag = Value(a) * Value(b)
<1>. DEFINE P == PackedExponent
<1>1. P = Value(a) /\ P \in Int
  BY PackedIsValue
<1>2. PICK p : /\ p[0] = 0 /\ \A n \in 0..W : p[n] \in 0..2^n - 1
               /\ \A n \in Index : p[n + 1] = p[n] + b[n] * 2^n
               /\ p[W] = Pack(b)
               /\ Value(b) = IF isSigned THEN p[Last] - b[Last] * 2^Last ELSE p[W]
  BY ValueOfBits
<1>3. /\ mid[Last] = b[Last] * TopFactor(P)
      /\ \A i \in 0..Last - 1 : mid[i] = 2 * mid[i + 1] + b[i] * P
      /\ flag = mid[0]
  BY DEF MultiplicationConstraints
<1>. HIDE DEF P
<1>4. \A i \in Index : /\ b[i] \in Bit /\ b[i] \in Int /\ p[i] \in Int /\ p[i + 1] \in Int
                       /\ p[i + 1] = p[i] + b[i] * 2^i
  <2>. SUFFICES ASSUME NEW i \in Index
                PROVE  /\ b[i] \in Bit /\ b[i] \in Int /\ p[i] \in Int /\ p[i + 1] \in Int
                       /\ p[i + 1] = p[i] + b[i] * 2^i
    OBVIOUS
  <2>1. i \in 0..W /\ i + 1 \in 0..W
    BY Positions
  <2>. QED  BY <1>2, <2>1 DEF Bits, Bit
<1>5. Last \in Index /\ Last \in Nat /\ W = Last + 1
  BY Positions
<1>. DEFINE Power(i) == mid[i] \in Int /\ mid[i] * 2^i + P * p[i] = P * Value(b)
            S == {k \in Nat : Power(Last - k)}
<1>6. Power(Last)
  <2>. DEFINE q == 2^Last
  <2>1. q \in Nat /\ (b[Last] = 0 \/ b[Last] = 1) /\ p[Last] \in Int /\ p[W] = p[Last] + b[Last] * q
    BY <1>4, <1>5, Positions DEF Bit
  <2>2. TopFactor(P) = IF isSigned THEN -P ELSE P
    BY DEF TopFactor
  <2>3. Value(b) = IF isSigned THEN p[Last] - b[Last] * q ELSE p[Last] + b[Last] * q
    BY <1>2, <2>1
  <2>. HIDE DEF q
  <2>4. CASE b[Last] = 0
    <3>1. mid[Last] = 0 /\ Value(b) = p[Last]
      BY <1>1, <1>3, <2>1, <2>2, <2>3, <2>4
    <3>2. mid[Last] * q + P * p[Last] = P * Value(b)
      BY <1>1, <2>1, <3>1
    <3>. QED  BY <3>1, <3>2 DEF q
  <2>5. CASE b[Last] = 1 /\ isSigned
    <3>1. mid[Last] = -P /\ Value(b) = p[Last] - q
      BY <1>1, <1>3, <2>1, <2>2, <2>3, <2>5
    <3>2. (-P) * q + P * p[Last] = P * (p[Last] - q)
      BY <1>1, <2>1
    <3>. QED  BY <1>1, <3>1, <3>2 DEF q
  <2>6. CASE b[Last] = 1 /\ ~ isSigned
    <3>1. mid[Last] = P /\ Value(b) = p[Last] + q
      BY <1>1, <1>3, <2>1, <2>2, <2>3, <2>6
    <3>2. P * q + P * p[Last] = P * (p[Last] + q)
      BY <1>1, <2>1
    <3>. QED  BY <1>1, <3>1, <3>2 DEF q
  <2>. QED  BY <2>1, <2>4, <2>5, <2>6
<1>7. ASSUME NEW i \in 0..Last - 1, Power(i + 1) PROVE Power(i)
  <2>. DEFINE q == 2^i
  <2>1. i \in Index /\ q \in Nat /\ 2^(i + 1) = q + q
    BY <1>5, Positions DEF Index
  <2>2. /\ mid[i + 1] \in Int /\ mid[i] = 2 * mid[i + 1] + b[i] * P
        /\ p[i + 1] = p[i] + b[i] * q /\ p[i] \in Int /\ b[i] \in Bit
    BY <1>3, <1>4, <1>7, <2>1
  <2>3. mid[i + 1] * (q + q) + P * (p[i] + b[i] * q) = P * Value(b)
    BY <1>7, <2>1, <2>2
  <2>4. mid[i] \in Int
    BY <1>1, <2>2 DEF Bit
  <2>. HIDE DEF q
  <2>5. (2 * mid[i + 1] + b[i] * P) * q + P * p[i]
          = mid[i + 1] * (q + q) + P * (p[i] + b[i] * q)
    BY <1>1, <2>1, <2>2, TakeFactor
  <2>6. mid[i] * q + P * p[i] = P * Value(b)
    BY <2>2, <2>3, <2>5
  <2>. QED  BY <2>4, <2>6 DEF q
<1>8. Power(0)
  <2>. HIDE DEF Power
  <2>1. 0 \in S
    BY <1>5, <1>6
  <2>2. ASSUME NEW k \in 0..Last - 1, k \in S PROVE k + 1 \in S
    <3>1. Last - (k + 1) \in 0..Last - 1 /\ (Last - (k + 1)) + 1 = Last - k
      BY <1>5
    <3>2. Power((Last - (k + 1)) + 1)
      BY <2>2, <3>1
    <3>. QED  BY <1>7, <3>1, <3>2
  <2>3. Last \in S
    <3>1. \A k \in 0..Last : k \in S
      <4>. HIDE DEF S
      <4>. QED  BY <1>5, <2>1, <2>2, BoundedInduction
    <3>. QED  BY <1>5, <3>1
  <2>4. Last - Last = 0
    BY <1>5
  <2>. QED  BY <2>3, <2>4
<1>9. mid[0] = P * Value(b)
  BY <1>1, <1>2, <1>8, PowerPositive
<1>. QED  BY <1>1, <1>3, <1>9

-----------------------------------------------------------------------------
(* The recursions of the witness procedures, which TLA+ takes by CHOOSE:   *)
(* there is a function that satisfies each.                                *)

CarryFrom(C, i) == IF i = 1 THEN a[0] * b[0] ELSE Majority(a[i-1], b[i-1], C[i-1])

LEMMA CarryDefined ==
    /\ CarryInto[1] = a[0] * b[0]
    /\ \A i \in 1..Last : CarryInto[i + 1] = Majority(a[i], b[i], CarryInto[i])
<1>. DEFINE UpTo(C, m) == C = [i \in 1..m |-> CarryFrom(C, i)]
            S == {m \in Nat : \E C : UpTo(C, m)}
<1>1. 0 \in S
  <2>. DEFINE C == [i \in 1..0 |-> 0]
  <2>1. UpTo(C, 0)
    OBVIOUS
  <2>. QED  BY <2>1
<1>2. ASSUME NEW m \in Nat, m \in S PROVE m + 1 \in S
  <2>1. PICK F : UpTo(F, m)
    BY <1>2
  <2>. DEFINE G == [i \in 1..m + 1 |-> IF i = m + 1 THEN CarryFrom(F, m + 1) ELSE F[i]]
  <2>2. ASSUME NEW i \in 1..m + 1 PROVE G[i] = CarryFrom(G, i)
    <3>1. i # 1 => i - 1 \in 1..m /\ G[i - 1] = F[i - 1]
      OBVIOUS
    <3>2. CarryFrom(G, i) = CarryFrom(F, i)
      <4>. HIDE DEF G
      <4>. QED  BY <3>1 DEF CarryFrom
    <3>3. i # m + 1 => F[i] = CarryFrom(F, i)
      BY <2>1
    <3>. QED  BY <3>2, <3>3
  <2>3. G = [i \in 1..m + 1 |-> G[i]]
    OBVIOUS
  <2>. HIDE DEF G
  <2>4. UpTo(G, m + 1)
    BY <2>2, <2>3
  <2>. HIDE DEF UpTo
  <2>. QED  BY <2>4
<1>3. W \in S
  <2>. HIDE DEF S
  <2>. QED  BY <1>1, <1>2, Positions, SetInduction
<1>4. UpTo(CarryInto, W)
  <2>1. CarryInto = CHOOSE C : C = [i \in 1..W |->
                        IF i = 1 THEN a[0] * b[0] ELSE Majority(a[i-1], b[i-1], C[i-1])]
    BY DEF CarryInto
  <2>2. \E C : C = [i \in 1..W |->
                        IF i = 1 THEN a[0] * b[0] ELSE Majority(a[i-1], b[i-1], C[i-1])]
    BY <1>3 DEF CarryFrom
  <2>. QED  BY <2>1, <2>2 DEF CarryFrom
<1>5. ASSUME NEW i \in 1..W PROVE CarryInto[i] = CarryFrom(CarryInto, i)
  BY <1>4
<1>. QED
  <2>1. 1 \in 1..W
    BY Positions
  <2>2. ASSUME NEW i \in 1..Last PROVE i + 1 \in 1..W /\ i + 1 # 1 /\ (i + 1) - 1 = i
    BY Positions
  <2>. QED  BY <1>5, <2>1, <2>2 DEF CarryFrom

FlagFrom(F, i) == IF i >= First THEN BitFlag(i) ELSE Below(F[i+1], i)

LEMMA FlagsDefined ==
    /\ FlagsFrom[First] = BitFlag(First)
    /\ \A i \in 0..First - 1 : FlagsFrom[i] = Below(FlagsFrom[i + 1], i)
<1>. DEFINE DownTo(F, k) == F = [i \in First - k..Last |-> FlagFrom(F, i)]
            S == {k \in Nat : \E F : DownTo(F, k)}
<1>1. 0 \in S
  <2>. DEFINE F == [i \in First - 0..Last |-> BitFlag(i)]
  <2>1. DownTo(F, 0)
    <3>1. \A i \in First - 0..Last : i >= First
      BY Positions
    <3>. QED  BY <3>1 DEF FlagFrom
  <2>. HIDE DEF DownTo
  <2>. QED  BY <2>1
<1>2. ASSUME NEW k \in Nat, k \in S PROVE k + 1 \in S
  <2>1. PICK F : DownTo(F, k)
    BY <1>2
  <2>. DEFINE n == First - (k + 1)
              G == [i \in n..Last |-> IF i = n THEN FlagFrom(F, n) ELSE F[i]]
  <2>2. ASSUME NEW i \in n..Last PROVE G[i] = FlagFrom(G, i)
    <3>1. /\ First \in Int /\ Last \in Int /\ First <= Last
          /\ i < First => i + 1 \in First - k..Last /\ i + 1 # n /\ i + 1 \in n..Last
          /\ i # n => i \in First - k..Last
      BY Positions
    <3>2. i < First => G[i + 1] = F[i + 1]
      BY <3>1
    <3>3. FlagFrom(G, i) = FlagFrom(F, i)
      <4>. HIDE DEF G, n
      <4>1. i \in Int
        BY <3>1 DEF n
      <4>. QED  BY <3>1, <3>2, <4>1 DEF FlagFrom
    <3>4. i # n => F[i] = FlagFrom(F, i)
      BY <2>1, <3>1
    <3>. QED  BY <3>3, <3>4
  <2>3. G = [i \in n..Last |-> G[i]]
    OBVIOUS
  <2>. HIDE DEF G
  <2>4. DownTo(G, k + 1)
    BY <2>2, <2>3
  <2>. HIDE DEF DownTo
  <2>. QED  BY <2>4
<1>3. First \in S
  <2>. HIDE DEF S
  <2>. QED  BY <1>1, <1>2, Positions, SetInduction
<1>4. PICK F : F = [i \in Index |-> FlagFrom(F, i)]
  <2>1. First - First = 0 /\ 0..Last = Index
    BY Positions DEF Index, Last
  <2>. QED  BY <1>3, <2>1
<1>5. FlagsFrom = [i \in Index |-> FlagFrom(FlagsFrom, i)]
  <2>1. FlagsFrom = CHOOSE H : H = [i \in Index |->
                        IF i >= First THEN BitFlag(i) ELSE Below(H[i+1], i)]
    BY DEF FlagsFrom
  <2>2. \E H : H = [i \in Index |-> IF i >= First THEN BitFlag(i) ELSE Below(H[i+1], i)]
    BY <1>4 DEF FlagFrom
  <2>. QED  BY <2>1, <2>2 DEF FlagFrom
<1>6. ASSUME NEW i \in Index PROVE FlagsFrom[i] = FlagFrom(FlagsFrom, i)
  BY <1>5
<1>7. First \in Index /\ First >= First /\ \A i \in 0..First - 1 : i \in Index /\ ~ i >= First
  BY Positions DEF Index
<1>. QED  BY <1>6, <1>7 DEF FlagFrom

PowerFrom(F, i) ==
    IF i = Last THEN b[i] * TopFactor(PackedExponent)
    ELSE 2 * F[i+1] + b[i] * PackedExponent

LEMMA PowersDefined ==
    /\ SquareAndMultiply[Last] = b[Last] * TopFactor(PackedExponent)
    /\ \A i \in 0..Last - 1 :
          SquareAndMultiply[i] = 2 * SquareAndMultiply[i + 1] + b[i] * PackedExponent
<1>. DEFINE DownTo(F, k) == F = [i \in Last - k..Last |-> PowerFrom(F, i)]
            S == {k \in Nat : \E F : DownTo(F, k)}
<1>1. 0 \in S
  <2>. DEFINE F == [i \in Last - 0..Last |-> b[i] * TopFactor(PackedExponent)]
  <2>1. DownTo(F, 0)
    <3>1. \A i \in Last - 0..Last : i = Last
      BY Positions
    <3>. QED  BY <3>1 DEF PowerFrom
  <2>. HIDE DEF DownTo
  <2>. QED  BY <2>1
<1>2. ASSUME NEW k \in Nat, k \in S PROVE k + 1 \in S
  <2>1. PICK F : DownTo(F, k)
    BY <1>2
  <2>. DEFINE n == Last - (k + 1)
              G == [i \in n..Last |-> IF i = n THEN PowerFrom(F, n) ELSE F[i]]
  <2>2. ASSUME NEW i \in n..Last PROVE G[i] = PowerFrom(G, i)
    <3>1. /\ i # Last => i + 1 \in Last - k..Last /\ i + 1 # n /\ i + 1 \in n..Last
          /\ i # n => i \in Last - k..Last
      BY Positions
    <3>2. i # Last => G[i + 1] = F[i + 1]
      BY <3>1
    <3>3. PowerFrom(G, i) = PowerFrom(F, i)
      <4>. HIDE DEF G, n
      <4>. QED  BY <3>2 DEF PowerFrom
    <3>4. i # n => F[i] = PowerFrom(F, i)
      BY <2>1, <3>1
    <3>. QED  BY <3>3, <3>4
  <2>3. G = [i \in n..Last |-> G[i]]
    OBVIOUS
  <2>. HIDE DEF G
  <2>4. DownTo(G, k + 1)
    BY <2>2, <2>3
  <2>. HIDE DEF DownTo
  <2>. QED  BY <2>4
<1>3. Last \in S
  <2>. HIDE DEF S
  <2>. QED  BY <1>1, <1>2, Positions, SetInduction
<1>4. PICK F : F = [i \in Index |-> PowerFrom(F, i)]
  <2>1. Last - Last = 0 /\ 0..Last = Index
    BY Positions DEF Index, Last
  <2>. QED  BY <1>3, <2>1
<1>5. SquareAndMultiply = [i \in Index |-> PowerFrom(SquareAndMultiply, i)]
  <2>1. SquareAndMultiply = CHOOSE H : H = [i \in Index |->
                                IF i = Last THEN b[i] * TopFactor(PackedExponent)
                                ELSE 2 * H[i+1] + b[i] * PackedExponent]
    BY DEF SquareAndMultiply
  <2>2. \E H : H = [i \in Index |-> IF i = Last THEN b[i] * TopFactor(PackedExponent)
                                     ELSE 2 * H[i+1] + b[i] * PackedExponent]
    BY <1>4 DEF PowerFrom
  <2>. QED  BY <2>1, <2>2 DEF PowerFrom
<1>6. ASSUME NEW i \in Index PROVE SquareAndMultiply[i] = PowerFrom(SquareAndMultiply, i)
  BY <1>5
<1>7. Last \in Index /\ \A i \in 0..Last - 1 : i \in Index /\ i # Last
  BY Positions DEF Index
<1>. QED  BY <1>6, <1>7 DEF PowerFrom

-----------------------------------------------------------------------------
(* The witness procedures. *)

LEMMA AdditionFills ==
    ASSUME a \in Bits, b \in Bits, AdditionWitness, UNCHANGED <<gadget, a, b>>
    PROVE  AdditionConstraints'
<1>1. r'[0] = (a[0] + b[0] + 0) % 2
  BY Positions DEF AdditionWitness, Index
<1>2. ASSUME NEW i \in 1..W PROVE (IF i < W THEN mid'[i] ELSE flag') = CarryInto[i]
  BY Positions DEF AdditionWitness, Index
<1>3. ASSUME NEW i \in 1..Last PROVE r'[i] = (a[i] + b[i] + CarryInto[i]) % 2
  BY Positions DEF AdditionWitness, Index
<1>4. 1 \in 1..W /\ 1 < W /\ mid'[1] = CarryInto[1]
  <2>1. 1 \in 1..W /\ 1 < W
    BY Positions
  <2>. QED  BY <1>2, <2>1
<1>5. ASSUME NEW i \in 1..Last
      PROVE  mid'[i] = CarryInto[i] /\ (IF i < Last THEN mid'[i+1] ELSE flag') = CarryInto[i + 1]
  <2>1. /\ i \in 1..W /\ i < W /\ i + 1 \in 1..W /\ (i + 1 < W <=> i < Last)
    BY Positions
  <2>. QED  BY <1>2, <2>1
<1>6. a' = a /\ b' = b /\ Last' = Last
  BY DEF Last
<1>7. (a[0] + b[0] + 0) % 2 = (a[0] + b[0]) % 2
  <2>1. a[0] \in Int /\ b[0] \in Int
    BY Positions DEF Bits, Bit, Index
  <2>. QED  BY <2>1
<1>. QED  BY <1>1, <1>3, <1>4, <1>5, <1>6, <1>7, CarryDefined DEF AdditionConstraints

LEMMA ComparisonFills ==
    ASSUME a \in Bits, b \in Bits, GreaterEqualWitness, UNCHANGED <<gadget, a, b>>
    PROVE  GreaterEqualConstraints'
<1>1. /\ First' = First /\ Last' = Last /\ isSigned' = isSigned /\ a' = a /\ b' = b
  BY DEF First, Last, isSigned
<1>2. ASSUME NEW i \in 1..First PROVE mid'[i] = FlagsFrom[i]
  <2>1. i \in Index
    BY Positions DEF Index
  <2>. QED  BY <2>1 DEF GreaterEqualWitness
<1>3. mid'[First] = BitFlag(First)
  <2>1. First \in 1..First
    BY Positions
  <2>. QED  BY <1>2, <2>1, FlagsDefined
<1>4. ASSUME NEW i \in 1..First - 1 PROVE mid'[i] = Below(mid'[i + 1], i)
  <2>1. i \in 1..First /\ i + 1 \in 1..First /\ i \in 0..First - 1
    BY Positions
  <2>. QED  BY <1>2, <2>1, FlagsDefined
<1>5. FlagsFrom[0] = Below(mid'[1], 0)
  <2>1. 0 \in 0..First - 1 /\ 1 \in 1..First /\ 0 + 1 = 1
    BY Positions
  <2>. QED  BY <1>2, <2>1, FlagsDefined
<1>6. flag' = SignRule(FlagsFrom[0])
  <2>1. (a[Last] = 0 \/ a[Last] = 1) /\ (b[Last] = 0 \/ b[Last] = 1)
    BY Positions DEF Bits, Bit
  <2>2. a[Last] # b[Last] => (1 - a[Last]) * b[Last] = b[Last]
    BY <2>1
  <2>. QED  BY <2>2 DEF GreaterEqualWitness, SignRule
<1>. QED  BY <1>1, <1>3, <1>4, <1>5, <1>6
          DEF GreaterEqualConstraints, BitFlag, Below, SignRule

LEMMA MultiplicationFills ==
    ASSUME MultiplicationWitness, UNCHANGED <<gadget, a, b>>
    PROVE  MultiplicationConstraints'
<1>1. a' = a /\ b' = b /\ Last' = Last /\ isSigned' = isSigned
  BY DEF Last, isSigned
<1>2. PackedExponent' = PackedExponent
  BY <1>1 DEF PackedExponent, Weight, MapThenSumSet, MapThenFoldSet
<1>3. \A h : TopFactor(h)' = TopFactor(h)
  BY <1>1 DEF TopFactor
<1>4. mid' = SquareAndMultiply /\ flag' = mid'[0]
  BY DEF MultiplicationWitness
<1>. QED  BY <1>1, <1>2, <1>3, <1>4, PowersDefined DEF MultiplicationConstraints, TopFactor

-----------------------------------------------------------------------------
(* The specification. *)

\* The operands are words; what generateWitness filled in satisfies the
\* constraints.
OperandsAreWords == gadget \in GadgetNames /\ a \in Bits /\ b \in Bits /\ filled \in BOOLEAN

(* The gadget and its operands are what the row fixed: a gadget fills in   *)
(* its own variables and leaves its inputs alone.                          *)
THEOREM Operands == Spec => []OperandsAreWords
<1>1. Init => OperandsAreWords
  BY DEF Init, OperandsAreWords
<1>2. OperandsAreWords /\ [Next]_vars => OperandsAreWords'
  BY DEF OperandsAreWords, Next, GenerateWitness, vars, Bits, Index, GadgetNames
<1>. QED  BY <1>1, <1>2, PTL DEF Spec

(* For words of every length, a witness that generateWitness computes      *)
(* satisfies the constraints of the gadget, whatever the previous row left *)
(* on the protoboard (Addition_Gadget, GreaterEqual_Gadget and             *)
(* Multiplication_Gadget, gadgetlib/gadget.cpp).                           *)
THEOREM Filled == Spec => []WitnessSatisfies
<1>. DEFINE Inv == OperandsAreWords /\ WitnessSatisfies
<1>1. Init => Inv
  BY DEF Init, OperandsAreWords, WitnessSatisfies
<1>2. Inv /\ [Next]_vars => Inv'
  <2>. SUFFICES ASSUME Inv, [Next]_vars PROVE Inv'
    OBVIOUS
  <2>1. OperandsAreWords'
    BY DEF OperandsAreWords, Next, GenerateWitness, vars, Bits, Index, GadgetNames
  <2>2. CASE UNCHANGED vars
    <3>1. /\ gadget' = gadget /\ a' = a /\ b' = b /\ r' = r /\ mid' = mid
          /\ flag' = flag /\ filled' = filled
      BY <2>2 DEF vars
    <3>2. /\ isSigned' = isSigned /\ Compares' = Compares /\ Arithmetic' = Arithmetic
          /\ Last' = Last /\ First' = First
      BY <3>1 DEF isSigned, Compares, Arithmetic, Last, First
    <3>3. PackedExponent' = PackedExponent
      BY <3>1, <3>2 DEF PackedExponent, Weight, MapThenSumSet, MapThenFoldSet
    <3>4. AdditionConstraints => AdditionConstraints'
      BY <3>1, <3>2 DEF AdditionConstraints
    <3>5. GreaterEqualConstraints => GreaterEqualConstraints'
      BY <3>1, <3>2 DEF GreaterEqualConstraints, BitFlag, Below, SignRule
    <3>6. MultiplicationConstraints => MultiplicationConstraints'
      BY <3>1, <3>2, <3>3 DEF MultiplicationConstraints, TopFactor
    <3>. QED  BY <2>1, <3>1, <3>2, <3>4, <3>5, <3>6 DEF WitnessSatisfies, Constraints
  <2>3. CASE GenerateWitness
    <3>1. UNCHANGED <<gadget, a, b>> /\ a \in Bits /\ b \in Bits
      BY <2>3 DEF GenerateWitness, OperandsAreWords
    <3>2. CASE gadget = "Addition" /\ AdditionWitness
      BY <2>1, <3>1, <3>2, AdditionFills DEF WitnessSatisfies, Constraints
    <3>3. CASE Compares /\ GreaterEqualWitness
      BY <2>1, <3>1, <3>3, ComparisonFills DEF WitnessSatisfies, Constraints, Compares
    <3>4. CASE Arithmetic /\ MultiplicationWitness
      BY <2>1, <3>1, <3>4, MultiplicationFills DEF WitnessSatisfies, Constraints, Arithmetic
    <3>. QED  BY <2>3, <3>2, <3>3, <3>4 DEF GenerateWitness
  <2>. QED  BY <2>2, <2>3 DEF Next
<1>3. Inv => WitnessSatisfies
  OBVIOUS
<1>. QED  BY <1>1, <1>2, <1>3, PTL DEF Spec

(* For words of every length, whatever satisfies a gadget's constraints is *)
(* the relation it stands for: a prover that does not run the witness      *)
(* procedures of gadget.cpp has no other choice of result and flag.        *)
THEOREM Determined == Spec => []RelationDetermined
<1>1. OperandsAreWords => RelationDetermined
  <2>. SUFFICES ASSUME OperandsAreWords, Constraints
                PROVE  CASE gadget = "Addition" -> Adds(Pack(a), Pack(b), Pack(r), flag)
                         [] Compares            -> flag = Order(Value(a), Value(b))
                         [] Arithmetic          -> flag = Value(a) * Value(b)
    BY DEF RelationDetermined
  <2>1. a \in Bits /\ b \in Bits
    BY DEF OperandsAreWords
  <2>2. CASE gadget = "Addition" /\ AdditionConstraints
    <3>1. Adds(Pack(a), Pack(b), Pack(r), flag)
      BY <2>1, <2>2, AdditionDetermines
    <3>2. ~ Compares /\ ~ Arithmetic
      BY <2>2 DEF Compares, Arithmetic
    <3>. QED  BY <2>2, <3>1, <3>2
  <2>3. CASE Compares /\ GreaterEqualConstraints
    <3>1. flag = Order(Value(a), Value(b))
      BY <2>1, <2>3, ComparisonDetermines
    <3>2. gadget # "Addition" /\ ~ Arithmetic
      BY <2>3 DEF Compares, Arithmetic
    <3>. QED  BY <2>3, <3>1, <3>2
  <2>4. CASE Arithmetic /\ MultiplicationConstraints
    <3>1. flag = Value(a) * Value(b)
      BY <2>1, <2>4, MultiplicationDetermines
    <3>2. gadget # "Addition" /\ ~ Compares
      BY <2>4 DEF Compares, Arithmetic
    <3>. QED  BY <2>4, <3>1, <3>2
  <2>. QED  BY <2>2, <2>3, <2>4 DEF Constraints
<1>. QED  BY <1>1, Operands, PTL
=============================================================================

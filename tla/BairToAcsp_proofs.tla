-------------------------- MODULE BairToAcsp_proofs --------------------------
(***************************************************************************)
(* Proofs about BairToAcsp and the routing network it builds (Routing),    *)
(* for every instance and every permutation of its rows: what the router   *)
(* leaves behind, read back through the relabelled, extended and folded    *)
(* network, takes every packet along edges of a DeBruijn network from the  *)
(* row it starts in to the row the permutation names.                      *)
(*                                                                         *)
(* The argument goes up level by level.  A turn of the router sends one    *)
(* packet of a pair up and the other down in both outer columns (Placed);  *)
(* between turns at most one chain of pairs is open, and the next row is   *)
(* its end (Open).  A call that ends leaves two blocks of half the rows    *)
(* that hold the same packets on both sides (Wires), so the stack of calls *)
(* is an induction over levels that the router itself carries out          *)
(* (Network, RouteInv).  Reading needs that columns of the folded network  *)
(* are those of the two butterflies in turned rows (Held, Reads).  That    *)
(* there is a permutation to route needs the powers of x to enumerate the  *)
(* places (Placing).                                                       *)
(*                                                                         *)
(* The second half takes this to the witness and the instance.  A place is *)
(* a spot: a row, a column and a layer side by side (Spot, At), and adding *)
(* two adds part by part.  What the writes leave is read back cell by cell *)
(* (Laid, Holding); neighbours are computed on spots, and the carries of a *)
(* multiplication by x are told by the coset (EdgePoint).  ReductionInv    *)
(* ties it to the stages of the reduction.                                 *)
(***************************************************************************)
EXTENDS BairToAcsp, NaturalLemmas

-----------------------------------------------------------------------------
(* Labels, their order and the pairs of rows. *)

\* The labels of n bits.
LabelsOf(n) == SUBSET (0..n - 1)

\* The greatest element of a nonempty set of numbers is in it.
LEMMA MaxOfSet ==
    ASSUME NEW n \in Nat, NEW S, S \subseteq 0..n - 1, S # {}
    PROVE  Max(S) \in S /\ \A y \in S : Max(S) >= y
<1>. DEFINE T == {m \in Nat : \A y \in S : m >= y}
<1>1. n \in T
  OBVIOUS
<1>2. PICK m \in T : \A j \in T : m <= j
  <2>1. T \subseteq Nat /\ T # {}
    BY <1>1
  <2>. HIDE DEF T
  <2>. QED  BY <2>1, LeastNatural
<1>3. m \in S
  <2>. SUFFICES ASSUME m \notin S PROVE FALSE
    OBVIOUS
  <2>1. PICK y \in S : y \in Nat /\ m # y
    <3>1. PICK y : y \in S
      OBVIOUS
    <3>. QED  BY <3>1
  <2>2. m - 1 \in T
    OBVIOUS
  <2>. HIDE DEF T
  <2>. QED  BY <2>2, <1>2, m \in Nat DEF T
<1>. QED  BY <1>3 DEF Max

\* Labels are compared at their greatest different bit.
LEMMA DifferenceOfLabels ==
    ASSUME NEW n \in Nat, NEW x \in LabelsOf(n), NEW y \in LabelsOf(n), x # y
    PROVE  /\ SymDiff(x, y) = SymDiff(y, x)
           /\ Max(SymDiff(x, y)) \in SymDiff(x, y) /\ Max(SymDiff(x, y)) \in 0..n - 1
           /\ \A b \in SymDiff(x, y) : Max(SymDiff(x, y)) >= b
<1>1. SymDiff(x, y) \subseteq 0..n - 1 /\ SymDiff(x, y) # {} /\ SymDiff(x, y) = SymDiff(y, x)
  BY DEF SymDiff, LabelsOf
<1>. QED  BY <1>1, MaxOfSet

\* Of two labels one is below the other, not both.
LEMMA BelowOneWay ==
    ASSUME NEW n \in Nat, NEW x \in LabelsOf(n), NEW y \in LabelsOf(n), Below(x, y)
    PROVE  ~Below(y, x)
BY DifferenceOfLabels DEF Below, SymDiff

\* The bit at which two labels last differ decides.
LEMMA BelowAtBit ==
    ASSUME NEW n \in Nat, NEW x \in LabelsOf(n), NEW y \in LabelsOf(n), NEW m \in 0..n - 1,
           m \in y, m \notin x, \A b \in 0..n - 1 : b > m => (b \in x <=> b \in y)
    PROVE  Below(x, y)
<1>. DEFINE g == Max(SymDiff(x, y))
<1>1. x # y /\ m \in SymDiff(x, y)
  BY DEF SymDiff
<1>2. g \in SymDiff(x, y) /\ g \in 0..n - 1 /\ g >= m
  BY <1>1, DifferenceOfLabels
<1>3. g = m
  <2>. HIDE DEF g
  <2>. QED  BY <1>2 DEF SymDiff
<1>. QED  BY <1>1, <1>3 DEF Below

\* The first of a set of labels is the one below all others.
LEMMA FirstIs ==
    ASSUME NEW n \in Nat, NEW S, S \subseteq LabelsOf(n), NEW r \in S,
           \A y \in S \ {r} : Below(r, y)
    PROVE  First(S) = r
<1>1. ASSUME NEW x \in S, \A y \in S \ {x} : Below(x, y) PROVE x = r
  BY <1>1, BelowOneWay
<1>. QED  BY <1>1 DEF First

\* A nonempty set of labels has its first in it.
LEMMA FirstLabel ==
    ASSUME NEW n \in Nat
    PROVE  \A S : S \subseteq LabelsOf(n) /\ S # {} => First(S) \in S
<1>. DEFINE Least(S) == \E x \in S : \A y \in S \ {x} : Below(x, y)
            T == {m \in Nat : \A S : S \subseteq LabelsOf(m) /\ S # {} => Least(S)}
<1>1. 0 \in T
  <2>. SUFFICES ASSUME NEW S, S \subseteq LabelsOf(0), S # {} PROVE Least(S)
    OBVIOUS
  <2>1. S = {{}}
    <3>1. LabelsOf(0) = {{}}
      BY DEF LabelsOf
    <3>. QED  BY <3>1
  <2>. QED  BY <2>1
<1>2. ASSUME NEW m \in Nat, m \in T PROVE m + 1 \in T
  <2>. SUFFICES ASSUME NEW S, S \subseteq LabelsOf(m + 1), S # {} PROVE Least(S)
    OBVIOUS
  <2>. DEFINE low == {x \in S : m \notin x}
  <2>1. CASE low # {}
    <3>1. low \subseteq LabelsOf(m)
      <4>. SUFFICES ASSUME NEW x \in low, NEW b \in x PROVE b \in 0..m - 1
        BY DEF LabelsOf
      <4>. b \in 0..(m + 1) - 1 /\ b # m
        BY DEF LabelsOf
      <4>. QED  OBVIOUS
    <3>2. PICK x \in low : \A y \in low \ {x} : Below(x, y)
      BY <2>1, <3>1, <1>2
    <3>3. ASSUME NEW y \in S, m \in y PROVE Below(x, y)
      <4>1. \A b \in 0..(m + 1) - 1 : ~(b > m)
        OBVIOUS
      <4>2. m \in 0..(m + 1) - 1 /\ m + 1 \in Nat /\ x \in LabelsOf(m + 1) /\ m \notin x
        OBVIOUS
      <4>. QED  BY <3>3, <4>1, <4>2, BelowAtBit
    <3>. QED  BY <3>2, <3>3
  <2>2. CASE low = {}
    <3>. DEFINE cut == {x \ {m} : x \in S}
    <3>1. cut \subseteq LabelsOf(m) /\ cut # {}
      <4>. SUFFICES ASSUME NEW x \in S, NEW b \in x \ {m} PROVE b \in 0..m - 1
        BY DEF LabelsOf
      <4>. b \in 0..(m + 1) - 1 /\ b # m
        BY DEF LabelsOf
      <4>. QED  OBVIOUS
    <3>2. PICK z \in cut : \A y \in cut \ {z} : Below(z, y)
      BY <3>1, <1>2
    <3>3. PICK x \in S : z = x \ {m}
      OBVIOUS
    <3>4. ASSUME NEW y \in S \ {x} PROVE Below(x, y)
      <4>1. m \in x /\ m \in y
        BY <2>2
      <4>2. x \ {m} # y \ {m} /\ SymDiff(x, y) = SymDiff(x \ {m}, y \ {m})
        BY <4>1 DEF SymDiff
      <4>3. Below(x \ {m}, y \ {m})
        BY <4>2, <3>2, <3>3
      <4>. QED  BY <4>2, <4>3 DEF Below
    <3>. QED  BY <3>4
  <2>. QED  BY <2>1, <2>2
<1>3. n \in T
  <2>. HIDE DEF T
  <2>. QED  BY <1>1, <1>2, SetInduction
<1>. SUFFICES ASSUME NEW S, S \subseteq LabelsOf(n), S # {} PROVE First(S) \in S
  OBVIOUS
<1>. QED  BY <1>3 DEF First

-----------------------------------------------------------------------------

\* The two rows of a pair differ in one bit: the upper one does not have it.
Flip(b, w)  == Plus(w, {b})
Upper(b, w) == w \ {b}
Lower(b, w) == w \cup {b}

\* What there is to say about pairs of rows.
PairFacts(b) ==
    /\ \A w : /\ Flip(b, Flip(b, w)) = w /\ Flip(b, w) # w
              /\ Upper(b, Flip(b, w)) = Upper(b, w) /\ Lower(b, Flip(b, w)) = Lower(b, w)
              /\ Upper(b, Upper(b, w)) = Upper(b, w) /\ Lower(b, Upper(b, w)) = Lower(b, w)
              /\ Upper(b, Lower(b, w)) = Upper(b, w) /\ Lower(b, Lower(b, w)) = Lower(b, w)
              /\ b \notin Upper(b, w) /\ b \in Lower(b, w)
              /\ Lower(b, w) = Flip(b, Upper(b, w)) /\ Upper(b, w) = Flip(b, Lower(b, w))
              /\ IF b \in w THEN w = Lower(b, w) /\ Flip(b, w) = Upper(b, w)
                            ELSE w = Upper(b, w) /\ Flip(b, w) = Lower(b, w)
    /\ \A w, u : /\ Upper(b, w) # Lower(b, u)
                 /\ Upper(b, w) = Upper(b, u) => u = w \/ u = Flip(b, w)
                 /\ Lower(b, w) = Lower(b, u) => u = w \/ u = Flip(b, w)

\* A row and its other row have the same upper and the same lower one, and
\* different rows of different pairs stay apart.
LEMMA PairOfRows == ASSUME NEW b PROVE PairFacts(b)
<1>1. \A w : Flip(b, w) = IF b \in w THEN w \ {b} ELSE w \cup {b}
  BY DEF Plus, SymDiff, Flip
<1>2. \A w : /\ Upper(b, Upper(b, w)) = Upper(b, w) /\ Lower(b, Upper(b, w)) = Lower(b, w)
             /\ Upper(b, Lower(b, w)) = Upper(b, w) /\ Lower(b, Lower(b, w)) = Lower(b, w)
             /\ b \notin Upper(b, w) /\ b \in Lower(b, w)
  BY DEF Upper, Lower
<1>3. \A w : IF b \in w THEN w = Lower(b, w) /\ Flip(b, w) = Upper(b, w)
                        ELSE w = Upper(b, w) /\ Flip(b, w) = Lower(b, w)
  BY <1>1 DEF Upper, Lower
<1>4. \A w : /\ Flip(b, Flip(b, w)) = w /\ Flip(b, w) # w
             /\ Upper(b, Flip(b, w)) = Upper(b, w) /\ Lower(b, Flip(b, w)) = Lower(b, w)
  BY <1>2, <1>3
<1>5. \A w, u : Upper(b, w) = Upper(b, u) => u = w \/ u = Flip(b, w)
  BY <1>2, <1>3
<1>6. \A w, u : Lower(b, w) = Lower(b, u) => u = w \/ u = Flip(b, w)
  BY <1>2, <1>3
<1>7. \A w, u : Upper(b, w) # Lower(b, u)
  BY <1>2
<1>8. \A w : Lower(b, w) = Flip(b, Upper(b, w)) /\ Upper(b, w) = Flip(b, Lower(b, w))
  BY <1>2, <1>3
<1>. QED  BY <1>2, <1>3, <1>4, <1>5, <1>6, <1>7, <1>8 DEF PairFacts

-----------------------------------------------------------------------------
(* One block of rows: what turns of the router do to it. *)

\* What the router relies on about a block of rows B: both outer columns, F and L,
\* hold the same packets there, each once, and the block has both rows of a pair.
Block(B, b, F, L) ==
    /\ \A w \in B : Flip(b, w) \in B
    /\ \A u, w \in B : F[u] = F[w] => u = w
    /\ \A u, w \in B : L[u] = L[w] => u = w
    /\ \A w \in B : \E u \in B : L[u] = F[w]
    /\ \A u \in B : \E w \in B : F[w] = L[u]

\* The rows R of the first column have been routed, those in up through the upper half.
Placed(B, b, F, L, G, H, R, up) ==
    /\ up \subseteq R /\ R \subseteq B
    /\ \A w \in R, u \in B : L[u] = F[w] =>
          IF w \in up THEN G[Upper(b, w)] = F[w] /\ H[Upper(b, u)] = F[w]
                      ELSE G[Lower(b, w)] = F[w] /\ H[Lower(b, u)] = F[w]
    /\ \A w \in R, v, u \in B : L[u] = F[w] /\ L[Flip(b, u)] = F[v] =>
          v \in R /\ (v \in up <=> w \notin up)
    /\ \A w \in R : Flip(b, w) \in R => (Flip(b, w) \in up <=> w \notin up)

\* The next row to route is the other end of the open chain, when one is open.
Open(b, R, up, s) ==
    LET next == Flip(b, s)
    IN  IF next \in R
        THEN next \notin up /\ \E s0 \in up : \A w \in R : Flip(b, w) \notin R <=> w \in {s0, next}
        ELSE \A w \in R : Flip(b, w) \in R

\* One turn: what src holds goes up, and what the row it found holds goes down.
Turn(B, b, F, G, H, s, t, d, G2, H2) ==
    /\ \A x \in B : x # Upper(b, s) /\ x # Lower(b, t) => G2[x] = G[x]
    /\ G2[Upper(b, s)] = F[s] /\ G2[Lower(b, t)] = F[t]
    /\ \A x \in B : x # Upper(b, d) /\ x # Lower(b, d) => H2[x] = H[x]
    /\ H2[Upper(b, d)] = F[s] /\ H2[Lower(b, d)] = F[t]

\* The row a turn finds for the packet going down has not been routed.
LEMMA TurnFresh ==
    ASSUME NEW B, NEW b, NEW F, NEW L, NEW G, NEW H, NEW R, NEW up, NEW s, NEW t, NEW d,
           Block(B, b, F, L), Placed(B, b, F, L, G, H, R, up), s \in B \ R,
           d \in B, L[d] = F[s], t \in B, F[t] = L[Flip(b, d)]
    PROVE  t \notin R /\ t # s
<1>0. PairFacts(b)
  BY PairOfRows
<1>1. /\ Flip(b, d) \in B /\ Flip(b, d) # d /\ Flip(b, Flip(b, d)) = d
  BY <1>0 DEF Block, PairFacts
<1>2. t # s
  BY <1>1 DEF Block
<1>3. ASSUME t \in R PROVE FALSE
  <2>1. s \in R
    BY <1>1, <1>3 DEF Placed
  <2>. QED  BY <2>1
<1>. QED  BY <1>2, <1>3

\* A turn places two more rows: src goes up, the row it found goes down.
LEMMA TurnPlaced ==
    ASSUME NEW B, NEW b, NEW F, NEW L, NEW G, NEW H, NEW R, NEW up, NEW s, NEW t, NEW d,
           Block(B, b, F, L), Placed(B, b, F, L, G, H, R, up), s \in B \ R, Open(b, R, up, s),
           d \in B, L[d] = F[s], t \in B, F[t] = L[Flip(b, d)],
           NEW G2, NEW H2, Turn(B, b, F, G, H, s, t, d, G2, H2)
    PROVE  Placed(B, b, F, L, G2, H2, R \cup {s, t}, up \cup {s})
<1>0. PairFacts(b)
  BY PairOfRows
<1>. DEFINE R2 == R \cup {s, t}
            up2 == up \cup {s}
<1>1. /\ Flip(b, d) \in B /\ Flip(b, d) # d /\ Flip(b, Flip(b, d)) = d
      /\ Lower(b, Flip(b, d)) = Lower(b, d) /\ Upper(b, Flip(b, d)) = Upper(b, d)
  BY <1>0 DEF Block, PairFacts
<1>2. t \notin R /\ t # s /\ s \notin R
  BY TurnFresh
<1>3. up2 \subseteq R2 /\ R2 \subseteq B /\ t \notin up2
  BY <1>2 DEF Placed
<1>4. ASSUME NEW w \in R2, NEW u \in B, L[u] = F[w]
      PROVE  IF w \in up2 THEN G2[Upper(b, w)] = F[w] /\ H2[Upper(b, u)] = F[w]
                         ELSE G2[Lower(b, w)] = F[w] /\ H2[Lower(b, u)] = F[w]
  <2>1. CASE w = s
    <3>1. u = d
      BY <2>1, <1>4 DEF Block
    <3>. QED  BY <2>1, <3>1, <1>4 DEF Turn
  <2>2. CASE w = t
    <3>1. u = Flip(b, d)
      BY <2>2, <1>4, <1>1 DEF Block
    <3>. QED  BY <2>2, <3>1, <1>3, <1>1, <1>4 DEF Turn
  <2>3. CASE w \in R /\ w # s /\ w # t
    <3>1. w \in up2 <=> w \in up
      BY <2>3
    <3>2. IF w \in up THEN G[Upper(b, w)] = F[w] /\ H[Upper(b, u)] = F[w]
                      ELSE G[Lower(b, w)] = F[w] /\ H[Lower(b, u)] = F[w]
      BY <2>3, <1>4 DEF Placed
    <3>3. w \in B /\ u # d /\ u # Flip(b, d)
      BY <2>3, <1>1, <1>4 DEF Block, Placed
    <3>. /\ Upper(b, u) \in B /\ Lower(b, u) \in B /\ Upper(b, w) \in B /\ Lower(b, w) \in B
      BY <3>3, <1>0 DEF Block, PairFacts
    <3>4. Upper(b, u) # Upper(b, d) /\ Upper(b, u) # Lower(b, d) /\ Lower(b, u) # Upper(b, d) /\ Lower(b, u) # Lower(b, d)
      BY <3>3, <1>0 DEF PairFacts
    <3>5. H2[Upper(b, u)] = H[Upper(b, u)] /\ H2[Lower(b, u)] = H[Lower(b, u)]
      BY <3>4 DEF Turn
    <3>6. CASE w \in up
      <4>1. w # Flip(b, s)
        BY <3>6, <2>3 DEF Open
      <4>2. Upper(b, w) # Upper(b, s) /\ Upper(b, w) # Lower(b, t)
        BY <4>1, <2>3, <1>0 DEF PairFacts
      <4>3. G2[Upper(b, w)] = G[Upper(b, w)]
        BY <4>2 DEF Turn
      <4>. QED  BY <4>3, <3>6, <3>1, <3>2, <3>5
    <3>7. CASE w \notin up
      <4>1. w # Flip(b, t)
        <5>. SUFFICES ASSUME w = Flip(b, t) PROVE FALSE
          OBVIOUS
        <5>1. Flip(b, w) = t
          BY <1>0 DEF PairFacts
        <5>2. Flip(b, w) \notin R
          BY <5>1, <1>2
        <5>3. w = Flip(b, s)
          BY <5>2, <2>3, <3>7 DEF Open
        <5>4. Flip(b, w) = s
          BY <5>3, <1>0 DEF PairFacts
        <5>. QED  BY <5>1, <5>4, <1>2
      <4>2. Lower(b, w) # Upper(b, s) /\ Lower(b, w) # Lower(b, t)
        BY <4>1, <2>3, <1>0 DEF PairFacts
      <4>3. G2[Lower(b, w)] = G[Lower(b, w)]
        BY <4>2 DEF Turn
      <4>. QED  BY <4>3, <3>7, <3>1, <3>2, <3>5
    <3>. QED  BY <3>6, <3>7
  <2>. QED  BY <2>1, <2>2, <2>3
<1>5. ASSUME NEW w \in R2, NEW v \in B, NEW u \in B, L[u] = F[w], L[Flip(b, u)] = F[v]
      PROVE  v \in R2 /\ (v \in up2 <=> w \notin up2)
  <2>1. CASE w = s
    <3>1. u = d
      BY <2>1, <1>5 DEF Block
    <3>2. v = t
      BY <3>1, <1>5 DEF Block
    <3>. QED  BY <2>1, <3>2, <1>3
  <2>2. CASE w = t
    <3>1. u = Flip(b, d)
      BY <2>2, <1>5, <1>1 DEF Block
    <3>2. v = s
      BY <3>1, <1>1, <1>5 DEF Block
    <3>. QED  BY <2>2, <3>2, <1>3
  <2>3. CASE w \in R /\ w # s /\ w # t
    <3>1. v \in R /\ (v \in up <=> w \notin up)
      BY <2>3, <1>5 DEF Placed
    <3>. QED  BY <3>1, <1>2, <2>3
  <2>. QED  BY <2>1, <2>2, <2>3
<1>6. ASSUME NEW w \in R2, Flip(b, w) \in R2
      PROVE  Flip(b, w) \in up2 <=> w \notin up2
  <2>. DEFINE v == Flip(b, w)
  <2>1. Flip(b, v) = w /\ v # w
    BY <1>0 DEF PairFacts
  <2>2. CASE w \in R /\ v \in R
    BY <2>2, <1>2, <1>6 DEF Placed
  <2>3. ASSUME NEW x \in R, x = Flip(b, s) PROVE x \notin up2
    BY <2>3, <1>2 DEF Open
  <2>4. ASSUME NEW x \in R, x = Flip(b, t) PROVE x \in up2
    <3>1. Flip(b, x) = t /\ x # Flip(b, s)
      <4>1. Flip(b, x) = t /\ Flip(b, Flip(b, s)) = s
        BY <2>4, <1>0 DEF PairFacts
      <4>. QED  BY <4>1, <1>2
    <3>. QED  BY <3>1, <1>2 DEF Open
  <2>. HIDE DEF v
  <2>5. CASE w \in {s, t} \/ v \in {s, t}
    BY <1>2, <1>3, <1>6, <2>1, <2>3, <2>4, <2>5 DEF v
  <2>. QED  BY <1>6, <2>2, <2>5 DEF v
<1>. QED  BY <1>3, <1>4, <1>5, <1>6 DEF Placed

\* The row the router goes on with after a turn is the other end of an open chain.
LEMMA TurnOpen ==
    ASSUME NEW B, NEW b, NEW F, NEW L, NEW G, NEW H, NEW R, NEW up, NEW s, NEW t,
           Placed(B, b, F, L, G, H, R, up), s \notin R, Open(b, R, up, s), t \notin R, t # s,
           NEW next, next \notin R \cup {s, t},
           next = Flip(b, t) \/ Flip(b, t) \in R \cup {s, t}
    PROVE  Open(b, R \cup {s, t}, up \cup {s}, next)
<1>0. PairFacts(b)
  BY PairOfRows
<1>. DEFINE R2 == R \cup {s, t}
            up2 == up \cup {s}
            st == Flip(b, s)
            tt == Flip(b, t)
            nt == Flip(b, next)
<1>1. /\ Flip(b, st) = s /\ Flip(b, tt) = t /\ Flip(b, nt) = next
      /\ st # s /\ tt # t /\ \A w : Flip(b, Flip(b, w)) = w
  BY <1>0 DEF PairFacts
<1>2. up \subseteq R
  BY DEF Placed
<1>. HIDE DEF st, tt, nt
<1>3. CASE tt \in R2
  <2>1. \A w \in R2 : Flip(b, w) \in R2
    <3>1. CASE st \in R
      <4>1. tt \in R
        BY <1>1, <1>3, <3>1 DEF st, tt
      <4>2. PICK s0 \in up : \A w \in R : Flip(b, w) \notin R <=> w \in {s0, st}
        BY <3>1 DEF Open, st
      <4>3. tt = s0
        BY <4>1, <4>2, <1>1 DEF st, tt
      <4>4. ASSUME NEW w \in R PROVE Flip(b, w) \in R2
        BY <1>1, <4>2, <4>3 DEF st, tt
      <4>. QED  BY <4>1, <4>4, <3>1 DEF st, tt
    <3>2. CASE st \notin R
      <4>1. \A w \in R : Flip(b, w) \in R
        BY <3>2 DEF Open, st
      <4>2. tt = s
        BY <4>1, <1>1, <1>3 DEF tt
      <4>. QED  BY <4>1, <4>2, <1>1 DEF tt
    <3>. QED  BY <3>1, <3>2
  <2>2. nt \notin R2
    BY <2>1, <1>1 DEF nt
  <2>. QED  BY <2>1, <2>2 DEF Open, nt
<1>4. CASE tt \notin R2
  <2>1. next = tt /\ nt = t
    BY <1>4, <1>1 DEF tt, nt
  <2>2. t \notin up2
    BY <1>2
  <2>3. \E s0 \in up2 : \A w \in R2 : Flip(b, w) \notin R2 <=> w \in {s0, t}
    <3>1. CASE st \in R
      <4>1. PICK s0 \in up : \A w \in R : Flip(b, w) \notin R <=> w \in {s0, st}
        BY <3>1 DEF Open, st
      <4>2. st # s0
        BY <3>1, <4>1 DEF Open, st
      <4>3. ASSUME NEW w \in R2 PROVE Flip(b, w) \notin R2 <=> w \in {s0, t}
        <5>1. CASE w = s
          BY <5>1, <3>1, <1>2, <4>1 DEF st
        <5>2. CASE w = t
          BY <5>2, <1>4 DEF tt
        <5>3. CASE w \in R /\ w # s /\ w # t
          <6>1. Flip(b, w) # t
            BY <1>1, <1>4, <5>3 DEF tt
          <6>2. Flip(b, w) = s => w = st
            BY <1>1 DEF st
          <6>3. w = st => Flip(b, w) = s
            BY <1>1
          <6>. QED  BY <6>1, <6>2, <6>3, <5>3, <4>1, <4>2
        <5>. QED  BY <5>1, <5>2, <5>3
      <4>. QED  BY <4>3
    <3>2. CASE st \notin R
      <4>1. \A w \in R : Flip(b, w) \in R
        BY <3>2 DEF Open, st
      <4>2. st # t
        BY <1>1, <1>4 DEF tt
      <4>3. ASSUME NEW w \in R2 PROVE Flip(b, w) \notin R2 <=> w \in {s, t}
        BY <4>1, <4>2, <1>1, <1>4, <3>2 DEF st, tt
      <4>. QED  BY <4>3
    <3>. QED  BY <3>1, <3>2
  <2>. QED  BY <2>1, <2>2, <2>3 DEF Open, nt
<1>. QED  BY <1>3, <1>4

\* A pair of rows goes straight on or is crossed.
Switch(F, G, b, w) ==
    \/ G[Upper(b, w)] = F[Upper(b, w)] /\ G[Lower(b, w)] = F[Lower(b, w)]
    \/ G[Upper(b, w)] = F[Lower(b, w)] /\ G[Lower(b, w)] = F[Upper(b, w)]

\* Once every row of a block is placed, the pairs of both columns are switches,
\* and each half of the block holds the same packets on both sides.
LEMMA AllPlaced ==
    ASSUME NEW B, NEW b, NEW F, NEW L, NEW G, NEW H, NEW up,
           Block(B, b, F, L), Placed(B, b, F, L, G, H, B, up)
    PROVE  /\ \A w \in B : Switch(F, G, b, w) /\ Switch(L, H, b, w)
           /\ \A w \in B : \E u \in B : (b \in u <=> b \in w) /\ H[u] = G[w]
           /\ \A u \in B : \E w \in B : (b \in u <=> b \in w) /\ G[w] = H[u]
<1>0. PairFacts(b)
  BY PairOfRows
<1>1. \A w : /\ Flip(b, w) # w /\ Flip(b, Flip(b, w)) = w
             /\ Upper(b, Flip(b, w)) = Upper(b, w) /\ Lower(b, Flip(b, w)) = Lower(b, w)
             /\ IF b \in w THEN w = Lower(b, w) /\ Flip(b, w) = Upper(b, w)
                           ELSE w = Upper(b, w) /\ Flip(b, w) = Lower(b, w)
  BY <1>0 DEF PairFacts
<1>2. \A w \in B : Upper(b, w) \in B /\ Lower(b, w) \in B
  BY <1>1 DEF Block
\* What was routed: one packet of a pair of either column went up, the other down.
<1>3. ASSUME NEW w \in B, NEW u \in B, L[u] = F[w]
      PROVE  IF w \in up THEN G[Upper(b, w)] = F[w] /\ H[Upper(b, u)] = F[w]
                         ELSE G[Lower(b, w)] = F[w] /\ H[Lower(b, u)] = F[w]
  BY <1>3 DEF Placed
<1>4. ASSUME NEW w \in B PROVE Switch(F, G, b, w)
  <2>. DEFINE x == Upper(b, w)
              y == Lower(b, w)
  <2>1. x \in B /\ y \in B /\ y = Flip(b, x) /\ Upper(b, x) = x /\ Upper(b, y) = x /\ Lower(b, x) = y /\ Lower(b, y) = y
    <3>1. y = Flip(b, x)
      BY <1>1, <1>0 DEF PairFacts
    <3>. QED  BY <3>1, <1>2, <1>0 DEF PairFacts
  <2>2. y \in up <=> x \notin up
    BY <2>1 DEF Placed
  <2>3. PICK p \in B, q \in B : L[p] = F[x] /\ L[q] = F[y]
    BY <2>1 DEF Block
  <2>. HIDE DEF x, y
  <2>4. Switch(F, G, b, w) <=> (G[x] = F[x] /\ G[y] = F[y]) \/ (G[x] = F[y] /\ G[y] = F[x])
    BY DEF Switch, x, y
  <2>. QED  BY <2>1, <2>2, <2>3, <2>4, <1>3
<1>5. ASSUME NEW w \in B PROVE Switch(L, H, b, w)
  <2>. DEFINE x == Upper(b, w)
              y == Lower(b, w)
  <2>1. x \in B /\ y \in B /\ y = Flip(b, x) /\ Upper(b, x) = x /\ Upper(b, y) = x /\ Lower(b, x) = y /\ Lower(b, y) = y
    <3>1. y = Flip(b, x)
      BY <1>1, <1>0 DEF PairFacts
    <3>. QED  BY <3>1, <1>2, <1>0 DEF PairFacts
  <2>2. PICK p \in B, q \in B : F[p] = L[x] /\ F[q] = L[y]
    BY <2>1 DEF Block
  <2>. HIDE DEF x, y
  <2>3. q \in up <=> p \notin up
    BY <2>1, <2>2 DEF Placed
  <2>4. Switch(L, H, b, w) <=> (H[x] = L[x] /\ H[y] = L[y]) \/ (H[x] = L[y] /\ H[y] = L[x])
    BY DEF Switch, x, y
  <2>. QED  BY <2>1, <2>2, <2>3, <2>4, <1>3
\* Every row of G holds what one of the pair of F had there, and likewise for H.
<1>6. ASSUME NEW x \in B
      PROVE  \E w \in B : (w \in up <=> b \notin x) /\ G[x] = F[w]
  <2>. DEFINE y == Flip(b, x)
  <2>1. y \in B /\ (y \in up <=> x \notin up)
    BY DEF Placed, Block
  <2>2. PICK w \in {x, y} : w \in up <=> b \notin x
    BY <2>1
  <2>3. PICK p \in B : L[p] = F[w]
    BY <2>1 DEF Block
  <2>4. IF b \in x THEN Lower(b, w) = x ELSE Upper(b, w) = x
    BY <1>1
  <2>. QED  BY <2>1, <2>2, <2>3, <2>4, <1>3
<1>7. ASSUME NEW x \in B
      PROVE  \E w \in B : (w \in up <=> b \notin x) /\ H[x] = F[w]
  <2>. DEFINE y == Flip(b, x)
  <2>1. y \in B /\ y # x
    BY <1>1 DEF Block
  <2>2. PICK p \in B, q \in B : F[p] = L[x] /\ F[q] = L[y]
    BY <2>1 DEF Block
  <2>3. q \in up <=> p \notin up
    BY <2>1, <2>2 DEF Placed
  <2>4. PICK v \in {x, y}, w \in {p, q} : (w \in up <=> b \notin x) /\ F[w] = L[v]
    BY <2>2, <2>3
  <2>5. IF b \in x THEN Lower(b, v) = x ELSE Upper(b, v) = x
    BY <1>1
  <2>. QED  BY <2>1, <2>2, <2>4, <2>5, <1>3
\* One row in each half holds a packet that went there.
<1>8. ASSUME NEW w \in B
      PROVE  \E x, u \in B : /\ (b \in x <=> w \notin up) /\ G[x] = F[w]
                             /\ (b \in u <=> w \notin up) /\ H[u] = F[w]
  <2>1. PICK p \in B : L[p] = F[w]
    BY DEF Block
  <2>. DEFINE x == IF w \in up THEN Upper(b, w) ELSE Lower(b, w)
              u == IF w \in up THEN Upper(b, p) ELSE Lower(b, p)
  <2>2. x \in B /\ u \in B /\ (b \in x <=> w \notin up) /\ (b \in u <=> w \notin up)
    BY <1>2, <1>0 DEF PairFacts
  <2>3. G[x] = F[w] /\ H[u] = F[w]
    BY <2>1, <1>3
  <2>. QED  BY <2>2, <2>3
<1>9. ASSUME NEW x \in B PROVE \E u \in B : (b \in u <=> b \in x) /\ H[u] = G[x]
  <2>1. PICK w \in B : (w \in up <=> b \notin x) /\ G[x] = F[w]
    BY <1>6
  <2>2. PICK u \in B : (b \in u <=> w \notin up) /\ H[u] = F[w]
    BY <1>8
  <2>. QED  BY <2>1, <2>2
<1>10. ASSUME NEW x \in B PROVE \E u \in B : (b \in x <=> b \in u) /\ G[u] = H[x]
  <2>1. PICK w \in B : (w \in up <=> b \notin x) /\ H[x] = F[w]
    BY <1>7
  <2>2. PICK u \in B : (b \in u <=> w \notin up) /\ G[u] = F[w]
    BY <1>8
  <2>. QED  BY <2>1, <2>2
<1>. QED  BY <1>4, <1>5, <1>9, <1>10

-----------------------------------------------------------------------------
(* The calls that are left, and the columns that are ready for them. *)

\* The bits of a row that calls of degree d and above look at, the rows of a call,
\* and the calls there are.
High(w, d) == {b \in w : b >= d}
RowsOf(n, c) == {w \in LabelsOf(n) : High(w, c.current_k) = c.offset}
CallsOf(n) == {c \in [current_k : 1..n, offset : LabelsOf(n)] : \A b \in c.offset : b >= c.current_k}

\* The calls that are left route different rows, from the first to the last.
StackOf(n, stack) ==
    /\ stack \in Seq(CallsOf(n))
    /\ \A i, j \in 1..Len(stack) : i < j =>
          \A u \in RowsOf(n, stack[i]), w \in RowsOf(n, stack[j]) : Below(u, w)

\* The column of level d holds at row w what it will hold at the end.
Ready(n, todo, w, d) == \A c \in todo : w \in RowsOf(n, c) => c.current_k <= d

\* The columns of a butterfly.
Columns(n) == [0..n -> [LabelsOf(n) -> LabelsOf(n)]]

\* Level d of the two butterflies, where it is ready: each packet is there once, the
\* blocks of d bits hold the same packets in both, and the pairs of rows of the level
\* below are switched.
Wires(n, todo, A, Z) ==
    \A d \in 1..n :
       /\ \A u, w \in LabelsOf(n) : Ready(n, todo, u, d) /\ Ready(n, todo, w, d) =>
             (A[d][u] = A[d][w] => u = w) /\ (Z[d][u] = Z[d][w] => u = w)
       /\ \A w \in LabelsOf(n) : Ready(n, todo, w, d) =>
             /\ \E u \in LabelsOf(n) : High(u, d) = High(w, d) /\ Z[d][u] = A[d][w]
             /\ \E u \in LabelsOf(n) : High(u, d) = High(w, d) /\ A[d][u] = Z[d][w]
       /\ \A w \in LabelsOf(n) : Ready(n, todo, w, d - 1) =>
             Switch(A[d], A[d - 1], d - 1, w) /\ Switch(Z[d], Z[d - 1], d - 1, w)

\* Rows that agree from a bit on agree from a later one on; changing a bit below
\* leaves the bits above alone.
LEMMA HighFacts ==
    ASSUME NEW n \in Nat, NEW u \in LabelsOf(n), NEW w \in LabelsOf(n)
    PROVE  /\ \A d, e \in Nat : d <= e /\ High(u, d) = High(w, d) => High(u, e) = High(w, e)
           /\ \A d \in Nat : High(u, d + 1) = High(w, d + 1) /\ (d \in u <=> d \in w) => High(u, d) = High(w, d)
           /\ \A d, b \in Nat : b < d => /\ High(Upper(b, w), d) = High(w, d)
                                         /\ High(Lower(b, w), d) = High(w, d)
                                         /\ High(Flip(b, w), d) = High(w, d)
           /\ \A b \in 0..n - 1 : /\ Upper(b, w) \in LabelsOf(n) /\ Lower(b, w) \in LabelsOf(n)
                                  /\ Flip(b, w) \in LabelsOf(n)
<1>0. \A b \in u \cup w : b \in Int
  BY DEF LabelsOf
<1>1. ASSUME NEW d \in Nat, NEW e \in Nat, d <= e, High(u, d) = High(w, d) PROVE High(u, e) = High(w, e)
  <2>1. ASSUME NEW b PROVE b \in High(u, e) <=> b \in High(w, e)
    <3>1. b \in u /\ b >= e <=> b \in High(u, d) /\ b >= e
      BY <1>0, <1>1 DEF High
    <3>2. b \in w /\ b >= e <=> b \in High(w, d) /\ b >= e
      BY <1>0, <1>1 DEF High
    <3>. QED  BY <3>1, <3>2, <1>1 DEF High
  <2>. QED  BY <2>1
<1>2. ASSUME NEW d \in Nat, High(u, d + 1) = High(w, d + 1), d \in u <=> d \in w PROVE High(u, d) = High(w, d)
  <2>1. ASSUME NEW b PROVE b \in High(u, d) <=> b \in High(w, d)
    <3>1. b \in u /\ b >= d <=> b \in High(u, d + 1) \/ (b = d /\ d \in u)
      BY <1>0 DEF High
    <3>2. b \in w /\ b >= d <=> b \in High(w, d + 1) \/ (b = d /\ d \in w)
      BY <1>0 DEF High
    <3>. QED  BY <3>1, <3>2, <1>2 DEF High
  <2>. QED  BY <2>1
<1>3. ASSUME NEW d \in Nat, NEW b \in Nat, b < d
      PROVE  High(Upper(b, w), d) = High(w, d) /\ High(Lower(b, w), d) = High(w, d)
  BY <1>3, <1>0 DEF High, Upper, Lower
<1>4. ASSUME NEW b PROVE Flip(b, w) = IF b \in w THEN Upper(b, w) ELSE Lower(b, w)
  <2>1. PairFacts(b)
    BY PairOfRows
  <2>. QED  BY <2>1 DEF PairFacts
<1>5. ASSUME NEW b \in 0..n - 1
      PROVE  Upper(b, w) \in LabelsOf(n) /\ Lower(b, w) \in LabelsOf(n)
  BY DEF Upper, Lower, LabelsOf
<1>. QED  BY <1>1, <1>2, <1>3, <1>4, <1>5

\* The row with a packet is found: rows that are not written yet come later.
RowWith(n, col, p) == First({w \in LabelsOf(n) : col[w] = p})

\* The first row that holds a packet is the one the packet was read from.
LEMMA FoundRow ==
    ASSUME NEW n \in Nat, NEW col, NEW d \in LabelsOf(n),
           \A w \in LabelsOf(n) : w # d /\ col[w] = col[d] => Below(d, w)
    PROVE  RowWith(n, col, col[d]) = d
<1>. DEFINE S == {w \in LabelsOf(n) : col[w] = col[d]}
<1>1. d \in S /\ S \subseteq LabelsOf(n) /\ \A y \in S \ {d} : Below(d, y)
  OBVIOUS
<1>. QED  BY <1>1, FirstIs DEF RowWith

-----------------------------------------------------------------------------

\* What the first call owns of the network, and what the others do.
Owned(n, todo, rest, c) ==
    /\ \A w \in RowsOf(n, c) : \A d \in 0..n : /\ Ready(n, todo, w, d) <=> c.current_k <= d
                                               /\ Ready(n, rest, w, d)
    /\ \A w \in LabelsOf(n) \ RowsOf(n, c) : \A d \in 0..n : Ready(n, todo, w, d) <=> Ready(n, rest, w, d)

\* The rows of the first call are its own, and come before those of the others.
LEMMA HeadOwns ==
    ASSUME NEW n \in Nat, NEW stack, StackOf(n, stack), stack # <<>>
    PROVE  /\ Head(stack) \in CallsOf(n) /\ StackOf(n, Tail(stack))
           /\ Owned(n, Range(stack), Range(Tail(stack)), Head(stack))
           /\ \A c \in Range(Tail(stack)) : \A u \in RowsOf(n, Head(stack)), w \in RowsOf(n, c) : Below(u, w)
<1>. DEFINE rest == Tail(stack)
            c == Head(stack)
<1>1. /\ stack \in Seq(CallsOf(n)) /\ Len(stack) \in Nat /\ Len(stack) >= 1 /\ c = stack[1] /\ c \in CallsOf(n)
      /\ rest \in Seq(CallsOf(n)) /\ Len(rest) = Len(stack) - 1
      /\ \A i \in 1..Len(rest) : rest[i] = stack[i + 1] /\ i + 1 \in 1..Len(stack)
      /\ DOMAIN stack = 1..Len(stack) /\ DOMAIN rest = 1..Len(rest)
  BY DEF StackOf
<1>. HIDE DEF rest, c
<1>2. Range(stack) = {c} \cup Range(rest)
  <2>1. ASSUME NEW x \in Range(stack) PROVE x \in {c} \cup Range(rest)
    <3>1. PICK i \in 1..Len(stack) : x = stack[i]
      BY <1>1 DEF Range
    <3>2. i # 1 => i - 1 \in 1..Len(rest) /\ rest[i - 1] = stack[i]
      BY <1>1
    <3>. QED  BY <3>1, <3>2, <1>1 DEF Range
  <2>2. ASSUME NEW i \in 1..Len(rest) PROVE rest[i] \in Range(stack)
    BY <1>1 DEF Range
  <2>3. c \in Range(stack)
    <3>1. 1 \in DOMAIN stack
      BY <1>1
    <3>. QED  BY <3>1, <1>1 DEF Range
  <2>. QED  BY <2>1, <2>2, <2>3, <1>1 DEF Range
<1>3. ASSUME NEW x \in Range(rest), NEW u \in RowsOf(n, c), NEW w \in RowsOf(n, x) PROVE Below(u, w)
  <2>1. PICK i \in 1..Len(rest) : x = rest[i]
    BY <1>1 DEF Range
  <2>2. x = stack[i + 1] /\ 1 < i + 1 /\ 1 \in 1..Len(stack) /\ i + 1 \in 1..Len(stack)
    BY <2>1, <1>1
  <2>. QED  BY <2>2, <1>1 DEF StackOf
<1>4. StackOf(n, rest)
  <2>. SUFFICES ASSUME NEW i \in 1..Len(rest), NEW j \in 1..Len(rest), i < j
                PROVE  \A u \in RowsOf(n, rest[i]), w \in RowsOf(n, rest[j]) : Below(u, w)
    BY <1>1 DEF StackOf
  <2>1. rest[i] = stack[i + 1] /\ rest[j] = stack[j + 1] /\ i + 1 < j + 1
        /\ i + 1 \in 1..Len(stack) /\ j + 1 \in 1..Len(stack)
    BY <1>1
  <2>. QED  BY <2>1 DEF StackOf
<1>5. ASSUME NEW w \in RowsOf(n, c), NEW x \in Range(rest) PROVE w \notin RowsOf(n, x)
  BY <1>3 DEF Below
<1>. QED  BY <1>1, <1>2, <1>3, <1>4, <1>5 DEF Owned, Ready, rest, c

-----------------------------------------------------------------------------
(* Running a call leaves alone what was ready, and ending it makes more so. *)

\* Switched pairs keep packets apart.
LEMMA SwitchInjective ==
    ASSUME NEW b, NEW F, NEW G, NEW u, NEW w, Switch(F, G, b, u), Switch(F, G, b, w),
           \A x \in {Upper(b, u), Lower(b, u)}, y \in {Upper(b, w), Lower(b, w)} : F[x] = F[y] => x = y,
           \A x, y \in {Upper(b, w), Lower(b, w)} : F[x] = F[y] => x = y,
           G[u] = G[w]
    PROVE  u = w
<1>0. PairFacts(b)
  BY PairOfRows
<1>. DEFINE ul == Upper(b, u)
            uh == Lower(b, u)
            wl == Upper(b, w)
            wh == Lower(b, w)
<1>1. u \in {ul, uh} /\ w \in {wl, wh} /\ wl # wh /\ ul # wh /\ wl # uh
  BY <1>0 DEF PairFacts
<1>2. /\ (G[ul] = F[ul] /\ G[uh] = F[uh]) \/ (G[ul] = F[uh] /\ G[uh] = F[ul])
      /\ (G[wl] = F[wl] /\ G[wh] = F[wh]) \/ (G[wl] = F[wh] /\ G[wh] = F[wl])
  BY DEF Switch
<1>3. ul = wl <=> uh = wh
  <2>1. ul = wl => uh = wh
    BY <1>0 DEF PairFacts
  <2>2. uh = wh => ul = wl
    BY <1>0 DEF PairFacts
  <2>. QED  BY <2>1, <2>2
<1>. HIDE DEF ul, uh, wl, wh
<1>4. /\ F[ul] = F[wl] => ul = wl
      /\ F[ul] # F[wh] /\ F[uh] # F[wl]
      /\ F[uh] = F[wh] => uh = wh
      /\ F[wl] # F[wh]
  BY <1>1 DEF ul, uh, wl, wh
<1>. QED  BY <1>1, <1>2, <1>3, <1>4

\* A row that is ready at a level makes its pair ready at the level above.
LEMMA ReadyPair ==
    ASSUME NEW n \in Nat, NEW todo, todo \subseteq CallsOf(n), NEW u \in LabelsOf(n), NEW w \in LabelsOf(n),
           NEW d \in Nat, Ready(n, todo, w, d), High(u, d + 1) = High(w, d + 1)
    PROVE  Ready(n, todo, u, d + 1)
<1>. SUFFICES ASSUME NEW c \in todo, u \in RowsOf(n, c), ~(c.current_k <= d + 1) PROVE FALSE
  BY DEF Ready
<1>1. c.current_k \in Nat /\ d + 1 <= c.current_k /\ ~(c.current_k <= d)
  BY DEF CallsOf
<1>2. High(u, c.current_k) = High(w, c.current_k)
  BY <1>1, HighFacts
<1>. QED  BY <1>1, <1>2 DEF RowsOf, Ready

\* A call that runs writes to the level below, in its own rows.
Writes(n, c, A, Z, A2, Z2) ==
    /\ A \in Columns(n) /\ Z \in Columns(n)
    /\ \A d \in 0..n : d # c.current_k - 1 => A2[d] = A[d] /\ Z2[d] = Z[d]
    /\ \A w \in LabelsOf(n) \ RowsOf(n, c) : /\ A2[c.current_k - 1][w] = A[c.current_k - 1][w]
                                             /\ Z2[c.current_k - 1][w] = Z[c.current_k - 1][w]

\* The rows of a call have both rows of a pair, or none.
LEMMA RowsPaired ==
    ASSUME NEW n \in Nat, NEW c \in CallsOf(n), NEW b \in Nat, b < c.current_k, NEW w \in LabelsOf(n)
    PROVE  /\ b \in 0..n - 1
           /\ Upper(b, w) \in LabelsOf(n) /\ Lower(b, w) \in LabelsOf(n) /\ Flip(b, w) \in LabelsOf(n)
           /\ w \in RowsOf(n, c) <=> Upper(b, w) \in RowsOf(n, c)
           /\ w \in RowsOf(n, c) <=> Lower(b, w) \in RowsOf(n, c)
           /\ w \in RowsOf(n, c) <=> Flip(b, w) \in RowsOf(n, c)
<1>1. c.current_k \in 1..n /\ b \in 0..n - 1
  BY DEF CallsOf
<1>2. /\ \A d, e \in Nat : e < d => /\ High(Upper(e, w), d) = High(w, d)
                                  /\ High(Lower(e, w), d) = High(w, d)
                                  /\ High(Flip(e, w), d) = High(w, d)
      /\ \A e \in 0..n - 1 : /\ Upper(e, w) \in LabelsOf(n) /\ Lower(e, w) \in LabelsOf(n)
                             /\ Flip(e, w) \in LabelsOf(n)
  BY HighFacts
<1>. QED  BY <1>1, <1>2 DEF RowsOf

\* While it has not finished, nothing that was ready changes.
LEMMA WiresKept ==
    ASSUME NEW n \in Nat, NEW todo, todo \subseteq CallsOf(n), NEW c \in todo,
           NEW A, NEW Z, NEW A2, NEW Z2, Wires(n, todo, A, Z), Writes(n, c, A, Z, A2, Z2)
    PROVE  Wires(n, todo, A2, Z2)
<1>. DEFINE m == c.current_k
<1>0. m \in 1..n
  BY DEF CallsOf
<1>. HIDE DEF m
<1>1. ASSUME NEW w \in LabelsOf(n), NEW d \in 0..n, Ready(n, todo, w, d)
      PROVE  A2[d][w] = A[d][w] /\ Z2[d][w] = Z[d][w]
  BY <1>1, <1>0 DEF Writes, Ready, m
<1>. SUFFICES ASSUME NEW d \in 1..n
              PROVE  /\ \A u, w \in LabelsOf(n) : Ready(n, todo, u, d) /\ Ready(n, todo, w, d) =>
                           (A2[d][u] = A2[d][w] => u = w) /\ (Z2[d][u] = Z2[d][w] => u = w)
                     /\ \A w \in LabelsOf(n) : Ready(n, todo, w, d) =>
                           /\ \E u \in LabelsOf(n) : High(u, d) = High(w, d) /\ Z2[d][u] = A2[d][w]
                           /\ \E u \in LabelsOf(n) : High(u, d) = High(w, d) /\ A2[d][u] = Z2[d][w]
                     /\ \A w \in LabelsOf(n) : Ready(n, todo, w, d - 1) =>
                           Switch(A2[d], A2[d - 1], d - 1, w) /\ Switch(Z2[d], Z2[d - 1], d - 1, w)
  BY DEF Wires
<1>2. ASSUME NEW u \in LabelsOf(n), NEW w \in LabelsOf(n), High(u, d) = High(w, d), Ready(n, todo, w, d)
      PROVE  Ready(n, todo, u, d)
  <2>. SUFFICES ASSUME NEW x \in todo, u \in RowsOf(n, x), ~(x.current_k <= d) PROVE FALSE
    BY DEF Ready
  <2>1. x.current_k \in Nat /\ d <= x.current_k /\ ~(x.current_k <= d)
    BY DEF CallsOf
  <2>2. High(u, x.current_k) = High(w, x.current_k)
    BY <1>2, <2>1, HighFacts
  <2>. QED  BY <1>2, <2>1, <2>2 DEF RowsOf, Ready
<1>3. ASSUME NEW u \in LabelsOf(n), NEW w \in LabelsOf(n), Ready(n, todo, u, d), Ready(n, todo, w, d)
      PROVE  (A2[d][u] = A2[d][w] => u = w) /\ (Z2[d][u] = Z2[d][w] => u = w)
  BY <1>1, <1>3 DEF Wires
<1>4. ASSUME NEW w \in LabelsOf(n), Ready(n, todo, w, d)
      PROVE  /\ \E u \in LabelsOf(n) : High(u, d) = High(w, d) /\ Z2[d][u] = A2[d][w]
             /\ \E u \in LabelsOf(n) : High(u, d) = High(w, d) /\ A2[d][u] = Z2[d][w]
  <2>1. /\ \E u \in LabelsOf(n) : High(u, d) = High(w, d) /\ Z[d][u] = A[d][w]
        /\ \E u \in LabelsOf(n) : High(u, d) = High(w, d) /\ A[d][u] = Z[d][w]
    BY <1>4 DEF Wires
  <2>. QED  BY <2>1, <1>1, <1>2, <1>4
<1>5. ASSUME NEW w \in LabelsOf(n), Ready(n, todo, w, d - 1)
      PROVE  Switch(A2[d], A2[d - 1], d - 1, w) /\ Switch(Z2[d], Z2[d - 1], d - 1, w)
  <2>1. Switch(A[d], A[d - 1], d - 1, w) /\ Switch(Z[d], Z[d - 1], d - 1, w)
    BY <1>5 DEF Wires
  <2>2. d - 1 \in 0..n /\ d - 1 \in Nat /\ (w \in RowsOf(n, c) => m <= d - 1)
    BY <1>5 DEF Ready, m
  <2>3. ASSUME NEW x \in {Upper(d - 1, w), Lower(d - 1, w)}
        PROVE  /\ A2[d][x] = A[d][x] /\ A2[d - 1][x] = A[d - 1][x]
               /\ Z2[d][x] = Z[d][x] /\ Z2[d - 1][x] = Z[d - 1][x]
    <3>1. x \in LabelsOf(n)
      BY HighFacts
    <3>2. CASE m - 1 \notin {d, d - 1}
      BY <3>2, <2>2 DEF Writes, m
    <3>3. CASE m - 1 \in {d, d - 1}
      <4>1. d - 1 < m /\ w \notin RowsOf(n, c)
        BY <3>3, <2>2, <1>0
      <4>2. x \notin RowsOf(n, c)
        BY <4>1, <2>2, RowsPaired DEF m
      <4>. QED  BY <3>1, <4>2, <2>2 DEF Writes, m
    <3>. QED  BY <3>2, <3>3
  <2>. QED  BY <2>1, <2>3 DEF Switch
<1>. QED  BY <1>3, <1>4, <1>5

\* When it has finished, its rows are ready one level below.
Finished(n, todo, todo2, c, A, Z, A2, Z2) ==
    LET m == c.current_k
        B == RowsOf(n, c)
    IN  /\ \A w \in B, d \in 0..n : Ready(n, todo, w, d) <=> m <= d
        /\ \A w \in B, d \in 0..n : Ready(n, todo2, w, d) <=> m - 1 <= d
        /\ \A w \in LabelsOf(n) \ B, d \in 0..n : Ready(n, todo2, w, d) <=> Ready(n, todo, w, d)
        /\ \A w \in B : Switch(A[m], A2[m - 1], m - 1, w) /\ Switch(Z[m], Z2[m - 1], m - 1, w)
        /\ m > 1 => \A w \in B :
              /\ \E u \in LabelsOf(n) : High(u, m - 1) = High(w, m - 1) /\ Z2[m - 1][u] = A2[m - 1][w]
              /\ \E u \in LabelsOf(n) : High(u, m - 1) = High(w, m - 1) /\ A2[m - 1][u] = Z2[m - 1][w]

\* A call that has finished makes its rows ready one level down, and the wires hold.
LEMMA WiresDone ==
    ASSUME NEW n \in Nat, NEW todo, todo \subseteq CallsOf(n), NEW c \in todo, NEW todo2,
           NEW A, NEW Z, NEW A2, NEW Z2, Wires(n, todo, A, Z), Writes(n, c, A, Z, A2, Z2),
           Finished(n, todo, todo2, c, A, Z, A2, Z2)
    PROVE  Wires(n, todo2, A2, Z2)
<1>. DEFINE m == c.current_k
            l == m - 1
<1>. /\ \A w \in RowsOf(n, c), d \in 0..n : Ready(n, todo, w, d) <=> m <= d
     /\ \A w \in RowsOf(n, c), d \in 0..n : Ready(n, todo2, w, d) <=> l <= d
     /\ \A w \in LabelsOf(n) \ RowsOf(n, c), d \in 0..n : Ready(n, todo2, w, d) <=> Ready(n, todo, w, d)
     /\ \A w \in RowsOf(n, c) : Switch(A[m], A2[l], l, w) /\ Switch(Z[m], Z2[l], l, w)
     /\ m > 1 => \A w \in RowsOf(n, c) :
           /\ \E u \in LabelsOf(n) : High(u, l) = High(w, l) /\ Z2[l][u] = A2[l][w]
           /\ \E u \in LabelsOf(n) : High(u, l) = High(w, l) /\ A2[l][u] = Z2[l][w]
  BY DEF Finished
<1>0. m \in 1..n /\ l \in 0..n - 1 /\ l \in Nat /\ m = l + 1
  BY DEF CallsOf
<1>1. Wires(n, todo, A2, Z2)
  BY WiresKept
<1>2. ASSUME NEW w \in LabelsOf(n), NEW d \in 0..n
      PROVE  d # l => (Ready(n, todo2, w, d) <=> Ready(n, todo, w, d))
  BY <1>0
<1>. HIDE DEF m, l
<1>3. A2[m] = A[m] /\ Z2[m] = Z[m]
  BY <1>0 DEF Writes, m, l
<1>4. ASSUME NEW w \in LabelsOf(n), Ready(n, todo2, w, l)
      PROVE  /\ Switch(A2[m], A2[l], l, w) /\ Switch(Z2[m], Z2[l], l, w)
             /\ Upper(l, w) \in LabelsOf(n) /\ Ready(n, todo, Upper(l, w), m)
             /\ Lower(l, w) \in LabelsOf(n) /\ Ready(n, todo, Lower(l, w), m)
  <2>1. /\ Upper(l, w) \in LabelsOf(n) /\ High(Upper(l, w), m) = High(w, m)
        /\ Lower(l, w) \in LabelsOf(n) /\ High(Lower(l, w), m) = High(w, m)
    BY <1>0, HighFacts
  <2>2. CASE w \in RowsOf(n, c)
    <3>1. Upper(l, w) \in RowsOf(n, c) /\ Lower(l, w) \in RowsOf(n, c)
      BY <1>0, <2>2, RowsPaired DEF m
    <3>. QED  BY <3>1, <2>1, <2>2, <1>0, <1>3 DEF m, l
  <2>3. CASE w \notin RowsOf(n, c)
    <3>1. Ready(n, todo, w, l)
      BY <1>0, <1>4, <2>3
    <3>2. m - 1 = l /\ m \in 1..n
      BY <1>0
    <3>3. Switch(A2[m], A2[l], l, w) /\ Switch(Z2[m], Z2[l], l, w)
      BY <1>1, <3>1, <3>2 DEF Wires
    <3>4. Ready(n, todo, Upper(l, w), m) /\ Ready(n, todo, Lower(l, w), m)
      BY <1>0, <2>1, <3>1, ReadyPair
    <3>. QED  BY <2>1, <3>3, <3>4
  <2>. QED  BY <2>2, <2>3
<1>. SUFFICES ASSUME NEW d \in 1..n
              PROVE  /\ \A u, w \in LabelsOf(n) : Ready(n, todo2, u, d) /\ Ready(n, todo2, w, d) =>
                           (A2[d][u] = A2[d][w] => u = w) /\ (Z2[d][u] = Z2[d][w] => u = w)
                     /\ \A w \in LabelsOf(n) : Ready(n, todo2, w, d) =>
                           /\ \E u \in LabelsOf(n) : High(u, d) = High(w, d) /\ Z2[d][u] = A2[d][w]
                           /\ \E u \in LabelsOf(n) : High(u, d) = High(w, d) /\ A2[d][u] = Z2[d][w]
                     /\ \A w \in LabelsOf(n) : Ready(n, todo2, w, d - 1) =>
                           Switch(A2[d], A2[d - 1], d - 1, w) /\ Switch(Z2[d], Z2[d - 1], d - 1, w)
  BY DEF Wires
<1>5. \A w \in LabelsOf(n) : Ready(n, todo2, w, d - 1) =>
         Switch(A2[d], A2[d - 1], d - 1, w) /\ Switch(Z2[d], Z2[d - 1], d - 1, w)
  <2>. SUFFICES ASSUME NEW w \in LabelsOf(n), Ready(n, todo2, w, d - 1)
                PROVE  Switch(A2[d], A2[d - 1], d - 1, w) /\ Switch(Z2[d], Z2[d - 1], d - 1, w)
    OBVIOUS
  <2>1. CASE d = m
    <3>1. d - 1 = l
      BY <2>1, <1>0
    <3>. QED  BY <2>1, <3>1, <1>4
  <2>2. CASE d # m
    <3>1. d - 1 \in 0..n /\ d - 1 # l
      BY <2>2, <1>0
    <3>2. Ready(n, todo, w, d - 1)
      BY <3>1, <1>2
    <3>. QED  BY <3>2, <1>1 DEF Wires
  <2>. QED  BY <2>1, <2>2
<1>6. CASE d # l
  <2>1. \A w \in LabelsOf(n) : Ready(n, todo2, w, d) <=> Ready(n, todo, w, d)
    BY <1>6, <1>2
  <2>. QED  BY <2>1, <1>1, <1>5 DEF Wires
<1>7. CASE d = l
  <2>1. ASSUME NEW u \in LabelsOf(n), NEW w \in LabelsOf(n), Ready(n, todo2, u, l), Ready(n, todo2, w, l)
        PROVE  (A2[l][u] = A2[l][w] => u = w) /\ (Z2[l][u] = Z2[l][w] => u = w)
    <3>1. /\ Switch(A2[m], A2[l], l, u) /\ Switch(Z2[m], Z2[l], l, u)
          /\ Switch(A2[m], A2[l], l, w) /\ Switch(Z2[m], Z2[l], l, w)
      BY <2>1, <1>4
    <3>2. \A x, y \in {Upper(l, u), Lower(l, u), Upper(l, w), Lower(l, w)} :
             x \in LabelsOf(n) /\ y \in LabelsOf(n) /\ Ready(n, todo, x, m) /\ Ready(n, todo, y, m)
      BY <2>1, <1>4
    <3>3. \A x, y \in {Upper(l, u), Lower(l, u), Upper(l, w), Lower(l, w)} :
             (A2[m][x] = A2[m][y] => x = y) /\ (Z2[m][x] = Z2[m][y] => x = y)
      BY <3>2, <1>0, <1>1 DEF Wires
    <3>4. ASSUME A2[l][u] = A2[l][w] PROVE u = w
      BY <3>1, <3>3, <3>4, SwitchInjective
    <3>5. ASSUME Z2[l][u] = Z2[l][w] PROVE u = w
      BY <3>1, <3>3, <3>5, SwitchInjective
    <3>. QED  BY <3>4, <3>5
  <2>2. ASSUME NEW w \in LabelsOf(n), Ready(n, todo2, w, l)
        PROVE  /\ \E u \in LabelsOf(n) : High(u, l) = High(w, l) /\ Z2[l][u] = A2[l][w]
               /\ \E u \in LabelsOf(n) : High(u, l) = High(w, l) /\ A2[l][u] = Z2[l][w]
    <3>1. CASE w \in RowsOf(n, c)
      BY <3>1, <1>7, <1>0 DEF m, l
    <3>2. CASE w \notin RowsOf(n, c)
      <4>1. Ready(n, todo, w, l)
        BY <3>2, <2>2, <1>0
      <4>. QED  BY <4>1, <1>1, <1>7 DEF Wires
    <3>. QED  BY <3>1, <3>2
  <2>. QED  BY <2>1, <2>2, <1>5, <1>7
<1>. QED  BY <1>6, <1>7

-----------------------------------------------------------------------------
(* The whole network, and the call that runs. *)

\* The call that runs, and the network as the router keeps it.
Running(n, c, A, Z, left, s) ==
    LET m == c.current_k
        B == RowsOf(n, c)
        R == {w \in B : w \ c.offset \notin left}
    IN  /\ left # {} /\ left \subseteq LabelsOf(m) /\ s \in B \ R
        /\ \E up : /\ Placed(B, m - 1, A[m], Z[m], A[m - 1], Z[m - 1], R, up)
                   /\ Open(m - 1, R, up, s)

\* The invariant of the two butterflies.
Network(n, stack, A, Z, left, s) ==
    /\ StackOf(n, stack)
    /\ A \in Columns(n) /\ Z \in Columns(n) /\ Wires(n, Range(stack), A, Z)
    /\ IF stack # <<>> /\ Head(stack).current_k > 1
       THEN Running(n, Head(stack), A, Z, left, s) ELSE left = {}

\* A call that has been entered has all its rows left and starts from the first.
Entered(stack, left, s) ==
    IF stack # <<>> /\ Head(stack).current_k > 1
    THEN left = LabelsOf(Head(stack).current_k) /\ s = Head(stack).offset ELSE left = {}

\* A row of a call is its offset and the bits the call looks at.
LEMMA OffsetFacts ==
    ASSUME NEW n \in Nat, NEW c \in CallsOf(n)
    PROVE  /\ c.offset \in RowsOf(n, c)
           /\ \A w \in RowsOf(n, c) : w \ c.offset \in LabelsOf(c.current_k) /\ w = c.offset \cup (w \ c.offset)
           /\ \A x \in LabelsOf(c.current_k) : /\ c.offset \cup x \in RowsOf(n, c)
                                               /\ (c.offset \cup x) \ c.offset = x
           /\ \A u, w \in RowsOf(n, c) : u \ c.offset = w \ c.offset => u = w
<1>. DEFINE m == c.current_k
            o == c.offset
<1>0. m \in 1..n /\ o \in LabelsOf(n) /\ \A b \in o : b >= m
  BY DEF CallsOf
<1>. HIDE DEF m, o
<1>1. ASSUME NEW w \in RowsOf(n, c) PROVE w \ o \in LabelsOf(m) /\ w = o \cup (w \ o)
  <2>1. w \in LabelsOf(n) /\ o = {b \in w : b >= m}
    BY DEF RowsOf, High, m, o
  <2>. SUFFICES ASSUME NEW b \in w \ o PROVE b \in 0..m - 1
    BY <2>1 DEF LabelsOf
  <2>2. b \in 0..n - 1 /\ ~(b >= m)
    BY <2>1 DEF LabelsOf
  <2>. QED  BY <2>2, <1>0
<1>2. ASSUME NEW x \in LabelsOf(m) PROVE o \cup x \in RowsOf(n, c) /\ (o \cup x) \ o = x
  <2>1. \A b \in x : b \in 0..n - 1 /\ ~(b >= m)
    BY <1>0 DEF LabelsOf
  <2>2. o \cup x \in LabelsOf(n)
    BY <2>1, <1>0 DEF LabelsOf
  <2>3. {b \in o \cup x : b >= m} = o /\ (o \cup x) \ o = x
    BY <2>1, <1>0
  <2>. QED  BY <2>2, <2>3 DEF RowsOf, High, m, o
<1>3. o \in RowsOf(n, c)
  BY <1>0 DEF RowsOf, High, m, o
<1>. QED  BY <1>1, <1>2, <1>3 DEF m, o

\* Entering a call meets the invariant: nothing is routed yet and no chain is open.
LEMMA EnterCall ==
    ASSUME NEW n \in Nat, NEW stack, StackOf(n, stack), NEW A \in Columns(n), NEW Z \in Columns(n),
           Wires(n, Range(stack), A, Z), NEW left, NEW s, Entered(stack, left, s)
    PROVE  Network(n, stack, A, Z, left, s)
<1>. DEFINE c == Head(stack)
            m == c.current_k
            B == RowsOf(n, c)
            R == {w \in B : w \ c.offset \notin left}
<1>. SUFFICES ASSUME stack # <<>>, m > 1 PROVE Running(n, c, A, Z, left, s)
  BY DEF Network, Entered
<1>1. c \in CallsOf(n)
  BY HeadOwns
<1>2. left = LabelsOf(m) /\ s = c.offset
  BY DEF Entered
<1>3. R = {} /\ s \in B
  BY <1>1, <1>2, OffsetFacts
<1>4. /\ Placed(B, m - 1, A[m], Z[m], A[m - 1], Z[m - 1], R, {})
      /\ Open(m - 1, R, {}, s)
  <2>. HIDE DEF R, B, c, m
  <2>. QED  BY <1>3 DEF Placed, Open
<1>5. left # {} /\ left \subseteq LabelsOf(m) /\ s \in B \ R
  <2>1. {} \in LabelsOf(m)
    BY DEF LabelsOf
  <2>. QED  BY <2>1, <1>2, <1>3
<1>. QED  BY <1>4, <1>5 DEF Running

\* Both outer columns hold the same packets in the rows of the call, and the router
\* finds them there.
LEMMA BlockOfCall ==
    ASSUME NEW n \in Nat, NEW stack, StackOf(n, stack), stack # <<>>,
           NEW A, NEW Z, Wires(n, Range(stack), A, Z)
    PROVE  LET c == Head(stack)
               m == c.current_k
               B == RowsOf(n, c)
           IN  /\ Block(B, m - 1, A[m], Z[m])
               /\ \A d \in B : /\ RowWith(n, A[m], A[m][d]) = d
                               /\ RowWith(n, Z[m], Z[m][d]) = d
<1>. DEFINE c == Head(stack)
            m == c.current_k
            B == RowsOf(n, c)
            todo == Range(stack)
<1>1. /\ c \in CallsOf(n) /\ Owned(n, todo, Range(Tail(stack)), c)
      /\ \A x \in Range(Tail(stack)) : \A u \in B, w \in RowsOf(n, x) : Below(u, w)
  BY HeadOwns
<1>2. m \in 1..n /\ m - 1 \in Nat /\ m - 1 < m /\ B \subseteq LabelsOf(n)
  BY <1>1 DEF CallsOf, RowsOf
<1>. HIDE DEF c, todo, m, B
<1>3. ASSUME NEW w \in B PROVE Ready(n, todo, w, m)
  BY <1>1, <1>2 DEF Owned, m, B
<1>4. ASSUME NEW w \in B PROVE Flip(m - 1, w) \in B
  BY <1>1, <1>2, RowsPaired DEF m, B
<1>5. /\ \A u, w \in LabelsOf(n) : Ready(n, todo, u, m) /\ Ready(n, todo, w, m) =>
             (A[m][u] = A[m][w] => u = w) /\ (Z[m][u] = Z[m][w] => u = w)
      /\ \A w \in LabelsOf(n) : Ready(n, todo, w, m) =>
             /\ \E u \in LabelsOf(n) : High(u, m) = High(w, m) /\ Z[m][u] = A[m][w]
             /\ \E u \in LabelsOf(n) : High(u, m) = High(w, m) /\ A[m][u] = Z[m][w]
  BY <1>2 DEF Wires, todo
<1>6. Block(B, m - 1, A[m], Z[m])
  <2>1. ASSUME NEW w \in B PROVE \E u \in B : Z[m][u] = A[m][w]
    <3>1. PICK u \in LabelsOf(n) : High(u, m) = High(w, m) /\ Z[m][u] = A[m][w]
      BY <1>2, <1>3, <1>5
    <3>2. u \in B
      BY <3>1 DEF RowsOf, m, B
    <3>. QED  BY <3>1, <3>2
  <2>2. ASSUME NEW w \in B PROVE \E u \in B : A[m][u] = Z[m][w]
    <3>1. PICK u \in LabelsOf(n) : High(u, m) = High(w, m) /\ A[m][u] = Z[m][w]
      BY <1>2, <1>3, <1>5
    <3>2. u \in B
      BY <3>1 DEF RowsOf, m, B
    <3>. QED  BY <3>1, <3>2
  <2>. QED  BY <1>2, <1>3, <1>4, <1>5, <2>1, <2>2 DEF Block
<1>7. ASSUME NEW w \in LabelsOf(n), ~Ready(n, todo, w, m) PROVE \A u \in B : Below(u, w)
  <2>1. w \notin B /\ ~Ready(n, Range(Tail(stack)), w, m)
    BY <1>1, <1>2, <1>3, <1>7 DEF Owned, B
  <2>2. PICK x \in Range(Tail(stack)) : w \in RowsOf(n, x)
    BY <2>1 DEF Ready
  <2>. QED  BY <1>1, <2>2
<1>8. ASSUME NEW d \in B
      PROVE  /\ RowWith(n, A[m], A[m][d]) = d
             /\ RowWith(n, Z[m], Z[m][d]) = d
  <2>1. \A w \in LabelsOf(n) : w # d /\ A[m][w] = A[m][d] => Below(d, w)
    BY <1>2, <1>3, <1>5, <1>7
  <2>2. \A w \in LabelsOf(n) : w # d /\ Z[m][w] = Z[m][d] => Below(d, w)
    BY <1>2, <1>3, <1>5, <1>7
  <2>3. RowWith(n, A[m], A[m][d]) = d
    BY <1>2, <2>1, FoundRow
  <2>4. RowWith(n, Z[m], Z[m][d]) = d
    BY <1>2, <2>2, FoundRow
  <2>. QED  BY <2>3, <2>4
<1>. QED  BY <1>6, <1>8 DEF c, m, B

\* A finished call leaves two, of half as many rows each.
Halves(c) == <<[current_k |-> c.current_k - 1, offset |-> c.offset],
               [current_k |-> c.current_k - 1, offset |-> c.offset \cup {c.current_k - 1}]>>

\* Its two calls cover its rows between them, in order, one level below.
LEMMA SplitStack ==
    ASSUME NEW n \in Nat, NEW stack, StackOf(n, stack), stack # <<>>, Head(stack).current_k > 1
    PROVE  LET c == Head(stack)
               stack2 == Halves(c) \o Tail(stack)
           IN  /\ StackOf(n, stack2)
               /\ \A w \in RowsOf(n, c), d \in 0..n : Ready(n, Range(stack2), w, d) <=> c.current_k - 1 <= d
               /\ \A w \in LabelsOf(n) \ RowsOf(n, c), d \in 0..n :
                     Ready(n, Range(stack2), w, d) <=> Ready(n, Range(stack), w, d)
<1>. DEFINE c == Head(stack)
            m == c.current_k
            o == c.offset
            rest == Tail(stack)
            c1 == Halves(c)[1]
            c2 == Halves(c)[2]
            stack2 == Halves(c) \o rest
<1>1. /\ c \in CallsOf(n) /\ StackOf(n, rest) /\ Owned(n, Range(stack), Range(rest), c)
      /\ \A x \in Range(rest) : \A u \in RowsOf(n, c), w \in RowsOf(n, x) : Below(u, w)
  BY HeadOwns
<1>2. m \in 2..n /\ m - 1 \in 1..n /\ m - 1 \in 0..n - 1 /\ o \in LabelsOf(n) /\ \A b \in o : b >= m
  BY <1>1 DEF CallsOf
<1>3. /\ c1 = [current_k |-> m - 1, offset |-> o] /\ c2 = [current_k |-> m - 1, offset |-> o \cup {m - 1}]
      /\ Halves(c) = <<c1, c2>>
  BY DEF Halves
<1>. HIDE DEF c1, c2, c, m, o, rest
<1>4. c1 \in CallsOf(n) /\ c2 \in CallsOf(n)
  <2>1. o \cup {m - 1} \in LabelsOf(n) /\ \A b \in o \cup {m - 1} : b >= m - 1
    BY <1>2 DEF LabelsOf
  <2>. QED  BY <1>2, <1>3, <2>1 DEF CallsOf
<1>5. ASSUME NEW w \in LabelsOf(n)
      PROVE  /\ w \in RowsOf(n, c1) <=> w \in RowsOf(n, c) /\ m - 1 \notin w
             /\ w \in RowsOf(n, c2) <=> w \in RowsOf(n, c) /\ m - 1 \in w
  <2>1. \A b \in w : b \in Int
    BY DEF LabelsOf
  <2>2. \A b \in w : b >= m - 1 <=> b >= m \/ b = m - 1
    BY <2>1, <1>2
  <2>3. m - 1 \notin o /\ ~(m - 1 >= m)
    BY <1>2
  <2>4. w \in RowsOf(n, c1) <=> {b \in w : b >= m - 1} = o
    BY <1>3 DEF RowsOf, High
  <2>5. w \in RowsOf(n, c2) <=> {b \in w : b >= m - 1} = o \cup {m - 1}
    BY <1>3 DEF RowsOf, High
  <2>6. w \in RowsOf(n, c) <=> {b \in w : b >= m} = o
    BY DEF RowsOf, High, c, m, o
  <2>7. {b \in w : b >= m} = {b \in w : b >= m - 1} \ {m - 1}
    BY <2>2, <2>3
  <2>8. m - 1 \in w <=> m - 1 \in {b \in w : b >= m - 1}
    BY <1>2
  <2>. HIDE <2>2
  <2>. QED  BY <2>3, <2>4, <2>5, <2>6, <2>7, <2>8
<1>6. ASSUME NEW u \in RowsOf(n, c1), NEW w \in RowsOf(n, c2) PROVE Below(u, w)
  <2>1. u \in LabelsOf(n) /\ w \in LabelsOf(n) /\ m - 1 \notin u /\ m - 1 \in w
    BY <1>5 DEF RowsOf
  <2>2. High(u, m) = High(w, m)
    BY <2>1, <1>5 DEF RowsOf, m
  <2>3. \A b \in 0..n - 1 : b > m - 1 => (b \in u <=> b \in w)
    <3>. SUFFICES ASSUME NEW b \in 0..n - 1, b >= m PROVE b \in u <=> b \in w
      BY <1>2
    <3>1. b \in High(u, m) <=> b \in u
      BY DEF High
    <3>2. b \in High(w, m) <=> b \in w
      BY DEF High
    <3>. QED  BY <3>1, <3>2, <2>2
  <2>. QED  BY <1>2, <2>1, <2>3, BelowAtBit
<1>7. /\ rest \in Seq(CallsOf(n)) /\ Len(rest) \in Nat /\ stack2 \in Seq(CallsOf(n)) /\ Len(stack2) = Len(rest) + 2
      /\ stack2[1] = c1 /\ stack2[2] = c2 /\ \A i \in 3..Len(stack2) : i - 2 \in 1..Len(rest) /\ stack2[i] = rest[i - 2]
      /\ DOMAIN rest = 1..Len(rest) /\ DOMAIN stack2 = 1..Len(stack2)
      /\ \A i \in 1..Len(rest) : i + 2 \in 3..Len(stack2) /\ stack2[i + 2] = rest[i]
  <2>1. rest \in Seq(CallsOf(n)) /\ <<c1, c2>> \in Seq(CallsOf(n)) /\ stack2 = <<c1, c2>> \o rest
    BY <1>1, <1>3, <1>4 DEF StackOf
  <2>. QED  BY <2>1
<1>. HIDE DEF stack2
<1>8. ASSUME NEW i \in 3..Len(stack2) PROVE stack2[i] \in Range(rest)
  BY <1>7 DEF Range
<1>9. StackOf(n, stack2)
  <2>. SUFFICES ASSUME NEW i \in 1..Len(stack2), NEW j \in 1..Len(stack2), i < j,
                       NEW u \in RowsOf(n, stack2[i]), NEW w \in RowsOf(n, stack2[j])
                PROVE  Below(u, w)
    BY <1>7 DEF StackOf
  <2>1. CASE i = 1 /\ j = 2
    BY <2>1, <1>6, <1>7
  <2>2. CASE i \in 1..2 /\ j \in 3..Len(stack2)
    <3>1. u \in RowsOf(n, c)
      BY <2>2, <1>5, <1>7 DEF RowsOf
    <3>. QED  BY <3>1, <2>2, <1>1, <1>8
  <2>3. CASE i \in 3..Len(stack2) /\ j \in 3..Len(stack2)
    <3>1. /\ i - 2 \in 1..Len(rest) /\ j - 2 \in 1..Len(rest) /\ i - 2 < j - 2
          /\ stack2[i] = rest[i - 2] /\ stack2[j] = rest[j - 2]
      BY <2>3, <1>7
    <3>. QED  BY <3>1, <1>1 DEF StackOf
  <2>4. \/ i = 1 /\ j = 2
        \/ i \in 1..2 /\ j \in 3..Len(stack2)
        \/ i \in 3..Len(stack2) /\ j \in 3..Len(stack2)
    BY <1>7
  <2>. QED  BY <2>1, <2>2, <2>3, <2>4
<1>10. Range(stack2) = {c1, c2} \cup Range(rest)
  <2>1. ASSUME NEW x \in Range(stack2) PROVE x \in {c1, c2} \cup Range(rest)
    <3>1. PICK i \in 1..Len(stack2) : x = stack2[i]
      BY <1>7 DEF Range
    <3>2. i = 1 \/ i = 2 \/ i \in 3..Len(stack2)
      OBVIOUS
    <3>. QED  BY <3>1, <3>2, <1>7, <1>8
  <2>2. c1 \in Range(stack2) /\ c2 \in Range(stack2)
    <3>1. 1 \in DOMAIN stack2 /\ 2 \in DOMAIN stack2
      BY <1>7
    <3>. QED  BY <3>1, <1>7 DEF Range
  <2>3. ASSUME NEW x \in Range(rest) PROVE x \in Range(stack2)
    <3>1. PICK i \in 1..Len(rest) : x = rest[i]
      BY <1>7 DEF Range
    <3>2. i + 2 \in DOMAIN stack2 /\ stack2[i + 2] = x
      BY <3>1, <1>7
    <3>. QED  BY <3>2 DEF Range
  <2>. QED  BY <2>1, <2>2, <2>3
<1>11. c1.current_k = m - 1 /\ c2.current_k = m - 1
  BY <1>3
<1>12. ASSUME NEW w \in RowsOf(n, c), NEW d \in 0..n PROVE Ready(n, Range(stack2), w, d) <=> m - 1 <= d
  <2>1. Ready(n, Range(rest), w, d)
    BY <1>1 DEF Owned
  <2>2. w \in LabelsOf(n) /\ (w \in RowsOf(n, c1) \/ w \in RowsOf(n, c2))
    BY <1>5 DEF RowsOf
  <2>. QED  BY <2>1, <2>2, <1>10, <1>11 DEF Ready
<1>13. ASSUME NEW w \in LabelsOf(n) \ RowsOf(n, c), NEW d \in 0..n
       PROVE  Ready(n, Range(stack2), w, d) <=> Ready(n, Range(stack), w, d)
  <2>1. Ready(n, Range(stack), w, d) <=> Ready(n, Range(rest), w, d)
    BY <1>1 DEF Owned
  <2>2. w \notin RowsOf(n, c1) /\ w \notin RowsOf(n, c2)
    BY <1>5
  <2>. QED  BY <2>1, <2>2, <1>10 DEF Ready
<1>. QED  BY <1>9, <1>12, <1>13 DEF c, m, rest, stack2

-----------------------------------------------------------------------------
(* One turn of the router, over the whole network. *)

\* What one turn of the router writes.
DstOf(n, c, A, Z, s)  == RowWith(n, Z[c.current_k], A[c.current_k][s])
DownOf(n, c, A, Z, s) == Z[c.current_k][Flip(c.current_k - 1, DstOf(n, c, A, Z, s))]
TwinOf(n, c, A, Z, s) == RowWith(n, A[c.current_k], DownOf(n, c, A, Z, s))

\* What RoutePair makes of both butterflies.
Turned(n, c, A, Z, s, A2, Z2) ==
    LET m == c.current_k
        d == DstOf(n, c, A, Z, s)
        t == TwinOf(n, c, A, Z, s)
    IN  /\ \A e \in 0..n : e # m - 1 => A2[e] = A[e] /\ Z2[e] = Z[e]
        /\ A2[m - 1] = [A[m - 1] EXCEPT ![Upper(m - 1, s)] = A[m][s],
                                        ![Lower(m - 1, t)] = DownOf(n, c, A, Z, s)]
        /\ Z2[m - 1] = [Z[m - 1] EXCEPT ![Upper(m - 1, d)] = A[m][s],
                                        ![Lower(m - 1, d)] = DownOf(n, c, A, Z, s)]

\* What RoutePair writes is a turn: the rows it searches for are found in the block.
LEMMA TurnWrites ==
    ASSUME NEW n \in Nat, NEW stack, StackOf(n, stack), stack # <<>>, Head(stack).current_k > 1,
           NEW A \in Columns(n), NEW Z \in Columns(n), Wires(n, Range(stack), A, Z),
           NEW s \in RowsOf(n, Head(stack)), NEW A2 \in Columns(n), NEW Z2 \in Columns(n),
           Turned(n, Head(stack), A, Z, s, A2, Z2)
    PROVE  LET c == Head(stack)
               m == c.current_k
               B == RowsOf(n, c)
               d == DstOf(n, c, A, Z, s)
               t == TwinOf(n, c, A, Z, s)
           IN  /\ d \in B /\ Z[m][d] = A[m][s] /\ t \in B /\ A[m][t] = Z[m][Flip(m - 1, d)]
               /\ Turn(B, m - 1, A[m], A[m - 1], Z[m - 1], s, t, d, A2[m - 1], Z2[m - 1])
               /\ Writes(n, c, A, Z, A2, Z2)
<1>. DEFINE c == Head(stack)
            m == c.current_k
            b == m - 1
            B == RowsOf(n, c)
            d == DstOf(n, c, A, Z, s)
            t == TwinOf(n, c, A, Z, s)
<1>1. c \in CallsOf(n)
  BY HeadOwns
<1>2. m \in 1..n /\ b \in Nat /\ b < m /\ b \in 0..n /\ B \subseteq LabelsOf(n)
  BY <1>1 DEF CallsOf, RowsOf
<1>3. /\ Block(B, b, A[m], Z[m])
      /\ \A x \in B : RowWith(n, A[m], A[m][x]) = x /\ RowWith(n, Z[m], Z[m][x]) = x
  BY BlockOfCall
<1>4. d = RowWith(n, Z[m], A[m][s]) /\ t = RowWith(n, A[m], Z[m][Flip(b, d)])
      /\ DownOf(n, c, A, Z, s) = Z[m][Flip(b, d)]
  BY DEF DstOf, DownOf, TwinOf
<1>5. /\ \A e \in 0..n : e # m - 1 => A2[e] = A[e] /\ Z2[e] = Z[e]
      /\ A2[b] = [A[b] EXCEPT ![Upper(b, s)] = A[m][s], ![Lower(b, t)] = Z[m][Flip(b, d)]]
      /\ Z2[b] = [Z[b] EXCEPT ![Upper(b, d)] = A[m][s], ![Lower(b, d)] = Z[m][Flip(b, d)]]
  BY <1>4 DEF Turned
<1>. HIDE DEF c, m, b, B, d, t
<1>6. d \in B /\ Z[m][d] = A[m][s]
  <2>1. PICK x \in B : Z[m][x] = A[m][s]
    BY <1>3 DEF Block, B, c
  <2>. QED  BY <2>1, <1>3, <1>4
<1>7. t \in B /\ A[m][t] = Z[m][Flip(b, d)]
  <2>1. Flip(b, d) \in B
    BY <1>3, <1>6 DEF Block
  <2>2. PICK x \in B : A[m][x] = Z[m][Flip(b, d)]
    BY <2>1, <1>3 DEF Block
  <2>. QED  BY <2>2, <1>3, <1>4
<1>8. \A w \in B : Upper(b, w) \in B /\ Lower(b, w) \in B
  BY <1>1, <1>2, RowsPaired DEF m, B
<1>9. /\ A[b] \in [LabelsOf(n) -> LabelsOf(n)] /\ Z[b] \in [LabelsOf(n) -> LabelsOf(n)]
      /\ Upper(b, s) # Lower(b, t) /\ Upper(b, d) # Lower(b, d)
  <2>1. PairFacts(b)
    BY PairOfRows
  <2>. QED  BY <2>1, <1>2 DEF Columns, PairFacts
<1>10. s \in B
  BY DEF B, c
<1>11. Turn(B, b, A[m], A[b], Z[b], s, t, d, A2[b], Z2[b])
  <2>1. /\ Upper(b, s) \in LabelsOf(n) /\ Lower(b, t) \in LabelsOf(n)
        /\ Upper(b, d) \in LabelsOf(n) /\ Lower(b, d) \in LabelsOf(n)
    BY <1>2, <1>6, <1>7, <1>8, <1>10
  <2>2. /\ \A x \in B : x # Upper(b, s) /\ x # Lower(b, t) => A2[b][x] = A[b][x]
        /\ A2[b][Upper(b, s)] = A[m][s] /\ A2[b][Lower(b, t)] = A[m][t]
    BY <1>2, <1>5, <1>7, <1>9, <2>1
  <2>3. /\ \A x \in B : x # Upper(b, d) /\ x # Lower(b, d) => Z2[b][x] = Z[b][x]
        /\ Z2[b][Upper(b, d)] = A[m][s] /\ Z2[b][Lower(b, d)] = A[m][t]
    BY <1>2, <1>5, <1>7, <1>9, <2>1
  <2>. QED  BY <2>2, <2>3 DEF Turn
<1>12. ASSUME NEW w \in LabelsOf(n) \ B PROVE A2[b][w] = A[b][w] /\ Z2[b][w] = Z[b][w]
  <2>1. w # Upper(b, s) /\ w # Lower(b, t) /\ w # Upper(b, d) /\ w # Lower(b, d)
    BY <1>6, <1>7, <1>8, <1>10
  <2>. QED  BY <2>1, <1>5, <1>9
<1>13. Writes(n, c, A, Z, A2, Z2)
  BY <1>5, <1>12 DEF Writes, m, b, B
<1>. QED  BY <1>6, <1>7, <1>11, <1>13 DEF c, m, b, B, d, t

\* One turn, while rows are left ...
LEMMA TurnRuns ==
    ASSUME NEW n \in Nat, NEW stack, stack # <<>>, Head(stack).current_k > 1,
           NEW A, NEW Z, NEW left, NEW s, Network(n, stack, A, Z, left, s),
           NEW A2 \in Columns(n), NEW Z2 \in Columns(n), Turned(n, Head(stack), A, Z, s, A2, Z2),
           NEW left2, left2 = left \ {s \ Head(stack).offset,
                                      TwinOf(n, Head(stack), A, Z, s) \ Head(stack).offset}
    PROVE  LET c == Head(stack)
               m == c.current_k
               B == RowsOf(n, c)
               t == TwinOf(n, c, A, Z, s)
               next == Flip(m - 1, t)
           IN  /\ Writes(n, c, A, Z, A2, Z2)
               /\ left2 # {} =>
                     LET s2 == IF next \ c.offset \in left2 THEN next ELSE c.offset \cup First(left2)
                     IN  Running(n, c, A2, Z2, left2, s2)
               /\ left2 = {} => \E up : Placed(B, m - 1, A[m], Z[m], A2[m - 1], Z2[m - 1], B, up)
<1>. DEFINE c == Head(stack)
            m == c.current_k
            b == m - 1
            B == RowsOf(n, c)
            o == c.offset
            d == DstOf(n, c, A, Z, s)
            t == TwinOf(n, c, A, Z, s)
            next == Flip(m - 1, t)
            R == {w \in B : w \ o \notin left}
            R2 == R \cup {s, t}
<1>1. /\ StackOf(n, stack) /\ A \in Columns(n) /\ Z \in Columns(n) /\ Wires(n, Range(stack), A, Z)
      /\ Running(n, c, A, Z, left, s)
  BY DEF Network
<1>2. PICK up : /\ Placed(B, b, A[m], Z[m], A[b], Z[b], R, up)
                /\ Open(b, R, up, s)
  BY <1>1 DEF Running
<1>3. left # {} /\ left \subseteq LabelsOf(m) /\ s \in B \ R
  BY <1>1 DEF Running
<1>4. /\ d \in B /\ Z[m][d] = A[m][s] /\ t \in B /\ A[m][t] = Z[m][Flip(b, d)]
      /\ Turn(B, b, A[m], A[b], Z[b], s, t, d, A2[b], Z2[b])
      /\ Writes(n, c, A, Z, A2, Z2)
  BY <1>1, <1>3, TurnWrites
<1>5. c \in CallsOf(n) /\ m \in 1..n /\ Block(B, b, A[m], Z[m])
  <2>1. c \in CallsOf(n)
    BY <1>1, HeadOwns
  <2>. QED  BY <2>1, <1>1, BlockOfCall DEF CallsOf
<1>6. A2[m] = A[m] /\ Z2[m] = Z[m]
  BY <1>4, <1>5 DEF Writes
<1>7. /\ \A w \in B : w \ o \in LabelsOf(m)
      /\ \A x \in LabelsOf(m) : o \cup x \in B /\ (o \cup x) \ o = x
      /\ \A u, w \in B : u \ o = w \ o => u = w
  BY <1>5, OffsetFacts
<1>8. left2 = left \ {s \ o, t \ o}
  OBVIOUS
<1>. HIDE DEF c, m, b, B, o, d, t
<1>9. t \notin R /\ t # s /\ Placed(B, b, A[m], Z[m], A2[b], Z2[b], R2, up \cup {s})
  <2>. HIDE DEF R
  <2>. QED  BY <1>2, <1>3, <1>4, <1>5, TurnFresh, TurnPlaced
<1>10. R2 = {w \in B : w \ o \notin left2}
  <2>1. ASSUME NEW w \in B PROVE w \in R2 <=> w \ o \notin left2
    BY <1>3, <1>4, <1>7, <1>8
  <2>. QED  BY <2>1, <1>3, <1>4
<1>11. ASSUME left2 # {}, NEW s2, s2 = IF next \ o \in left2 THEN next ELSE o \cup First(left2)
       PROVE  Running(n, c, A2, Z2, left2, s2)
  <2>1. left2 \subseteq LabelsOf(m) /\ First(left2) \in left2
    <3>1. left2 \subseteq LabelsOf(m) /\ m \in Nat
      BY <1>3, <1>5, <1>8
    <3>. QED  BY <3>1, <1>11, FirstLabel
  <2>2. next \in B
    BY <1>4, <1>5 DEF Block, b, next
  <2>3. s2 \in B /\ s2 \ o \in left2
    BY <2>1, <2>2, <1>7, <1>11
  <2>4. s2 \in B \ R2
    BY <2>3, <1>10
  <2>5. s2 = Flip(b, t) \/ Flip(b, t) \in R2
    BY <2>2, <1>10, <1>11 DEF b, next
  <2>6. Open(b, R2, up \cup {s}, s2)
    <3>. HIDE DEF R, next
    <3>. QED  BY <1>2, <1>3, <1>9, <2>4, <2>5, TurnOpen
  <2>7. Placed(B, b, A2[m], Z2[m], A2[b], Z2[b], R2, up \cup {s})
    BY <1>6, <1>9
  <2>8. /\ s2 \in B \ {w \in B : w \ o \notin left2}
        /\ \E up2 : /\ Placed(B, b, A2[m], Z2[m], A2[b], Z2[b], {w \in B : w \ o \notin left2}, up2)
                    /\ Open(b, {w \in B : w \ o \notin left2}, up2, s2)
    <3>. HIDE DEF R2
    <3>. QED  BY <2>4, <2>6, <2>7, <1>10
  <2>. QED  BY ONLY <2>1, <2>8, left2 # {} DEF Running, m, b, B, o
<1>12. ASSUME left2 = {} PROVE \E up2 : Placed(B, b, A[m], Z[m], A2[b], Z2[b], B, up2)
  <2>1. R2 = B
    BY <1>10, <1>12
  <2>. QED  BY <1>9, <2>1
<1>. QED  BY <1>4, <1>11, <1>12 DEF c, m, b, B, o, t

\* ... and when none is.
LEMMA TurnEnds ==
    ASSUME NEW n \in Nat, NEW stack, StackOf(n, stack), stack # <<>>, Head(stack).current_k > 1,
           NEW A \in Columns(n), NEW Z \in Columns(n), Wires(n, Range(stack), A, Z),
           NEW A2, NEW Z2, Writes(n, Head(stack), A, Z, A2, Z2), NEW up,
           Placed(RowsOf(n, Head(stack)), Head(stack).current_k - 1,
                  A[Head(stack).current_k], Z[Head(stack).current_k],
                  A2[Head(stack).current_k - 1], Z2[Head(stack).current_k - 1], RowsOf(n, Head(stack)), up)
    PROVE  /\ StackOf(n, Halves(Head(stack)) \o Tail(stack))
           /\ Wires(n, Range(Halves(Head(stack)) \o Tail(stack)), A2, Z2)
<1>. DEFINE c == Head(stack)
            m == c.current_k
            b == m - 1
            B == RowsOf(n, c)
            todo == Range(stack)
            todo2 == Range(Halves(c) \o Tail(stack))
<1>1. c \in CallsOf(n) /\ Owned(n, todo, Range(Tail(stack)), c)
  BY HeadOwns
<1>2. todo \subseteq CallsOf(n) /\ c \in todo
  <2>1. stack \in Seq(CallsOf(n)) /\ 1 \in DOMAIN stack /\ c = stack[1] /\ \A i \in DOMAIN stack : stack[i] \in CallsOf(n)
    BY DEF StackOf
  <2>. QED  BY <2>1 DEF Range
<1>3. /\ StackOf(n, Halves(c) \o Tail(stack))
      /\ \A w \in B, d \in 0..n : Ready(n, todo2, w, d) <=> m - 1 <= d
      /\ \A w \in LabelsOf(n) \ B, d \in 0..n : Ready(n, todo2, w, d) <=> Ready(n, todo, w, d)
  BY SplitStack
<1>4. Block(B, b, A[m], Z[m])
  BY BlockOfCall
<1>5. /\ \A w \in B : Switch(A[m], A2[b], b, w) /\ Switch(Z[m], Z2[b], b, w)
      /\ \A w \in B : \E u \in B : (b \in u <=> b \in w) /\ Z2[b][u] = A2[b][w]
      /\ \A u \in B : \E w \in B : (b \in u <=> b \in w) /\ A2[b][w] = Z2[b][u]
  <2>. HIDE DEF B, b, m, c
  <2>1. Placed(B, b, A[m], Z[m], A2[b], Z2[b], B, up)
    BY DEF B, b, m, c
  <2>. QED  BY <1>4, <2>1, AllPlaced
<1>. HIDE DEF c, m, b, B, todo, todo2
<1>6. m \in 1..n /\ b \in Nat /\ m = b + 1 /\ B \subseteq LabelsOf(n)
  BY <1>1 DEF CallsOf, RowsOf, m, b, B
<1>7. ASSUME NEW u \in B, NEW w \in B, b \in u <=> b \in w PROVE High(u, b) = High(w, b)
  <2>1. High(u, m) = High(w, m)
    BY DEF B, m, RowsOf
  <2>. QED  BY <2>1, <1>6, <1>7, HighFacts
<1>8. \A w \in B : /\ \E u \in LabelsOf(n) : High(u, b) = High(w, b) /\ Z2[b][u] = A2[b][w]
                   /\ \E u \in LabelsOf(n) : High(u, b) = High(w, b) /\ A2[b][u] = Z2[b][w]
  <2>. SUFFICES ASSUME NEW w \in B
                PROVE  /\ \E u \in LabelsOf(n) : High(u, b) = High(w, b) /\ Z2[b][u] = A2[b][w]
                       /\ \E u \in LabelsOf(n) : High(u, b) = High(w, b) /\ A2[b][u] = Z2[b][w]
    OBVIOUS
  <2>1. PICK u \in B : (b \in u <=> b \in w) /\ Z2[b][u] = A2[b][w]
    BY <1>5
  <2>2. PICK v \in B : (b \in v <=> b \in w) /\ A2[b][v] = Z2[b][w]
    BY <1>5
  <2>3. High(u, b) = High(w, b) /\ High(v, b) = High(w, b)
    BY <2>1, <2>2, <1>7
  <2>. QED  BY <2>1, <2>2, <2>3, <1>6
<1>9. \A w \in B, d \in 0..n : Ready(n, todo, w, d) <=> m <= d
  BY <1>1 DEF Owned, B, m
<1>11. Finished(n, todo, todo2, c, A, Z, A2, Z2)
  BY <1>3, <1>5, <1>8, <1>9 DEF Finished, m, b, B
<1>10. Wires(n, todo2, A2, Z2)
  BY <1>1, <1>2, <1>11, WiresDone DEF c, todo
<1>. QED  BY <1>3, <1>10 DEF c, todo2

\* The last level goes straight on.
Copied(n, c, A, Z, A2, Z2) ==
    LET rows == {c.offset, c.offset \cup {0}}
    IN  /\ \A e \in 1..n : A2[e] = A[e] /\ Z2[e] = Z[e]
        /\ A2[0] = [w \in LabelsOf(n) |-> IF w \in rows THEN A[1][w] ELSE A[0][w]]
        /\ Z2[0] = [w \in LabelsOf(n) |-> IF w \in rows THEN Z[1][w] ELSE Z[0][w]]

\* A call of degree 1 (StopRecursion) copies its rows and leaves the stack.
LEMMA CopyEnds ==
    ASSUME NEW n \in Nat, NEW stack, StackOf(n, stack), stack # <<>>, Head(stack).current_k = 1,
           NEW A \in Columns(n), NEW Z \in Columns(n), Wires(n, Range(stack), A, Z),
           NEW A2, NEW Z2, Copied(n, Head(stack), A, Z, A2, Z2)
    PROVE  StackOf(n, Tail(stack)) /\ Wires(n, Range(Tail(stack)), A2, Z2)
<1>. DEFINE c == Head(stack)
            o == c.offset
            B == RowsOf(n, c)
            todo == Range(stack)
            todo2 == Range(Tail(stack))
<1>1. c \in CallsOf(n) /\ Owned(n, todo, todo2, c) /\ StackOf(n, Tail(stack)) /\ c.current_k = 1
  BY HeadOwns
<1>2. todo \subseteq CallsOf(n) /\ c \in todo
  <2>1. stack \in Seq(CallsOf(n)) /\ 1 \in DOMAIN stack /\ c = stack[1] /\ \A i \in DOMAIN stack : stack[i] \in CallsOf(n)
    BY DEF StackOf
  <2>. QED  BY <2>1 DEF Range
<1>3. /\ \A e \in 1..n : A2[e] = A[e] /\ Z2[e] = Z[e]
      /\ A2[0] = [w \in LabelsOf(n) |-> IF w \in {o, o \cup {0}} THEN A[1][w] ELSE A[0][w]]
      /\ Z2[0] = [w \in LabelsOf(n) |-> IF w \in {o, o \cup {0}} THEN Z[1][w] ELSE Z[0][w]]
  BY DEF Copied
<1>. HIDE DEF c, o, B, todo, todo2
<1>4. B = {o, o \cup {0}} /\ B \subseteq LabelsOf(n) /\ 1 \in 1..n
  <2>1. LabelsOf(1) = {{}, {0}}
    BY DEF LabelsOf
  <2>2. /\ \A w \in B : w \ o \in LabelsOf(1) /\ w = o \cup (w \ o)
        /\ \A x \in LabelsOf(1) : o \cup x \in B
    BY <1>1, OffsetFacts DEF B, o
  <2>3. \A w \in B : w = o \cup {} \/ w = o \cup {0}
    BY <2>1, <2>2
  <2>4. o \cup {} \in B /\ o \cup {0} \in B
    BY <2>1, <2>2
  <2>. QED  BY <2>3, <2>4, <1>1 DEF CallsOf, B, RowsOf
<1>5. ASSUME NEW w \in B PROVE A2[0][w] = A[1][w] /\ Z2[0][w] = Z[1][w]
  BY <1>3, <1>4
<1>6. ASSUME NEW w \in LabelsOf(n) \ B PROVE A2[0][w] = A[0][w] /\ Z2[0][w] = Z[0][w]
  BY <1>3, <1>4
<1>7. Writes(n, c, A, Z, A2, Z2)
  <2>1. c.current_k - 1 = 0 /\ \A e \in 0..n : e # 0 => e \in 1..n
    BY <1>1
  <2>. QED  BY <2>1, <1>3, <1>6 DEF Writes, B
<1>8. ASSUME NEW w \in B PROVE Switch(A[1], A2[0], 0, w) /\ Switch(Z[1], Z2[0], 0, w)
  <2>1. Upper(0, w) \in B /\ Lower(0, w) \in B
    <3>1. 0 \in Nat /\ 0 < c.current_k
      BY <1>1
    <3>2. w \in LabelsOf(n)
      BY <1>4
    <3>. QED  BY <3>1, <3>2, <1>1, RowsPaired DEF B
  <2>. QED  BY <2>1, <1>5 DEF Switch
<1>9. \A w \in B, d \in 0..n : (Ready(n, todo, w, d) <=> 1 <= d) /\ (Ready(n, todo2, w, d) <=> 1 - 1 <= d)
  BY <1>1 DEF Owned, B
<1>10. \A w \in LabelsOf(n) \ B, d \in 0..n : Ready(n, todo2, w, d) <=> Ready(n, todo, w, d)
  BY <1>1 DEF Owned, B
<1>11. Finished(n, todo, todo2, c, A, Z, A2, Z2)
  <2>1. c.current_k = 1 /\ 1 - 1 = 0 /\ ~(1 > 1)
    BY <1>1
  <2>. QED  BY <2>1, <1>8, <1>9, <1>10 DEF Finished, B
<1>12. Wires(n, todo2, A2, Z2)
  BY <1>2, <1>7, <1>11, WiresDone DEF c, todo
<1>. QED  BY <1>1, <1>12 DEF todo2

-----------------------------------------------------------------------------
(* Turned rows. *)

\* Turning labels.
LEMMA TurnOfBit ==
    ASSUME NEW n \in Nat, n > 0
    PROVE  /\ \A b, s \in Nat : (b + s) % n \in 0..n - 1
           /\ \A b, s, t \in Nat : (((b + s) % n) + t) % n = (b + (s + t)) % n
           /\ \A b \in 0..n - 1 : (b + 0) % n = b /\ (b + n) % n = b
           /\ \A a, b \in 0..n - 1, s \in 0..n : (a + s) % n = (b + s) % n => a = b
<1>1. ASSUME NEW x \in Nat, NEW t \in Nat
      PROVE  ((x % n) + t) % n = (x + t) % n
  <2>. DEFINE q == x \div n
              r == x % n
              p == (r + t) \div n
              z == (r + t) % n
  <2>1. q \in Nat /\ r \in 0..n - 1 /\ x = n * q + r
    BY Quotient
  <2>2. r + t \in Nat
    BY <2>1
  <2>3. p \in Nat /\ z \in 0..n - 1 /\ r + t = n * p + z
    BY <2>2, Quotient
  <2>. HIDE DEF q, r, p, z
  <2>4. x + t = n * (q + p) + z /\ q + p \in Nat
    BY <2>1, <2>3
  <2>5. (n * (q + p) + z) % n = z
    BY <2>3, <2>4, QuotientUnique
  <2>. QED  BY <2>4, <2>5 DEF z, r
<1>2. ASSUME NEW b \in Nat, NEW s \in Nat PROVE (b + s) % n \in 0..n - 1
  BY Quotient
<1>3. ASSUME NEW b \in Nat, NEW s \in Nat, NEW t \in Nat
      PROVE  (((b + s) % n) + t) % n = (b + (s + t)) % n
  <2>1. b + s \in Nat /\ (b + s) + t = b + (s + t)
    OBVIOUS
  <2>. QED  BY <2>1, <1>1
<1>4. ASSUME NEW b \in 0..n - 1 PROVE (b + 0) % n = b /\ (b + n) % n = b
  <2>1. b % n = b
    <3>1. b = n * 0 + b
      OBVIOUS
    <3>2. (n * 0 + b) % n = b
      BY QuotientUnique
    <3>. QED  BY <3>1, <3>2
  <2>2. (b + n) % n = b
    <3>1. b + n = n * 1 + b
      OBVIOUS
    <3>2. (n * 1 + b) % n = b
      BY QuotientUnique
    <3>. QED  BY <3>1, <3>2
  <2>. QED  BY <2>1, <2>2
<1>5. ASSUME NEW a \in 0..n - 1, NEW b \in 0..n - 1, NEW s \in 0..n, (a + s) % n = (b + s) % n
      PROVE  a = b
  <2>1. \A x \in 0..n - 1 : (((x + s) % n) + (n - s)) % n = x
    <3>. SUFFICES ASSUME NEW x \in 0..n - 1 PROVE (((x + s) % n) + (n - s)) % n = x
      OBVIOUS
    <3>1. x \in Nat /\ s \in Nat /\ n - s \in Nat /\ s + (n - s) = n
      OBVIOUS
    <3>2. (((x + s) % n) + (n - s)) % n = (x + (s + (n - s))) % n
      BY <3>1, <1>3
    <3>. QED  BY <3>1, <3>2, <1>4
  <2>. QED  BY <2>1, <1>5
<1>. QED  BY <1>2, <1>3, <1>4, <1>5

\* Rotating a label left and right, and what it does to the rows of a pair.
LEMMA Turns ==
    ASSUME NEW n \in Nat, n > 0, NEW w \in LabelsOf(n)
    PROVE  /\ \A s \in Nat : RotL(w, s, n) \in LabelsOf(n)
           /\ \A s, t \in Nat : RotL(RotL(w, s, n), t, n) = RotL(w, s + t, n)
           /\ RotL(w, 0, n) = w /\ RotL(w, n, n) = w
           /\ \A s \in 0..n : RotR(w, s, n) = RotL(w, n - s, n)
           /\ \A s, a \in 0..n - 1 : /\ RotL(Upper(a, w), s, n) = Upper((a + s) % n, RotL(w, s, n))
                                     /\ RotL(Lower(a, w), s, n) = Lower((a + s) % n, RotL(w, s, n))
                                     /\ RotL(Flip(a, w), s, n) = Flip((a + s) % n, RotL(w, s, n))
<1>0. \A b \in w : b \in 0..n - 1 /\ b \in Nat
  BY DEF LabelsOf
<1>. DEFINE T(b, s) == (b + s) % n
<1>1. /\ \A b, s \in Nat : T(b, s) \in 0..n - 1
      /\ \A b, s, t \in Nat : T(T(b, s), t) = T(b, s + t)
      /\ \A b \in 0..n - 1 : T(b, 0) = b /\ T(b, n) = b
      /\ \A a, b \in 0..n - 1, s \in 0..n : T(a, s) = T(b, s) => a = b
  BY TurnOfBit
<1>2. /\ \A x, s : RotL(x, s, n) = {T(b, s) : b \in x}
      /\ \A x, s, y : y \in RotL(x, s, n) <=> \E b \in x : y = T(b, s)
  BY DEF RotL
<1>3. \A s \in 0..n : RotR(w, s, n) = {T(b, n - s) : b \in w}
  <2>. SUFFICES ASSUME NEW s \in 0..n PROVE RotR(w, s, n) = {T(b, n - s) : b \in w}
    OBVIOUS
  <2>1. \A b \in w : (b + n) - s = b + (n - s)
    BY <1>0
  <2>. QED  BY <2>1 DEF RotR
<1>. HIDE DEF T
<1>4. ASSUME NEW s \in Nat PROVE RotL(w, s, n) \in LabelsOf(n)
  <2>1. \A y \in RotL(w, s, n) : y \in 0..n - 1
    BY <1>0, <1>1, <1>2
  <2>. QED  BY <2>1 DEF LabelsOf
<1>5. ASSUME NEW s \in Nat, NEW t \in Nat PROVE RotL(RotL(w, s, n), t, n) = RotL(w, s + t, n)
  <2>1. ASSUME NEW y PROVE y \in RotL(RotL(w, s, n), t, n) <=> \E b \in w : y = T(T(b, s), t)
    BY <1>2
  <2>2. ASSUME NEW b \in w PROVE T(T(b, s), t) = T(b, s + t)
    <3>1. b \in Nat
      BY <1>0
    <3>2. \A x, y, z \in Nat : T(T(x, y), z) = T(x, y + z)
      BY <1>1
    <3>. QED  BY ONLY <3>1, <3>2, s \in Nat, t \in Nat
  <2>3. ASSUME NEW y PROVE y \in RotL(RotL(w, s, n), t, n) <=> y \in RotL(w, s + t, n)
    BY <2>1, <2>2, <1>2
  <2>. QED  BY <2>3
<1>6. RotL(w, 0, n) = w /\ RotL(w, n, n) = w
  <2>1. \A b \in w : T(b, 0) = b /\ T(b, n) = b
    BY <1>0, <1>1
  <2>2. ASSUME NEW y PROVE (y \in RotL(w, 0, n) <=> y \in w) /\ (y \in RotL(w, n, n) <=> y \in w)
    BY <2>1, <1>2
  <2>. QED  BY <2>2
<1>7. ASSUME NEW s \in 0..n - 1, NEW a \in 0..n - 1
      PROVE  /\ RotL(Upper(a, w), s, n) = Upper(T(a, s), RotL(w, s, n))
             /\ RotL(Lower(a, w), s, n) = Lower(T(a, s), RotL(w, s, n))
             /\ RotL(Flip(a, w), s, n) = Flip(T(a, s), RotL(w, s, n))
  <2>1. s \in 0..n /\ \A b \in w : T(b, s) = T(a, s) => b = a
    <3>1. s \in 0..n
      OBVIOUS
    <3>. QED  BY <3>1, <1>0, <1>1
  <2>2. RotL(Upper(a, w), s, n) = Upper(T(a, s), RotL(w, s, n))
    <3>1. ASSUME NEW y PROVE y \in RotL(w \ {a}, s, n) <=> y \in RotL(w, s, n) \ {T(a, s)}
      <4>1. y \in RotL(w \ {a}, s, n) <=> \E b \in w \ {a} : y = T(b, s)
        BY <1>2
      <4>2. y \in RotL(w, s, n) <=> \E b \in w : y = T(b, s)
        BY <1>2
      <4>. QED  BY <4>1, <4>2, <2>1
    <3>. QED  BY <3>1 DEF Upper
  <2>3. RotL(Lower(a, w), s, n) = Lower(T(a, s), RotL(w, s, n))
    <3>1. ASSUME NEW y PROVE y \in RotL(w \cup {a}, s, n) <=> y \in RotL(w, s, n) \cup {T(a, s)}
      <4>1. y \in RotL(w \cup {a}, s, n) <=> \E b \in w \cup {a} : y = T(b, s)
        BY <1>2
      <4>2. y \in RotL(w, s, n) <=> \E b \in w : y = T(b, s)
        BY <1>2
      <4>. QED  BY <4>1, <4>2
    <3>. QED  BY <3>1 DEF Lower
  <2>4. \A b, x : Flip(b, x) = IF b \in x THEN Upper(b, x) ELSE Lower(b, x)
    <3>. SUFFICES ASSUME NEW b, NEW x PROVE Flip(b, x) = IF b \in x THEN Upper(b, x) ELSE Lower(b, x)
      OBVIOUS
    <3>1. PairFacts(b)
      BY PairOfRows
    <3>. QED  BY <3>1 DEF PairFacts
  <2>5. a \in w <=> T(a, s) \in RotL(w, s, n)
    <3>1. T(a, s) \in RotL(w, s, n) <=> \E b \in w : T(a, s) = T(b, s)
      BY <1>2
    <3>. QED  BY <2>1, <3>1
  <2>. QED  BY <2>2, <2>3, <2>4, <2>5
<1>. QED  BY <1>2, <1>3, <1>4, <1>5, <1>6, <1>7 DEF T

\* Rotations undo each other and keep labels apart.
LEMMA TurnedOneWay ==
    ASSUME NEW n \in Nat, n > 0, NEW x \in LabelsOf(n), NEW y \in LabelsOf(n), NEW s \in 0..n
    PROVE  /\ RotL(RotR(x, s, n), s, n) = x /\ RotR(RotL(x, s, n), s, n) = x
           /\ RotL(x, s, n) = RotL(y, s, n) => x = y
           /\ RotR(x, s, n) = RotR(y, s, n) => x = y
           /\ RotR(x, s, n) \in LabelsOf(n)
<1>1. s \in Nat /\ n - s \in Nat /\ s + (n - s) = n /\ (n - s) + s = n
  OBVIOUS
<1>2. /\ RotR(x, s, n) = RotL(x, n - s, n) /\ RotR(y, s, n) = RotL(y, n - s, n)
      /\ RotL(x, s, n) \in LabelsOf(n) /\ RotL(y, s, n) \in LabelsOf(n)
      /\ RotR(x, s, n) \in LabelsOf(n) /\ RotR(y, s, n) \in LabelsOf(n)
  BY <1>1, Turns
<1>3. /\ RotL(RotL(x, s, n), n - s, n) = RotL(x, n, n) /\ RotL(RotL(y, s, n), n - s, n) = RotL(y, n, n)
      /\ RotL(RotL(x, n - s, n), s, n) = RotL(x, n, n) /\ RotL(RotL(y, n - s, n), s, n) = RotL(y, n, n)
  BY <1>1, Turns
<1>4. RotL(x, n, n) = x /\ RotL(y, n, n) = y
  BY Turns
<1>5. RotR(RotL(x, s, n), s, n) = RotL(RotL(x, s, n), n - s, n)
  BY <1>2, Turns
<1>. QED  BY <1>2, <1>3, <1>4, <1>5

-----------------------------------------------------------------------------

\* The router starts with both outer columns full, and the rest to do.
LEMMA NetworkStarts ==
    ASSUME NEW n \in Nat, n > 0, NEW A \in Columns(n), NEW Z \in Columns(n), NEW left, NEW s,
           A[n] = [w \in LabelsOf(n) |-> w],
           \A u, w \in LabelsOf(n) : Z[n][u] = Z[n][w] => u = w,
           \A p \in LabelsOf(n) : \E w \in LabelsOf(n) : Z[n][w] = p,
           Entered(<<[current_k |-> n, offset |-> {}]>>, left, s)
    PROVE  Network(n, <<[current_k |-> n, offset |-> {}]>>, A, Z, left, s)
<1>. DEFINE c == [current_k |-> n, offset |-> {}]
            stack == <<c>>
<1>1. c \in CallsOf(n) /\ c.current_k = n /\ c.offset = {}
  BY DEF CallsOf, LabelsOf
<1>2. stack \in Seq(CallsOf(n)) /\ Len(stack) = 1 /\ DOMAIN stack = 1..1 /\ stack[1] = c
  BY <1>1
<1>. HIDE DEF c, stack
<1>3. StackOf(n, stack) /\ Range(stack) = {c}
  BY <1>2 DEF StackOf, Range
<1>4. ASSUME NEW w \in LabelsOf(n) PROVE High(w, n) = {} /\ w \in RowsOf(n, c)
  <2>1. \A b \in w : b \in 0..n - 1 /\ ~(b >= n)
    BY DEF LabelsOf
  <2>2. High(w, n) = {}
    BY <2>1 DEF High
  <2>. QED  BY <1>1, <2>2 DEF RowsOf
<1>5. ASSUME NEW w \in LabelsOf(n), NEW d PROVE Ready(n, Range(stack), w, d) <=> n <= d
  BY <1>1, <1>3, <1>4 DEF Ready
<1>6. Wires(n, Range(stack), A, Z)
  <2>. SUFFICES ASSUME NEW d \in 1..n
                PROVE  /\ \A u, w \in LabelsOf(n) : Ready(n, Range(stack), u, d) /\ Ready(n, Range(stack), w, d) =>
                             (A[d][u] = A[d][w] => u = w) /\ (Z[d][u] = Z[d][w] => u = w)
                       /\ \A w \in LabelsOf(n) : Ready(n, Range(stack), w, d) =>
                             /\ \E u \in LabelsOf(n) : High(u, d) = High(w, d) /\ Z[d][u] = A[d][w]
                             /\ \E u \in LabelsOf(n) : High(u, d) = High(w, d) /\ A[d][u] = Z[d][w]
                       /\ \A w \in LabelsOf(n) : Ready(n, Range(stack), w, d - 1) =>
                             Switch(A[d], A[d - 1], d - 1, w) /\ Switch(Z[d], Z[d - 1], d - 1, w)
    BY DEF Wires
  <2>1. ~(n <= d - 1) /\ (n <= d => d = n)
    OBVIOUS
  <2>2. \A w \in LabelsOf(n) : Z[n][w] \in LabelsOf(n) /\ A[n][w] = w
    BY DEF Columns
  <2>3. CASE d # n
    BY <2>1, <2>3, <1>5
  <2>4. CASE d = n
    <3>1. \A w \in LabelsOf(n) : ~Ready(n, Range(stack), w, d - 1)
      BY <1>5, <2>1
    <3>2. \A u, w \in LabelsOf(n) : (A[d][u] = A[d][w] => u = w) /\ (Z[d][u] = Z[d][w] => u = w)
      BY <2>2, <2>4
    <3>3. ASSUME NEW w \in LabelsOf(n)
          PROVE  /\ \E u \in LabelsOf(n) : High(u, d) = High(w, d) /\ Z[d][u] = A[d][w]
                 /\ \E u \in LabelsOf(n) : High(u, d) = High(w, d) /\ A[d][u] = Z[d][w]
      <4>1. \A u \in LabelsOf(n) : High(u, d) = High(w, d)
        BY <1>4, <2>4
      <4>2. PICK u \in LabelsOf(n) : Z[d][u] = A[d][w]
        BY <2>2, <2>4
      <4>3. Z[d][w] \in LabelsOf(n) /\ A[d][Z[d][w]] = Z[d][w]
        BY <2>2, <2>4
      <4>. QED  BY <4>1, <4>2, <4>3
    <3>. QED  BY <3>1, <3>2, <3>3
  <2>. QED  BY <2>3, <2>4
<1>. QED  BY <1>3, <1>6, EnterCall DEF c, stack

-----------------------------------------------------------------------------
(* The steps of the router, over the columns as it stores them. *)

\* The reverse butterfly by levels: its first column is level n.
LevelOf(n, rv) == [d \in 0..n |-> rv[n - d]]

\* Counting the columns of the reverse butterfly from its end.
LEMMA Levels ==
    ASSUME NEW n \in Nat, NEW rv \in Columns(n)
    PROVE  /\ LevelOf(n, rv) \in Columns(n)
           /\ \A d \in 0..n : n - d \in 0..n /\ LevelOf(n, rv)[d] = rv[n - d]
<1>1. \A d \in 0..n : n - d \in 0..n
  OBVIOUS
<1>. QED  BY <1>1 DEF LevelOf, Columns

\* The column one level down, when two nodes of it are written.
TwoSet(f, x, y, p, q) == [f EXCEPT ![x] = p, ![y] = q]
TwoWritten(col, e, x, y, p, q) == [col EXCEPT ![e][x] = p, ![e][y] = q]

Rewritten(n, col, e, x, y, p, q) ==
    LET col2 == TwoWritten(col, e, x, y, p, q)
    IN  /\ col2 \in Columns(n) /\ col2[e] = TwoSet(col[e], x, y, p, q)
        /\ \A d \in 0..n : d # e => col2[d] = col[d]

\* Writing two nodes of one column changes that column only.
LEMMA ColumnWritten ==
    ASSUME NEW n \in Nat, NEW col \in Columns(n), NEW e \in 0..n, NEW x \in LabelsOf(n), NEW y \in LabelsOf(n),
           NEW p \in LabelsOf(n), NEW q \in LabelsOf(n)
    PROVE  Rewritten(n, col, e, x, y, p, q)
<1>. DEFINE col2 == TwoWritten(col, e, x, y, p, q)
<1>1. col2[e] = [col[e] EXCEPT ![x] = p, ![y] = q] /\ \A d \in 0..n : d # e => col2[d] = col[d]
  BY DEF Columns, TwoWritten
<1>2. DOMAIN col2 = 0..n /\ col2 = [d \in 0..n |-> col2[d]]
  BY DEF Columns, TwoWritten
<1>3. \A d \in 0..n : col2[d] \in [LabelsOf(n) -> LabelsOf(n)]
  BY <1>1 DEF Columns
<1>4. col2 \in Columns(n)
  BY <1>2, <1>3 DEF Columns
<1>5. col2[e] = TwoSet(col[e], x, y, p, q)
  BY <1>1 DEF TwoSet
<1>. QED  BY <1>1, <1>4, <1>5 DEF Rewritten

\* What StopRecursion writes.
CopyWrites(n, c, rv, bt, rv2, bt2) ==
    LET rows == {c.offset, c.offset \cup {0}}
        Copy(from, to) == [w \in LabelsOf(n) |-> IF w \in rows THEN from[w] ELSE to[w]]
    IN  /\ rv2 = [rv EXCEPT ![n] = Copy(rv[n - 1], rv[n])]
        /\ bt2 = [bt EXCEPT ![0] = Copy(bt[1], bt[0])]

\* The first of a sequence is one of its elements.
LEMMA HeadOfSeq ==
    ASSUME NEW S, NEW q \in Seq(S), q # <<>>
    PROVE  Head(q) \in Range(q) /\ Range(q) \subseteq S
<1>1. Head(q) = q[1] /\ 1 \in DOMAIN q /\ \A i \in DOMAIN q : q[i] \in S
  OBVIOUS
<1>. QED  BY <1>1 DEF Range

\* The outer columns stay as they are.
Kept(n, rv, bt, rv2, bt2) ==
    rv2 \in Columns(n) /\ bt2 \in Columns(n) /\ rv2[0] = rv[0] /\ bt2[n] = bt[n]

\* A step of StopRecursion, over the two butterflies as they are stored.
LEMMA CopyStep ==
    ASSUME NEW n, n \in Nat, n > 0, NEW rv \in Columns(n), NEW bt \in Columns(n),
           NEW stack, NEW left, NEW s, Network(n, stack, LevelOf(n, rv), bt, left, s),
           stack # <<>>, Head(stack).current_k = 1, NEW rv2, NEW bt2,
           CopyWrites(n, Head(stack), rv, bt, rv2, bt2), NEW left2, NEW s2, Entered(Tail(stack), left2, s2)
    PROVE  /\ Kept(n, rv, bt, rv2, bt2)
           /\ Network(n, Tail(stack), LevelOf(n, rv2), bt2, left2, s2)
<1>. DEFINE A == LevelOf(n, rv)
            A2 == LevelOf(n, rv2)
            rows == {Head(stack).offset, Head(stack).offset \cup {0}}
<1>. HIDE DEF A, A2, rows
<1>1. n \in 0..n /\ 0 \in 0..n /\ 1 \in 0..n /\ n - 1 \in 0..n /\ n # 0
  OBVIOUS
<1>2. /\ rv2 \in Columns(n) /\ bt2 \in Columns(n)
      /\ \A e \in 0..n : (e # n => rv2[e] = rv[e]) /\ (e # 0 => bt2[e] = bt[e])
      /\ rv2[n] = [w \in LabelsOf(n) |-> IF w \in rows THEN rv[n - 1][w] ELSE rv[n][w]]
      /\ bt2[0] = [w \in LabelsOf(n) |-> IF w \in rows THEN bt[1][w] ELSE bt[0][w]]
  <2>1. [w \in LabelsOf(n) |-> IF w \in rows THEN rv[n - 1][w] ELSE rv[n][w]] \in [LabelsOf(n) -> LabelsOf(n)]
    BY <1>1 DEF Columns
  <2>2. [w \in LabelsOf(n) |-> IF w \in rows THEN bt[1][w] ELSE bt[0][w]] \in [LabelsOf(n) -> LabelsOf(n)]
    BY <1>1 DEF Columns
  <2>3. /\ rv2 = [rv EXCEPT ![n] = [w \in LabelsOf(n) |-> IF w \in rows THEN rv[n - 1][w] ELSE rv[n][w]]]
        /\ bt2 = [bt EXCEPT ![0] = [w \in LabelsOf(n) |-> IF w \in rows THEN bt[1][w] ELSE bt[0][w]]]
    BY DEF CopyWrites, rows
  <2>. QED  BY <1>1, <2>1, <2>2, <2>3 DEF Columns
<1>3. A \in Columns(n) /\ A2 \in Columns(n) /\ \A d \in 0..n : n - d \in 0..n /\ A[d] = rv[n - d] /\ A2[d] = rv2[n - d]
  BY <1>2, Levels DEF A, A2
<1>4. Copied(n, Head(stack), A, bt, A2, bt2)
  <2>1. \A e \in 1..n : A2[e] = A[e] /\ bt2[e] = bt[e]
    <3>. SUFFICES ASSUME NEW e \in 1..n PROVE A2[e] = A[e] /\ bt2[e] = bt[e]
      OBVIOUS
    <3>1. e \in 0..n /\ n - e \in 0..n /\ n - e # n /\ e # 0
      OBVIOUS
    <3>. QED  BY <3>1, <1>2, <1>3
  <2>2. A2[0] = rv2[n] /\ A[0] = rv[n] /\ A[1] = rv[n - 1]
    BY <1>1, <1>3
  <2>. QED  BY <2>1, <2>2, <1>2 DEF Copied, rows
<1>5. StackOf(n, stack) /\ Wires(n, Range(stack), A, bt)
  BY DEF Network, A
<1>6. StackOf(n, Tail(stack)) /\ Wires(n, Range(Tail(stack)), A2, bt2)
  BY <1>3, <1>4, <1>5, CopyEnds
<1>7. Network(n, Tail(stack), A2, bt2, left2, s2)
  BY <1>2, <1>3, <1>6, EnterCall
<1>. QED  BY <1>1, <1>2, <1>7 DEF A2, Kept

\* One turn of the inner loop, and what is left to route after it.
PairWrites(n, m, s, dst, tw, down, rv, bt, rv2, bt2) ==
    /\ rv2 = TwoWritten(rv, n - m + 1, Upper(m - 1, s), Lower(m - 1, tw), rv[n - m][s], down)
    /\ bt2 = TwoWritten(bt, m - 1, Upper(m - 1, dst), Lower(m - 1, dst), rv[n - m][s], down)

\* The row routed next: the pair of the row that went down, or the first one left.
NextRow(c, t, left) ==
    LET next == Flip(c.current_k - 1, t)
    IN  IF next \ c.offset \in left THEN next ELSE c.offset \cup First(left)

\* All rows of the call have been routed.
AllThrough(n, c, A, Z, A2, Z2) ==
    LET m == c.current_k
        B == RowsOf(n, c)
    IN  \E up : Placed(B, m - 1, A[m], Z[m], A2[m - 1], Z2[m - 1], B, up)

\* TurnRuns, with the next row and the end of the rows by name.
LEMMA TurnGoesOn ==
    ASSUME NEW n \in Nat, NEW stack, stack # <<>>, Head(stack).current_k > 1,
           NEW A, NEW Z, NEW left, NEW s, Network(n, stack, A, Z, left, s),
           NEW A2 \in Columns(n), NEW Z2 \in Columns(n), Turned(n, Head(stack), A, Z, s, A2, Z2),
           NEW left2, left2 = left \ {s \ Head(stack).offset,
                                      TwinOf(n, Head(stack), A, Z, s) \ Head(stack).offset}
    PROVE  /\ Writes(n, Head(stack), A, Z, A2, Z2)
           /\ left2 # {} => Running(n, Head(stack), A2, Z2, left2,
                                    NextRow(Head(stack), TwinOf(n, Head(stack), A, Z, s), left2))
           /\ left2 = {} => AllThrough(n, Head(stack), A, Z, A2, Z2)
BY TurnRuns DEF NextRow, AllThrough

\* The inner loop goes on, or the call is replaced by its halves.
Advances(stack, tw, rest, stack2, left2, s2) ==
    IF rest # {}
    THEN /\ stack2 = stack /\ left2 = rest
         /\ s2 = NextRow(Head(stack), tw, rest)
    ELSE stack2 = Halves(Head(stack)) \o Tail(stack) /\ Entered(stack2, left2, s2)

\* A step of RoutePair, over the two butterflies as they are stored: the inner loop
\* goes on, or the call is replaced by its halves.
LEMMA PairStep ==
    ASSUME NEW n, n \in Nat, n > 0, NEW rv \in Columns(n), NEW bt \in Columns(n),
           NEW stack, NEW left, NEW s, Network(n, stack, LevelOf(n, rv), bt, left, s),
           stack # <<>>, left # {}, NEW m, m = Head(stack).current_k,
           NEW dst, dst = RowWith(n, bt[m], rv[n - m][s]),
           NEW down, down = bt[m][Flip(m - 1, dst)],
           NEW tw, tw = RowWith(n, rv[n - m], down),
           NEW rv2, NEW bt2, PairWrites(n, m, s, dst, tw, down, rv, bt, rv2, bt2),
           NEW rest, rest = left \ {s \ Head(stack).offset, tw \ Head(stack).offset},
           NEW stack2, NEW left2, NEW s2, Advances(stack, tw, rest, stack2, left2, s2)
    PROVE  /\ Kept(n, rv, bt, rv2, bt2)
           /\ Network(n, stack2, LevelOf(n, rv2), bt2, left2, s2)
<1>. DEFINE A == LevelOf(n, rv)
            A2 == LevelOf(n, rv2)
            c == Head(stack)
            B == RowsOf(n, c)
<1>1. A \in Columns(n) /\ \A d \in 0..n : n - d \in 0..n /\ A[d] = rv[n - d]
  BY Levels
<1>2. StackOf(n, stack) /\ Wires(n, Range(stack), A, bt) /\ c.current_k > 1 /\ Running(n, c, A, bt, left, s)
  BY DEF Network
<1>3. m = c.current_k /\ c \in CallsOf(n) /\ m \in 1..n /\ m > 1 /\ s \in B
  <2>1. c \in CallsOf(n)
    BY <1>2, HeadOwns
  <2>2. s \in B
    BY <1>2 DEF Running
  <2>. QED  BY <1>2, <2>1, <2>2 DEF CallsOf
<1>4. m \in 0..n /\ m - 1 \in 0..n /\ m - 1 # 0 /\ n - m \in 0..n /\ n - m + 1 \in 0..n /\ m - 1 \in 0..n - 1
      /\ n - (m - 1) = n - m + 1 /\ n - m + 1 # 0 /\ m - 1 # n
  <2>1. m \in 1..n /\ m > 1
    BY <1>3
  <2>. QED  BY ONLY <2>1, n \in Nat
<1>. HIDE DEF A, A2, c, B
<1>5. B \subseteq LabelsOf(n) /\ s \in LabelsOf(n) /\ rv[n - m][s] \in LabelsOf(n)
  BY <1>3, <1>4 DEF B, RowsOf, Columns
<1>6. /\ dst = DstOf(n, c, A, bt, s) /\ down = DownOf(n, c, A, bt, s) /\ tw = TwinOf(n, c, A, bt, s)
      /\ A[m] = rv[n - m]
  <2>1. A[m] = rv[n - m]
    BY <1>1, <1>4
  <2>2. dst = DstOf(n, c, A, bt, s)
    BY <2>1, <1>3 DEF DstOf
  <2>3. down = DownOf(n, c, A, bt, s)
    BY <2>2, <1>3 DEF DownOf
  <2>4. tw = TwinOf(n, c, A, bt, s)
    BY <2>1, <2>3, <1>3 DEF TwinOf
  <2>. QED  BY <2>1, <2>2, <2>3, <2>4
<1>7. dst \in B /\ tw \in B /\ A[m][s] = rv[n - m][s]
  <2>1. \A d \in B : RowWith(n, A[m], A[m][d]) = d /\ RowWith(n, bt[m], bt[m][d]) = d
    BY <1>2, <1>3, BlockOfCall DEF B, c
  <2>2. Block(B, m - 1, A[m], bt[m])
    BY <1>2, <1>3, BlockOfCall DEF B, c
  <2>3. PICK u \in B : bt[m][u] = A[m][s]
    BY <2>2, <1>3 DEF Block
  <2>4. dst = u
    BY <2>1, <2>3, <1>6
  <2>5. Flip(m - 1, dst) \in B
    BY <2>2, <2>4 DEF Block
  <2>6. PICK v \in B : A[m][v] = down
    BY <2>2, <2>5 DEF Block
  <2>7. tw = v
    BY <2>1, <2>6, <1>6
  <2>. QED  BY <2>4, <2>7, <1>6
<1>8. Flip(m - 1, dst) \in LabelsOf(n) /\ down \in LabelsOf(n)
  <2>1. dst \in LabelsOf(n)
    BY <1>5, <1>7
  <2>2. Flip(m - 1, dst) \in LabelsOf(n)
    BY <2>1, <1>4, HighFacts
  <2>. QED  BY <2>2, <1>4 DEF Columns
<1>9. /\ Upper(m - 1, s) \in LabelsOf(n) /\ Lower(m - 1, tw) \in LabelsOf(n)
      /\ Upper(m - 1, dst) \in LabelsOf(n) /\ Lower(m - 1, dst) \in LabelsOf(n)
  <2>1. s \in LabelsOf(n) /\ tw \in LabelsOf(n) /\ dst \in LabelsOf(n)
    BY <1>5, <1>7
  <2>. QED  BY <2>1, <1>4, HighFacts
<1>10. /\ rv2 \in Columns(n)
       /\ rv2[n - m + 1] = [rv[n - m + 1] EXCEPT ![Upper(m - 1, s)] = rv[n - m][s], ![Lower(m - 1, tw)] = down]
       /\ \A d \in 0..n : d # n - m + 1 => rv2[d] = rv[d]
  <2>. DEFINE e == n - m + 1
              x == Upper(m - 1, s)
              y == Lower(m - 1, tw)
              p == rv[n - m][s]
  <2>1. e \in 0..n /\ x \in LabelsOf(n) /\ y \in LabelsOf(n) /\ p \in LabelsOf(n)
    BY <1>4, <1>5, <1>9
  <2>2. rv2 = TwoWritten(rv, e, x, y, p, down)
    BY DEF PairWrites
  <2>. HIDE DEF e, x, y, p
  <2>3. /\ rv2 \in Columns(n) /\ rv2[e] = TwoSet(rv[e], x, y, p, down)
        /\ \A d \in 0..n : d # e => rv2[d] = rv[d]
    <3>1. e \in 0..n /\ x \in LabelsOf(n) /\ y \in LabelsOf(n) /\ p \in LabelsOf(n) /\ down \in LabelsOf(n)
      BY <2>1, <1>8
    <3>2. Rewritten(n, rv, e, x, y, p, down)
      BY <3>1, ColumnWritten
    <3>. QED  BY <3>2, <2>2 DEF Rewritten
  <2>. QED  BY <2>3 DEF e, x, y, p, TwoSet
<1>11. /\ bt2 \in Columns(n)
       /\ bt2[m - 1] = [bt[m - 1] EXCEPT ![Upper(m - 1, dst)] = rv[n - m][s], ![Lower(m - 1, dst)] = down]
       /\ \A d \in 0..n : d # m - 1 => bt2[d] = bt[d]
  <2>. DEFINE e == m - 1
              x == Upper(m - 1, dst)
              y == Lower(m - 1, dst)
              p == rv[n - m][s]
  <2>1. e \in 0..n /\ x \in LabelsOf(n) /\ y \in LabelsOf(n) /\ p \in LabelsOf(n)
    BY <1>4, <1>5, <1>9
  <2>2. bt2 = TwoWritten(bt, e, x, y, p, down)
    BY DEF PairWrites
  <2>. HIDE DEF e, x, y, p
  <2>3. /\ bt2 \in Columns(n) /\ bt2[e] = TwoSet(bt[e], x, y, p, down)
        /\ \A d \in 0..n : d # e => bt2[d] = bt[d]
    <3>1. e \in 0..n /\ x \in LabelsOf(n) /\ y \in LabelsOf(n) /\ p \in LabelsOf(n) /\ down \in LabelsOf(n)
      BY <2>1, <1>8
    <3>2. Rewritten(n, bt, e, x, y, p, down)
      BY <3>1, ColumnWritten
    <3>. QED  BY <3>2, <2>2 DEF Rewritten
  <2>. QED  BY <2>3 DEF e, x, y, p, TwoSet
<1>12. A2 \in Columns(n) /\ \A d \in 0..n : n - d \in 0..n /\ A2[d] = rv2[n - d]
  BY <1>10, Levels DEF A2
<1>13. Turned(n, c, A, bt, s, A2, bt2)
  <2>1. \A e \in 0..n : e # m - 1 => A2[e] = A[e] /\ bt2[e] = bt[e]
    <3>. SUFFICES ASSUME NEW e \in 0..n, e # m - 1 PROVE A2[e] = A[e] /\ bt2[e] = bt[e]
      OBVIOUS
    <3>1. n - e # n - m + 1 /\ n - e \in 0..n
      <4>1. m \in 1..n
        BY <1>3
      <4>. QED  BY ONLY <4>1, n \in Nat, e \in 0..n, e # m - 1
    <3>2. rv2[n - e] = rv[n - e]
      BY <3>1, <1>10
    <3>3. A2[e] = rv2[n - e] /\ A[e] = rv[n - e]
      BY <1>1, <1>12
    <3>. QED  BY <3>2, <3>3, <1>11
  <2>2. A2[m - 1] = rv2[n - m + 1] /\ A[m - 1] = rv[n - m + 1]
    BY <1>1, <1>4, <1>12
  <2>3. A2[m - 1] = [A[m - 1] EXCEPT ![Upper(m - 1, s)] = A[m][s], ![Lower(m - 1, tw)] = down]
    BY <2>2, <1>7, <1>10
  <2>4. bt2[m - 1] = [bt[m - 1] EXCEPT ![Upper(m - 1, dst)] = A[m][s], ![Lower(m - 1, dst)] = down]
    BY <1>7, <1>11
  <2>. QED  BY <2>1, <2>3, <2>4, <1>3, <1>6 DEF Turned
<1>14. Network(n, stack, A, bt, left, s)
  BY DEF A
<1>15. rest = left \ {s \ Head(stack).offset, TwinOf(n, Head(stack), A, bt, s) \ Head(stack).offset}
  BY <1>6 DEF c
<1>16. /\ Writes(n, c, A, bt, A2, bt2)
       /\ rest # {} => Running(n, c, A2, bt2, rest, NextRow(c, tw, rest))
       /\ rest = {} => AllThrough(n, c, A, bt, A2, bt2)
  <2>1. Head(stack).current_k > 1 /\ A2 \in Columns(n) /\ bt2 \in Columns(n)
        /\ Turned(n, Head(stack), A, bt, s, A2, bt2)
    BY <1>2, <1>11, <1>12, <1>13 DEF c
  <2>2. tw = TwinOf(n, Head(stack), A, bt, s)
    BY <1>6 DEF c
  <2>. QED  BY ONLY <2>1, <2>2, <1>14, <1>15, TurnGoesOn, n \in Nat, stack # <<>> DEF c
<1>17. Network(n, stack2, A2, bt2, left2, s2)
  <2>1. CASE rest # {}
    <3>1. stack2 = stack /\ left2 = rest /\ Running(n, c, A2, bt2, left2, s2)
      BY <2>1, <1>3, <1>16 DEF c, Advances
    <3>2. c \in Range(stack) /\ Range(stack) \subseteq CallsOf(n)
      <4>1. stack \in Seq(CallsOf(n)) /\ stack # <<>>
        BY <1>2 DEF StackOf
      <4>. QED  BY <4>1, HeadOfSeq DEF c
    <3>3. Wires(n, Range(stack), A2, bt2)
      BY <3>2, <1>2, <1>16, WiresKept
    <3>. QED  BY <3>1, <3>3, <1>2, <1>11, <1>12 DEF Network, c
  <2>2. CASE rest = {}
    <3>1. stack2 = Halves(c) \o Tail(stack) /\ Entered(stack2, left2, s2)
      BY <2>2 DEF c, Advances
    <3>2. PICK up : Placed(B, m - 1, A[m], bt[m], A2[m - 1], bt2[m - 1], B, up)
      BY <2>2, <1>3, <1>16 DEF AllThrough, B
    <3>3. StackOf(n, stack2) /\ Wires(n, Range(stack2), A2, bt2)
      BY <3>1, <3>2, <1>1, <1>2, <1>3, <1>16, TurnEnds DEF B, c
    <3>. QED  BY <3>1, <3>3, <1>11, <1>12, EnterCall
  <2>. QED  BY <2>1, <2>2
<1>18. rv2[0] = rv[0] /\ bt2[n] = bt[n]
  <2>1. 0 \in 0..n /\ n \in 0..n /\ 0 # n - m + 1 /\ n # m - 1
    <3>1. m \in 1..n
      BY <1>3
    <3>. QED  BY ONLY <3>1, n \in Nat
  <2>. QED  BY <2>1, <1>10, <1>11
<1>. QED  BY <1>10, <1>11, <1>17, <1>18 DEF A2, Kept

-----------------------------------------------------------------------------
(* The router's invariant. *)

\* A permutation of the rows.
OneToOne(n, f) ==
    /\ f \in [LabelsOf(n) -> LabelsOf(n)]
    /\ \A u, w \in LabelsOf(n) : f[u] = f[w] => u = w
    /\ \A p \in LabelsOf(n) : \E w \in LabelsOf(n) : f[w] = p

\* The router's invariant: its outer columns are the identity and the permutation,
\* relabelled, and what lies between is a network in the making.
RouteInv ==
    /\ k \in Nat \ {0}
    /\ OneToOne(k, permutation)
    /\ rev \in Columns(k) /\ btr \in Columns(k)
    /\ rev[0] = [w \in LabelsOf(k) |-> w] /\ btr[k] = shiftRight(permutation)
    /\ Network(k, calls, LevelOf(k, rev), btr, unrouted, src)

\* Enter takes up the first call that is left.
LEMMA EnterEnters ==
    ASSUME NEW rest, Enter(rest)
    PROVE  calls' = rest /\ Entered(rest, unrouted', src')
BY DEF Enter, Entered, LabelsOf

\* StopRecursion keeps the router's invariant.
LEMMA StopKeeps ==
    ASSUME RouteInv, StopRecursion, UNCHANGED <<k, permutation>>
    PROVE  RouteInv'
<1>1. k \in Nat /\ k > 0 /\ rev \in Columns(k) /\ btr \in Columns(k) /\ calls # <<>> /\ Head(calls).current_k = 1
      /\ Network(k, calls, LevelOf(k, rev), btr, unrouted, src)
  BY DEF RouteInv, StopRecursion
<1>2. CopyWrites(k, Head(calls), rev, btr, rev', btr')
  BY DEF StopRecursion, CopyWrites, Labels, LabelsOf
<1>3. calls' = Tail(calls) /\ Entered(Tail(calls), unrouted', src')
  <2>1. Enter(Tail(calls))
    BY DEF StopRecursion
  <2>. QED  BY <2>1, EnterEnters
<1>4. /\ Kept(k, rev, btr, rev', btr')
      /\ Network(k, calls', LevelOf(k, rev'), btr', unrouted', src')
  BY <1>1, <1>2, <1>3, CopyStep
<1>5. k' = k /\ permutation' = permutation /\ shiftRight(permutation)' = shiftRight(permutation)
  BY DEF shiftRight, Labels
<1>. QED  BY <1>4, <1>5 DEF RouteInv, Kept

\* RoutePair keeps the router's invariant.
LEMMA PairKeeps ==
    ASSUME RouteInv, RoutePair, UNCHANGED <<k, permutation>>
    PROVE  RouteInv'
<1>. DEFINE c    == Head(calls)
            m    == c.current_k
            dst  == RowWith(k, btr[m], rev[k - m][src])
            down == btr[m][Flip(m - 1, dst)]
            tw   == RowWith(k, rev[k - m], down)
            rest == unrouted \ {src \ c.offset, tw \ c.offset}
<1>1. k \in Nat /\ k > 0 /\ rev \in Columns(k) /\ btr \in Columns(k) /\ calls # <<>> /\ unrouted # {}
      /\ Network(k, calls, LevelOf(k, rev), btr, unrouted, src)
  <2>1. calls # <<>> /\ unrouted # {}
    BY DEF RoutePair
  <2>. QED  BY <2>1 DEF RouteInv
<1>2. /\ dst = Find(btr[m], rev[k - m][src]) /\ down = btr[m][Plus(dst, {m - 1})]
      /\ tw = Find(rev[k - m], down)
  BY DEF RowWith, Find, Flip, Labels, LabelsOf
<1>3. PairWrites(k, m, src, dst, tw, down, rev, btr, rev', btr')
  <2>. HIDE DEF dst, down, tw, rest
  <2>1. /\ rev' = [rev EXCEPT ![k - m + 1][src \ {m - 1}] = rev[k - m][src],
                              ![k - m + 1][tw \cup {m - 1}] = down]
        /\ btr' = [btr EXCEPT ![m - 1][dst \ {m - 1}] = rev[k - m][src],
                              ![m - 1][dst \cup {m - 1}] = down]
    BY <1>2 DEF RoutePair
  <2>. QED  BY <2>1 DEF PairWrites, TwoWritten, Upper, Lower
<1>4. Advances(calls, tw, rest, calls', unrouted', src')
  <2>. DEFINE next == Plus(tw, {m - 1})
  <2>1. IF rest # {}
        THEN /\ unrouted' = rest
             /\ src' = IF next \ c.offset \in rest THEN next ELSE c.offset \cup First(rest)
             /\ UNCHANGED calls
        ELSE Enter(<<Call(m - 1, c.offset), Call(m - 1, c.offset \cup {m - 1})>> \o Tail(calls))
    <3>. HIDE DEF dst, down, tw
    <3>. QED  BY <1>2 DEF RoutePair
  <2>. HIDE DEF dst, down, tw, rest
  <2>2. CASE rest # {}
    BY <2>1, <2>2 DEF Advances, NextRow, Flip
  <2>3. CASE rest = {}
    <3>1. Enter(Halves(c) \o Tail(calls))
      BY <2>1, <2>3 DEF Halves, Call
    <3>2. calls' = Halves(c) \o Tail(calls) /\ Entered(Halves(c) \o Tail(calls), unrouted', src')
      BY <3>1, EnterEnters
    <3>. QED  BY <3>2, <2>3 DEF Advances
  <2>. QED  BY <2>2, <2>3
<1>5. /\ Kept(k, rev, btr, rev', btr')
      /\ Network(k, calls', LevelOf(k, rev'), btr', unrouted', src')
  <2>. HIDE DEF dst, down, tw, rest
  <2>. QED  BY <1>1, <1>3, <1>4, PairStep DEF dst, down, tw, rest
<1>6. k' = k /\ permutation' = permutation /\ shiftRight(permutation)' = shiftRight(permutation)
  BY DEF shiftRight, Labels
<1>. QED  BY <1>5, <1>6 DEF RouteInv, Kept

\* Every step of the router keeps its invariant.
LEMMA RouteKeeps ==
    ASSUME RouteInv, Route
    PROVE  RouteInv'
BY StopKeeps, PairKeeps DEF Route

\* The relabelled permutation reaches every row once too.
LEMMA ShiftedOneToOne ==
    ASSUME NEW n \in Nat, n > 0, NEW f, OneToOne(n, f),
           NEW g, g = [i \in LabelsOf(n) |-> RotR(f[RotL(i, 1, n)], 1, n)]
    PROVE  OneToOne(n, g)
<1>1. 1 \in 0..n
  OBVIOUS
<1>2. \A x \in LabelsOf(n) : /\ RotL(x, 1, n) \in LabelsOf(n) /\ RotR(x, 1, n) \in LabelsOf(n)
                             /\ RotL(RotR(x, 1, n), 1, n) = x /\ RotR(RotL(x, 1, n), 1, n) = x
  <2>. TAKE x \in LabelsOf(n)
  <2>1. RotL(x, 1, n) \in LabelsOf(n)
    BY <1>1, Turns
  <2>2. RotL(RotR(x, 1, n), 1, n) = x /\ RotR(RotL(x, 1, n), 1, n) = x /\ RotR(x, 1, n) \in LabelsOf(n)
    BY <1>1, TurnedOneWay
  <2>. QED  BY <2>1, <2>2
<1>3. g \in [LabelsOf(n) -> LabelsOf(n)]
  BY <1>2 DEF OneToOne
<1>4. ASSUME NEW u \in LabelsOf(n), NEW w \in LabelsOf(n), g[u] = g[w] PROVE u = w
  <2>1. f[RotL(u, 1, n)] \in LabelsOf(n) /\ f[RotL(w, 1, n)] \in LabelsOf(n)
    BY <1>2 DEF OneToOne
  <2>2. RotR(f[RotL(u, 1, n)], 1, n) = RotR(f[RotL(w, 1, n)], 1, n)
    BY <1>4
  <2>3. f[RotL(u, 1, n)] = f[RotL(w, 1, n)]
    BY <2>1, <2>2, <1>2
  <2>4. RotL(u, 1, n) = RotL(w, 1, n)
    BY <2>3, <1>2 DEF OneToOne
  <2>. QED  BY <2>4, <1>2
<1>5. ASSUME NEW p \in LabelsOf(n) PROVE \E w \in LabelsOf(n) : g[w] = p
  <2>1. PICK v \in LabelsOf(n) : f[v] = RotL(p, 1, n)
    BY <1>2 DEF OneToOne
  <2>2. RotL(RotR(v, 1, n), 1, n) = v /\ RotR(v, 1, n) \in LabelsOf(n)
    BY <1>2
  <2>3. g[RotR(v, 1, n)] = RotR(f[v], 1, n)
    BY <2>2
  <2>. QED  BY <2>1, <2>2, <2>3, <1>2
<1>. QED  BY <1>3, <1>4, <1>5 DEF OneToOne

\* constructBenes, given a one to one permutation, starts in the invariant.
LEMMA RouteStarts ==
    ASSUME k \in Nat \ {0}, k' = k, OneToOne(k, permutation'), constructBenes(permutation')
    PROVE  RouteInv'
<1>. DEFINE zeros == [l \in 0..k |-> [w \in LabelsOf(k) |-> {}]]
            start == <<[current_k |-> k, offset |-> {}]>>
<1>1. k \in Nat /\ k > 0 /\ 0 \in 0..k /\ k \in 0..k /\ k - k = 0 /\ {} \in LabelsOf(k)
  BY DEF LabelsOf
<1>2. /\ rev' = [zeros EXCEPT ![0] = [w \in LabelsOf(k) |-> w]]
      /\ btr' = [zeros EXCEPT ![k] = shiftRight(permutation')]
      /\ Enter(start)
  BY DEF constructBenes, Labels, LabelsOf, Call
<1>3. calls' = start /\ Entered(start, unrouted', src')
  BY <1>2, EnterEnters
<1>4. shiftRight(permutation') = [i \in LabelsOf(k) |-> RotR(permutation'[RotL(i, 1, k)], 1, k)]
  BY DEF shiftRight, Labels, LabelsOf
<1>5. OneToOne(k, shiftRight(permutation'))
  BY <1>1, <1>4, ShiftedOneToOne
<1>6. rev' \in Columns(k) /\ btr' \in Columns(k) /\ rev'[0] = [w \in LabelsOf(k) |-> w] /\ btr'[k] = shiftRight(permutation')
  <2>1. zeros \in [0..k -> [LabelsOf(k) -> LabelsOf(k)]]
    BY <1>1
  <2>2. shiftRight(permutation') \in [LabelsOf(k) -> LabelsOf(k)]
    BY <1>5 DEF OneToOne
  <2>3. [w \in LabelsOf(k) |-> w] \in [LabelsOf(k) -> LabelsOf(k)]
    OBVIOUS
  <2>. HIDE DEF zeros
  <2>. QED  BY <1>1, <1>2, <2>1, <2>2, <2>3 DEF Columns
<1>7. LevelOf(k, rev') \in Columns(k) /\ LevelOf(k, rev')[k] = [w \in LabelsOf(k) |-> w]
  BY <1>1, <1>6, Levels
<1>8. /\ \A u, w \in LabelsOf(k) : btr'[k][u] = btr'[k][w] => u = w
      /\ \A p \in LabelsOf(k) : \E w \in LabelsOf(k) : btr'[k][w] = p
  BY <1>5, <1>6 DEF OneToOne
<1>9. Network(k, start, LevelOf(k, rev'), btr', unrouted', src')
  BY <1>1, <1>3, <1>6, <1>7, <1>8, NetworkStarts
<1>10. shiftRight(permutation)' = shiftRight(permutation')
  BY <1>4 DEF shiftRight, Labels, LabelsOf
<1>. QED  BY <1>3, <1>6, <1>9, <1>10 DEF RouteInv

-----------------------------------------------------------------------------
(* The folded network, read by levels. *)

\* The folded network by levels: the column a wing reads, its row and what it holds.
WingColumn(n, A, Z, wing, l) ==
    IF l >= n THEN A[0] ELSE IF wing = 0 THEN A[n - l] ELSE Z[n - l]

\* The row of the butterfly that a node of a wing stands for.
RowAt(n, l, w) == IF l < n THEN RotL(w, n - 1 - l, n) ELSE RotL(RotR(w, l - n, n), n - 1, n)

\* What the node holds.
Held(n, A, Z, wing, l, w) == RotL(WingColumn(n, A, Z, wing, l)[RowAt(n, l, w)], 1, n)

\* Its two neighbours in the next column.
NextRows(n, w) == {RotL(w, 1, n), RotL(Flip(0, w), 1, n)}

\* The edges of the DeBruijn network are the butterfly's, seen from turned rows.
LEMMA RowMoves ==
    ASSUME NEW n \in Nat, n > 0, NEW w \in LabelsOf(n), NEW l \in 0..2 * n - 1
    PROVE  /\ RowAt(n, l, w) \in LabelsOf(n) /\ RowAt(n, l + 1, w) \in LabelsOf(n)
           /\ NextRows(n, w) \subseteq LabelsOf(n)
           /\ RowAt(n, l + 1, RotL(w, 1, n)) = RowAt(n, l, w)
           /\ l < n => RowAt(n, l + 1, RotL(Flip(0, w), 1, n)) = Flip(n - 1 - l, RowAt(n, l, w))
<1>1. \A x \in LabelsOf(n) : /\ \A s \in Nat : RotL(x, s, n) \in LabelsOf(n)
                             /\ \A s, t \in Nat : RotL(RotL(x, s, n), t, n) = RotL(x, s + t, n)
                             /\ RotL(x, 0, n) = x /\ RotL(x, n, n) = x
                             /\ \A s \in 0..n : RotR(x, s, n) = RotL(x, n - s, n)
  BY Turns
<1>2. \A x \in LabelsOf(n), s \in 0..n - 1 : RotL(Flip(0, x), s, n) = Flip(s, RotL(x, s, n))
  <2>. TAKE x \in LabelsOf(n), s \in 0..n - 1
  <2>1. 0 \in 0..n - 1
    OBVIOUS
  <2>2. RotL(Flip(0, x), s, n) = Flip((0 + s) % n, RotL(x, s, n))
    BY <2>1, Turns
  <2>3. (0 + s) % n = s
    <3>1. s \in 0..n - 1 /\ 0 + s = s + 0
      OBVIOUS
    <3>. QED  BY <3>1, TurnOfBit
  <2>. QED  BY <2>2, <2>3
<1>3. Flip(0, w) \in LabelsOf(n)
  <2>1. 0 \in 0..n - 1
    OBVIOUS
  <2>. QED  BY <2>1, HighFacts
<1>4. 1 \in Nat /\ n - 1 \in Nat /\ 1 + (n - 1) = n
  OBVIOUS
<1>5. ASSUME NEW x \in LabelsOf(n), NEW j \in 0..2 * n PROVE RowAt(n, j, x) \in LabelsOf(n)
  <2>1. CASE j < n
    <3>1. n - 1 - j \in Nat
      BY <2>1
    <3>. QED  BY <3>1, <2>1, <1>1 DEF RowAt
  <2>2. CASE ~(j < n)
    <3>1. j - n \in 0..n /\ n - (j - n) \in Nat
      BY <2>2
    <3>2. RotR(x, j - n, n) \in LabelsOf(n)
      BY <3>1, <1>1
    <3>. QED  BY <3>2, <2>2, <1>1, <1>4 DEF RowAt
  <2>. QED  BY <2>1, <2>2
<1>6. ASSUME NEW x \in LabelsOf(n) PROVE RotL(RotL(x, 1, n), n - 1, n) = x
  BY <1>1, <1>4
<1>7. ASSUME NEW x \in LabelsOf(n) PROVE RotR(x, 0, n) = x
  <2>1. 0 \in 0..n /\ n - 0 = n
    OBVIOUS
  <2>. QED  BY <2>1, <1>1
<1>8. ASSUME NEW x \in LabelsOf(n), l < n
      PROVE  RowAt(n, l + 1, RotL(x, 1, n)) = RotL(x, n - 1 - l, n)
  <2>1. CASE l + 1 < n
    <3>1. n - 1 - (l + 1) \in Nat /\ 1 + (n - 1 - (l + 1)) = n - 1 - l
      BY <2>1
    <3>2. RotL(RotL(x, 1, n), n - 1 - (l + 1), n) = RotL(x, 1 + (n - 1 - (l + 1)), n)
      BY <3>1, <1>1, <1>4
    <3>. QED  BY <3>1, <3>2, <2>1 DEF RowAt
  <2>2. CASE ~(l + 1 < n)
    <3>1. l + 1 - n = 0 /\ n - 1 - l = 0
      BY <2>2, <1>8
    <3>2. RotL(x, 1, n) \in LabelsOf(n)
      BY <1>1
    <3>3. RowAt(n, l + 1, RotL(x, 1, n)) = RotL(RotR(RotL(x, 1, n), 0, n), n - 1, n)
      BY <3>1, <2>2 DEF RowAt
    <3>. QED  BY <3>1, <3>2, <3>3, <1>1, <1>6, <1>7
  <2>. QED  BY <2>1, <2>2
<1>9. RowAt(n, l + 1, RotL(w, 1, n)) = RowAt(n, l, w)
  <2>1. CASE l < n
    BY <2>1, <1>8 DEF RowAt
  <2>2. CASE ~(l < n)
    <3>1. /\ l + 1 - n \in 0..n /\ l - n \in 0..n /\ n - (l + 1 - n) \in Nat
          /\ 1 + (n - (l + 1 - n)) = n - (l - n) /\ ~(l + 1 < n)
      BY <2>2
    <3>2. RotL(w, 1, n) \in LabelsOf(n)
      BY <1>1
    <3>3. RotR(RotL(w, 1, n), l + 1 - n, n) = RotL(RotL(w, 1, n), n - (l + 1 - n), n)
      BY <3>1, <3>2, <1>1
    <3>4. RotL(RotL(w, 1, n), n - (l + 1 - n), n) = RotL(w, 1 + (n - (l + 1 - n)), n)
      BY <3>1, <1>1, <1>4
    <3>5. RotR(w, l - n, n) = RotL(w, n - (l - n), n)
      BY <3>1, <1>1
    <3>6. RotR(RotL(w, 1, n), l + 1 - n, n) = RotR(w, l - n, n)
      BY <3>1, <3>3, <3>4, <3>5
    <3>. QED  BY <3>1, <3>6, <2>2 DEF RowAt
  <2>. QED  BY <2>1, <2>2
<1>10. ASSUME l < n PROVE RowAt(n, l + 1, RotL(Flip(0, w), 1, n)) = Flip(n - 1 - l, RowAt(n, l, w))
  <2>1. RowAt(n, l + 1, RotL(Flip(0, w), 1, n)) = RotL(Flip(0, w), n - 1 - l, n)
    BY <1>3, <1>8, <1>10
  <2>2. n - 1 - l \in 0..n - 1
    BY <1>10
  <2>3. RotL(Flip(0, w), n - 1 - l, n) = Flip(n - 1 - l, RotL(w, n - 1 - l, n))
    BY <2>2, <1>2
  <2>. QED  BY <2>1, <2>3, <1>10 DEF RowAt
<1>11. NextRows(n, w) \subseteq LabelsOf(n)
  BY <1>1, <1>3, <1>4 DEF NextRows
<1>12. l \in 0..2 * n /\ l + 1 \in 0..2 * n
  OBVIOUS
<1>. QED  BY <1>5, <1>9, <1>10, <1>11, <1>12

\* All is routed.
Straight(n, A, Z) == A \in Columns(n) /\ Z \in Columns(n) /\ Wires(n, {}, A, Z)

\* From one level to the next a wing reads its packet in the same row or in its pair.
LEMMA WingEdges ==
    ASSUME NEW n \in Nat, NEW A, NEW Z, Straight(n, A, Z), NEW wing,
           NEW l \in 0..n - 1, NEW v \in LabelsOf(n)
    PROVE  \/ WingColumn(n, A, Z, wing, l)[v] = WingColumn(n, A, Z, wing, l + 1)[v]
           \/ WingColumn(n, A, Z, wing, l)[v] = WingColumn(n, A, Z, wing, l + 1)[Flip(n - 1 - l, v)]
<1>. DEFINE d == n - l
            b == n - 1 - l
<1>1. d \in 1..n /\ b = d - 1 /\ n - (l + 1) = b /\ l < n /\ ~(l >= n) /\ b \in 0..n - 1 /\ b + 1 = d
      /\ (l + 1 >= n <=> b = 0)
  OBVIOUS
<1>. HIDE DEF d, b
<1>2. \A w \in LabelsOf(n), e \in 0..n : Ready(n, {}, w, e)
  BY DEF Ready
<1>3. Switch(A[d], A[b], b, v) /\ Switch(Z[d], Z[b], b, v)
  <2>1. Ready(n, {}, v, d - 1)
    BY <1>1, <1>2
  <2>. QED  BY <2>1, <1>1 DEF Straight, Wires
<1>4. PairFacts(b)
  BY PairOfRows
<1>5. \/ v = Upper(b, v) /\ Flip(b, v) = Lower(b, v)
      \/ v = Lower(b, v) /\ Flip(b, v) = Upper(b, v)
  BY <1>4 DEF PairFacts
<1>6. /\ A[d][v] = A[b][v] \/ A[d][v] = A[b][Flip(b, v)]
      /\ Z[d][v] = Z[b][v] \/ Z[d][v] = Z[b][Flip(b, v)]
  BY <1>3, <1>5 DEF Switch
<1>7. ASSUME b = 0 PROVE Z[d][v] = A[b][v] \/ Z[d][v] = A[b][Flip(b, v)]
  <2>1. PICK u \in LabelsOf(n) : High(u, d) = High(v, d) /\ A[d][u] = Z[d][v]
    <3>1. Ready(n, {}, v, d)
      BY <1>1, <1>2
    <3>. QED  BY <3>1, <1>1 DEF Straight, Wires
  <2>2. u = v \/ u = Flip(b, v)
    <3>1. \A y \in v : y \in 0..n - 1
      BY DEF LabelsOf
    <3>2. \A y \in u : y \in 0..n - 1
      BY DEF LabelsOf
    <3>3. \A y \in 0..n - 1 : y # b => (y \in u <=> y \in v)
      BY <2>1, <1>1, <1>7 DEF High
    <3>4. CASE b \in u <=> b \in v
      <4>1. u = v
        BY <3>1, <3>2, <3>3, <3>4
      <4>. QED  BY <4>1
    <3>5. CASE b \in u /\ b \notin v
      <4>1. u = Lower(b, v)
        BY <3>1, <3>2, <3>3, <3>5 DEF Lower
      <4>. QED  BY <4>1, <3>5, <1>4 DEF PairFacts
    <3>6. CASE b \notin u /\ b \in v
      <4>1. u = Upper(b, v)
        BY <3>1, <3>2, <3>3, <3>6 DEF Upper
      <4>. QED  BY <4>1, <3>6, <1>4 DEF PairFacts
    <3>. QED  BY <3>4, <3>5, <3>6
  <2>3. PICK x : x \in {v, Flip(b, v)} /\ A[d][u] = A[b][x]
    <3>1. Flip(b, Flip(b, v)) = v
      BY <1>4 DEF PairFacts
    <3>2. Switch(A[d], A[b], b, v)
      BY <1>3
    <3>. QED  BY <3>2, <2>2, <1>5 DEF Switch
  <2>. QED  BY <2>1, <2>3
<1>8. /\ WingColumn(n, A, Z, wing, l) = IF wing = 0 THEN A[d] ELSE Z[d]
      /\ WingColumn(n, A, Z, wing, l + 1) = IF b = 0 THEN A[b] ELSE IF wing = 0 THEN A[b] ELSE Z[b]
  BY <1>1 DEF WingColumn, d, b
<1>. QED  BY <1>6, <1>7, <1>8 DEF b

\* A packet of the folded network goes to one of its node's two neighbours.
LEMMA HeldMoves ==
    ASSUME NEW n \in Nat, n > 0, NEW A, NEW Z, Straight(n, A, Z), NEW wing,
           NEW l \in 0..2 * n - 1, NEW w \in LabelsOf(n)
    PROVE  \/ Held(n, A, Z, wing, l, w) = Held(n, A, Z, wing, l + 1, RotL(w, 1, n))
           \/ Held(n, A, Z, wing, l, w) = Held(n, A, Z, wing, l + 1, RotL(Flip(0, w), 1, n))
<1>. DEFINE v == RowAt(n, l, w)
<1>1. /\ v \in LabelsOf(n) /\ RowAt(n, l + 1, RotL(w, 1, n)) = v
      /\ l < n => RowAt(n, l + 1, RotL(Flip(0, w), 1, n)) = Flip(n - 1 - l, v)
  BY RowMoves
<1>. HIDE DEF v
<1>2. CASE l < n
  <2>1. l \in 0..n - 1
    BY <1>2
  <2>2. \/ WingColumn(n, A, Z, wing, l)[v] = WingColumn(n, A, Z, wing, l + 1)[v]
        \/ WingColumn(n, A, Z, wing, l)[v] = WingColumn(n, A, Z, wing, l + 1)[Flip(n - 1 - l, v)]
    BY <2>1, <1>1, WingEdges
  <2>. QED  BY <2>2, <1>1, <1>2 DEF Held, v
<1>3. CASE ~(l < n)
  <2>1. WingColumn(n, A, Z, wing, l) = WingColumn(n, A, Z, wing, l + 1)
    <3>1. l >= n /\ l + 1 >= n
      BY <1>3
    <3>. QED  BY <3>1 DEF WingColumn
  <2>. QED  BY <2>1, <1>1 DEF Held, v
<1>. QED  BY <1>2, <1>3

\* What the two wings start from, and that no packet is lost on the way.
LEMMA HeldStarts ==
    ASSUME NEW n \in Nat, n > 0, NEW A, NEW Z, Straight(n, A, Z), NEW f, OneToOne(n, f),
           A[n] = [w \in LabelsOf(n) |-> w], NEW w \in LabelsOf(n),
           Z[n] = [x \in LabelsOf(n) |-> RotR(f[RotL(x, 1, n)], 1, n)]
    PROVE  Held(n, A, Z, 0, 0, w) = w /\ Held(n, A, Z, 1, 0, w) = f[w]
<1>. DEFINE v == RotL(w, n - 1, n)
<1>1. n - 1 \in Nat /\ 1 \in Nat /\ n - 1 + 1 = n /\ 1 \in 0..n /\ n - 1 - 0 = n - 1 /\ n - 0 = n /\ 0 < n /\ ~(0 >= n)
  OBVIOUS
<1>2. v \in LabelsOf(n) /\ RotL(v, 1, n) = w
  <2>1. v \in LabelsOf(n)
    BY <1>1, Turns
  <2>2. RotL(v, 1, n) = RotL(w, n - 1 + 1, n) /\ RotL(w, n, n) = w
    BY <1>1, Turns
  <2>. QED  BY <2>1, <2>2, <1>1
<1>3. RowAt(n, 0, w) = v /\ WingColumn(n, A, Z, 0, 0) = A[n] /\ WingColumn(n, A, Z, 1, 0) = Z[n]
  BY <1>1 DEF RowAt, WingColumn
<1>. HIDE DEF v
<1>4. A[n][v] = v /\ Z[n][v] = RotR(f[w], 1, n) /\ f[w] \in LabelsOf(n)
  BY <1>2 DEF OneToOne
<1>5. RotL(RotR(f[w], 1, n), 1, n) = f[w]
  BY <1>1, <1>4, TurnedOneWay
<1>. QED  BY <1>2, <1>3, <1>4, <1>5 DEF Held

\* What a node of the folded network holds is a row's label.
LEMMA HeldLabel ==
    ASSUME NEW n \in Nat, n > 0, NEW A, NEW Z, Straight(n, A, Z), NEW wing,
           NEW l \in 0..2 * n - 1, NEW w \in LabelsOf(n)
    PROVE  Held(n, A, Z, wing, l, w) \in LabelsOf(n) /\ Held(n, A, Z, wing, l + 1, w) \in LabelsOf(n)
<1>1. RowAt(n, l, w) \in LabelsOf(n) /\ RowAt(n, l + 1, w) \in LabelsOf(n)
  BY RowMoves
<1>2. ASSUME NEW j \in Nat, NEW v \in LabelsOf(n) PROVE WingColumn(n, A, Z, wing, j)[v] \in LabelsOf(n)
  <2>1. CASE j >= n
    <3>1. 0 \in 0..n
      OBVIOUS
    <3>. QED  BY <3>1, <2>1 DEF WingColumn, Straight, Columns
  <2>2. CASE ~(j >= n)
    <3>1. n - j \in 0..n
      BY <2>2
    <3>. QED  BY <3>1, <2>2 DEF WingColumn, Straight, Columns
  <2>. QED  BY <2>1, <2>2
<1>3. l \in Nat /\ l + 1 \in Nat /\ 1 \in Nat
  OBVIOUS
<1>4. /\ WingColumn(n, A, Z, wing, l)[RowAt(n, l, w)] \in LabelsOf(n)
      /\ WingColumn(n, A, Z, wing, l + 1)[RowAt(n, l + 1, w)] \in LabelsOf(n)
  BY <1>1, <1>2, <1>3
<1>. QED  BY <1>3, <1>4, Turns DEF Held

\* What a column holds.
HeldSet(n, A, Z, wing, l) == {Held(n, A, Z, wing, l, w) : w \in LabelsOf(n)}

\* Every column of the folded network holds every packet.
LEMMA HeldAll ==
    ASSUME NEW n \in Nat, n > 0, NEW A, NEW Z, Straight(n, A, Z), NEW wing,
           HeldSet(n, A, Z, wing, 0) = LabelsOf(n)
    PROVE  \A l \in 0..2 * n : HeldSet(n, A, Z, wing, l) = LabelsOf(n)
<1>. DEFINE S == {l \in 0..2 * n : HeldSet(n, A, Z, wing, l) = LabelsOf(n)}
<1>1. 0 \in S
  OBVIOUS
<1>2. ASSUME NEW l \in 0..2 * n - 1, l \in S PROVE l + 1 \in S
  <2>1. \A w \in LabelsOf(n) : Held(n, A, Z, wing, l + 1, w) \in LabelsOf(n)
    BY HeldLabel
  <2>2. ASSUME NEW p \in LabelsOf(n) PROVE \E w \in LabelsOf(n) : Held(n, A, Z, wing, l + 1, w) = p
    <3>1. PICK w \in LabelsOf(n) : Held(n, A, Z, wing, l, w) = p
      BY <1>2 DEF HeldSet
    <3>2. RotL(w, 1, n) \in LabelsOf(n) /\ RotL(Flip(0, w), 1, n) \in LabelsOf(n)
      <4>1. NextRows(n, w) \subseteq LabelsOf(n)
        BY RowMoves
      <4>. QED  BY <4>1 DEF NextRows
    <3>3. \/ Held(n, A, Z, wing, l, w) = Held(n, A, Z, wing, l + 1, RotL(w, 1, n))
          \/ Held(n, A, Z, wing, l, w) = Held(n, A, Z, wing, l + 1, RotL(Flip(0, w), 1, n))
      BY HeldMoves
    <3>. QED  BY <3>1, <3>2, <3>3
  <2>3. HeldSet(n, A, Z, wing, l + 1) = LabelsOf(n)
    BY <2>1, <2>2 DEF HeldSet
  <2>4. l + 1 \in 0..2 * n
    OBVIOUS
  <2>. QED  BY <2>3, <2>4
<1>3. 2 * n \in Nat
  OBVIOUS
<1>4. \A l \in 0..2 * n : l \in S
  <2>. HIDE DEF S
  <2>. QED  BY <1>1, <1>2, <1>3, BoundedInduction
<1>. QED  BY <1>4

-----------------------------------------------------------------------------
(* What getDataID reads. *)

\* The logarithm is the exponent between whose power and the one before n lies.
LEMMA CeilLog2Is ==
    ASSUME NEW n \in Nat, NEW d \in 1..n, NEW c \in Nat, c = d - 1, 2^d >= n, 2^c < n
    PROVE  CeilLog2(n) = d
<1>0. d \in 0..n /\ d > 0 /\ 2^(d - 1) < n
  OBVIOUS
<1>1. ASSUME NEW e \in 0..n, 2^e >= n, e = 0 \/ 2^(e - 1) < n PROVE e = d
  <2>1. \A a, b \in Nat : a <= b => 2^a <= 2^b
    BY PowerMonotone
  <2>2. 2^0 = 1 /\ 2^(d - 1) \in Nat /\ 2^(d - 1) > 0 /\ 2^e \in Nat /\ 2^d \in Nat
    <3>1. d - 1 \in Nat
      OBVIOUS
    <3>. QED  BY <3>1, PowerPositive
  <2>3. e # 0
    <3>. SUFFICES ASSUME e = 0 PROVE FALSE
      OBVIOUS
    <3>1. 2^e = 1
      BY <2>2
    <3>. QED  BY <3>1, <2>2, <1>0, <1>1
  <2>4. d - 1 \in Nat /\ e - 1 \in Nat /\ 2^(e - 1) \in Nat
    <3>1. d - 1 \in Nat /\ e - 1 \in Nat
      BY <2>3
    <3>. QED  BY <3>1, PowerPositive
  <2>5. ~(e <= d - 1)
    <3>. SUFFICES ASSUME e <= d - 1 PROVE FALSE
      OBVIOUS
    <3>1. 2^e <= 2^(d - 1)
      BY <2>1, <2>4
    <3>. QED  BY <3>1, <2>2, <1>0, <1>1
  <2>6. ~(d <= e - 1)
    <3>. SUFFICES ASSUME d <= e - 1 PROVE FALSE
      OBVIOUS
    <3>1. 2^d <= 2^(e - 1)
      BY <2>1, <2>4
    <3>. QED  BY <3>1, <2>2, <2>3, <2>4, <1>1
  <2>. QED  BY <2>5, <2>6
<1>. QED  BY <1>0, <1>1 DEF CeilLog2

\* A wing is at least as long as a butterfly and at most twice as long.
LEMMA Widths ==
    ASSUME k \in {2, 3, 4}
    PROVE  wingWidth \in Nat /\ wingWidth - 1 >= k /\ wingWidth - 1 <= 2 * k
<1>1. CeilLog2(4) = 2 /\ CeilLog2(5) = 3 /\ CeilLog2(6) = 3
  <2>1. 2^1 = 2 /\ 2^2 = 4 /\ 2^3 = 8
    OBVIOUS
  <2>2. CeilLog2(4) = 2
    <3>1. 4 \in Nat /\ 2 \in 1..4 /\ 1 \in Nat /\ 1 = 2 - 1 /\ 2^2 >= 4 /\ 2^1 < 4
      BY <2>1
    <3>. QED  BY ONLY <3>1, CeilLog2Is
  <2>3. CeilLog2(5) = 3
    <3>1. 5 \in Nat /\ 3 \in 1..5 /\ 2 \in Nat /\ 2 = 3 - 1 /\ 2^3 >= 5 /\ 2^2 < 5
      BY <2>1
    <3>. QED  BY ONLY <3>1, CeilLog2Is
  <2>4. CeilLog2(6) = 3
    <3>1. 6 \in Nat /\ 3 \in 1..6 /\ 2 \in Nat /\ 2 = 3 - 1 /\ 2^3 >= 6 /\ 2^2 < 6
      BY <2>1
    <3>. QED  BY ONLY <3>1, CeilLog2Is
  <2>. QED  BY <2>2, <2>3, <2>4
<1>2. 2^2 - 1 = 3 /\ 2^3 - 1 = 7
  OBVIOUS
<1>3. CASE k = 2
  <2>1. wingWidth = 3
    <3>1. k + 2 = 4
      BY <1>3
    <3>. QED  BY <3>1, <1>1, <1>2 DEF wingWidth
  <2>. QED  BY <2>1, <1>3
<1>4. CASE k = 3
  <2>1. wingWidth = 7
    <3>1. k + 2 = 5
      BY <1>4
    <3>. QED  BY <3>1, <1>1, <1>2 DEF wingWidth
  <2>. QED  BY <2>1, <1>4
<1>5. CASE k = 4
  <2>1. wingWidth = 7
    <3>1. k + 2 = 6
      BY <1>5
    <3>. QED  BY <3>1, <1>1, <1>2 DEF wingWidth
  <2>. QED  BY <2>1, <1>5
<1>. QED  BY <1>3, <1>4, <1>5

\* The turns that take a column of the DeBruijn network to the one before.
LEMMA TurnsOfColumns ==
    ASSUME NEW n \in Nat, n > 0
    PROVE  /\ \A i \in 1..n : (i + n - 1) % n = i - 1
           /\ (0 + n - 1) % n = n - 1
<1>1. ASSUME NEW i \in 1..n PROVE (i + n - 1) % n = i - 1
  <2>1. i - 1 \in 0..n - 1 /\ i + n - 1 = (i - 1) + n
    OBVIOUS
  <2>. QED  BY <2>1, TurnOfBit
<1>2. (0 + n - 1) % n = n - 1
  <2>1. n - 1 \in 0..n - 1 /\ 0 + n - 1 = (n - 1) + 0
    OBVIOUS
  <2>. QED  BY <2>1, TurnOfBit
<1>. QED  BY <1>1, <1>2

\* A column of the symmetric network is a column of a butterfly, turned.
LEMMA SymmetricReads ==
    ASSUME k \in Nat \ {0}, rev \in Columns(k), NEW wing \in {0, 1}, NEW l \in 0..k, NEW w
    PROVE  symmetricData(IF wing = 0 THEN l ELSE 2 * k - l, w)
             = RotL(WingColumn(k, LevelOf(k, rev), btr, wing, l)
                        [RotL(w, IF l < k THEN k - 1 - l ELSE k - 1, k)], 1, k)
<1>. DEFINE j == IF wing = 0 THEN l ELSE 2 * k - l
            i == IF j < k THEN k - j ELSE j - k
            A == LevelOf(k, rev)
<1>1. k \in Nat /\ k > 0
  OBVIOUS
<1>2. i = k - l
  BY <1>1
<1>3. (i + k - 1) % k = IF l < k THEN k - 1 - l ELSE k - 1
  <2>1. CASE l < k
    <3>1. i \in 1..k /\ i - 1 = k - 1 - l
      BY <1>1, <1>2, <2>1
    <3>2. (i + k - 1) % k = i - 1
      <4>. HIDE DEF i
      <4>. QED  BY <1>1, <3>1, TurnsOfColumns
    <3>. QED  BY <3>1, <3>2, <2>1
  <2>2. CASE ~(l < k)
    <3>1. i = 0
      BY <1>1, <1>2, <2>2
    <3>. QED  BY <3>1, <2>2, <1>1, TurnsOfColumns
  <2>. QED  BY <2>1, <2>2
<1>4. IF j <= k THEN rev[j] = WingColumn(k, A, btr, wing, l)
                ELSE btr[j - k] = WingColumn(k, A, btr, wing, l)
  <2>1. \A d \in 0..k : k - d \in 0..k /\ A[d] = rev[k - d]
    BY <1>1, Levels
  <2>2. CASE l = k
    <3>1. j = k /\ 0 \in 0..k /\ k - 0 = k /\ l >= k
      BY <1>1, <2>2
    <3>2. A[0] = rev[k]
      BY <3>1, <2>1
    <3>. QED  BY <3>1, <3>2 DEF WingColumn
  <2>3. CASE l # k /\ wing = 0
    <3>1. j = l /\ j <= k /\ ~(l >= k) /\ k - l \in 0..k /\ k - (k - l) = l
      BY <1>1, <2>3
    <3>2. A[k - l] = rev[l]
      BY <3>1, <2>1
    <3>. QED  BY <3>1, <3>2, <2>3 DEF WingColumn
  <2>4. CASE l # k /\ wing # 0
    <3>1. ~(j <= k) /\ ~(l >= k) /\ j - k = k - l
      BY <1>1, <2>4
    <3>. QED  BY <3>1, <2>4 DEF WingColumn
  <2>. QED  BY <2>2, <2>3, <2>4
<1>. HIDE DEF j, i, A
<1>5. symmetricData(j, w) = RotL(benesData(j, RotL(w, (i + k - 1) % k, k)), 1, k)
  BY DEF symmetricData, btrflyToDebruijn, i
<1>. QED  BY <1>3, <1>4, <1>5 DEF benesData, j, A

\* Folding: the second wing is read from the far end of the long network.
LEMMA LongReads ==
    ASSUME k \in Nat \ {0}, NEW wing \in {0, 1}, NEW w,
           wingWidth \in Nat, wingWidth - 1 >= k, NEW l \in 0..wingWidth - 1
    PROVE  getDataID(wing, l, w) =
             IF l <= k THEN symmetricData(IF wing = 0 THEN l ELSE 2 * k - l, w)
             ELSE symmetricData(k, RotR(w, l - k, k))
<1>. DEFINE W == wingWidth
            h == IF wing = 0 THEN l ELSE longWidth - 1 - l
<1>1. k \in Nat /\ W \in Nat /\ longWidth = 2 * W - 1
  BY DEF longWidth
<1>. HIDE DEF W
<1>2. W - 1 >= k /\ l \in 0..W - 1
  BY DEF W
<1>3. (h <= k => l <= k /\ h = IF wing = 0 THEN l ELSE 2 * k - l)
  BY <1>1, <1>2
<1>4. (longWidth - 1) - h <= k /\ ~(h <= k) => l <= k /\ (2 * k + 1) - (longWidth - h) = IF wing = 0 THEN l ELSE 2 * k - l
  BY <1>1, <1>2
<1>5. (longWidth - 1) - h <= k => l <= k /\ (2 * k + 1) - (longWidth - h) = IF wing = 0 THEN l ELSE 2 * k - l
  BY <1>1, <1>2
<1>6. ~(h <= k) /\ ~((longWidth - 1) - h <= k) =>
        ~(l <= k) /\ (IF h < W THEN h - k ELSE longWidth - (k + 1) - h) = l - k
  BY <1>1, <1>2
<1>. HIDE DEF h
<1>7. getDataID(wing, l, w) = longData(h, w)
  BY DEF getDataID, h
<1>8. CASE h <= k
  <2>1. longData(h, w) = symmetricData(h, w)
    BY <1>3, <1>5, <1>8 DEF longData
  <2>. QED  BY <2>1, <1>3, <1>7, <1>8
<1>9. CASE ~(h <= k) /\ (longWidth - 1) - h <= k
  <2>1. longData(h, w) = symmetricData((2 * k + 1) - (longWidth - h), w)
    BY <1>9 DEF longData
  <2>. QED  BY <2>1, <1>4, <1>7, <1>9
<1>10. CASE ~(h <= k) /\ ~((longWidth - 1) - h <= k)
  <2>1. longData(h, w) = symmetricData(k, RotR(w, IF h < W THEN h - k ELSE longWidth - (k + 1) - h, k))
    BY <1>10 DEF longData, W
  <2>. QED  BY <2>1, <1>6, <1>7, <1>10
<1>. QED  BY <1>8, <1>9, <1>10

\* getDataID, through every relabelling and extension, reads a butterfly's node.
LEMMA Reads ==
    ASSUME k \in Nat \ {0}, rev \in Columns(k), NEW wing \in {0, 1}, NEW w \in LabelsOf(k),
           wingWidth \in Nat, wingWidth - 1 >= k, NEW l \in 0..wingWidth - 1
    PROVE  getDataID(wing, l, w) = Held(k, LevelOf(k, rev), btr, wing, l, w)
<1>1. k \in Nat /\ k > 0 /\ l \in Nat
  OBVIOUS
<1>2. CASE l < k
  <2>1. l \in 0..k /\ l <= k
    BY <1>1, <1>2
  <2>2. getDataID(wing, l, w) = symmetricData(IF wing = 0 THEN l ELSE 2 * k - l, w)
    BY <2>1, LongReads
  <2>3. symmetricData(IF wing = 0 THEN l ELSE 2 * k - l, w)
          = RotL(WingColumn(k, LevelOf(k, rev), btr, wing, l)[RotL(w, IF l < k THEN k - 1 - l ELSE k - 1, k)], 1, k)
    BY <2>1, SymmetricReads
  <2>. QED  BY <2>2, <2>3, <1>2 DEF Held, RowAt
<1>3. CASE l >= k
  <2>. DEFINE x == RotR(w, l - k, k)
  <2>1. k \in 0..k /\ ~(l < k) /\ ~(k < k) /\ k >= k
    BY <1>1, <1>3
  <2>2. getDataID(wing, l, w) = symmetricData(IF wing = 0 THEN k ELSE 2 * k - k, IF l = k THEN w ELSE x)
    <3>1. 2 * k - k = k
      BY <1>1
    <3>. QED  BY <3>1, <1>1, <1>3, LongReads
  <2>3. ASSUME NEW y PROVE symmetricData(IF wing = 0 THEN k ELSE 2 * k - k, y)
          = RotL(WingColumn(k, LevelOf(k, rev), btr, wing, k)[RotL(y, k - 1, k)], 1, k)
    BY <2>1, SymmetricReads
  <2>4. l = k => x = w
    <3>. SUFFICES ASSUME l = k PROVE x = w
      OBVIOUS
    <3>1. 0 \in 0..k /\ l - k = 0 /\ k - 0 = k
      BY <1>1
    <3>2. RotR(w, 0, k) = RotL(w, k - 0, k) /\ RotL(w, k, k) = w
      BY <1>1, <3>1, Turns
    <3>. QED  BY <3>1, <3>2
  <2>5. WingColumn(k, LevelOf(k, rev), btr, wing, k) = WingColumn(k, LevelOf(k, rev), btr, wing, l)
    BY <2>1, <1>3 DEF WingColumn
  <2>6. getDataID(wing, l, w) = symmetricData(IF wing = 0 THEN k ELSE 2 * k - k, x)
    BY <2>2, <2>4
  <2>7. getDataID(wing, l, w) = RotL(WingColumn(k, LevelOf(k, rev), btr, wing, l)[RotL(x, k - 1, k)], 1, k)
    BY <2>3, <2>5, <2>6
  <2>8. ~(l < k)
    BY <1>1, <1>3
  <2>. QED  BY <2>7, <2>8 DEF Held, RowAt
<1>. QED  BY <1>1, <1>2, <1>3

-----------------------------------------------------------------------------
(* What the router delivers. *)

\* When the router has no call left, the folded network delivers the permutation.
LEMMA RoutedDelivers ==
    ASSUME RouteInv, k \in {2, 3, 4}
    PROVE  Delivers
<1>. DEFINE A == LevelOf(k, rev)
            W == wingWidth
            D(wing, l, w) == Held(k, A, btr, wing, l, w)
            held == [wing \in {0, 1} |-> [l \in 0..wingWidth - 1 |-> [w \in Labels |-> getDataID(wing, l, w)]]]
<1>. SUFFICES ASSUME Routed
              PROVE      /\ \A w \in Labels : held[0][0][w] = w /\ held[1][0][w] = permutation[w]
                         /\ held[0][wingWidth - 1] = held[1][wingWidth - 1]
                         /\ \A wing \in {0, 1}, l \in 0..wingWidth - 1 :
                               {held[wing][l][w] : w \in Labels} = Labels
                         /\ \A wing \in {0, 1}, l \in 0..wingWidth - 2, w \in Labels :
                               held[wing][l][w] = held[wing][l + 1][IF routingBit(wing, l, w) = 1
                                                                    THEN Neighbor1(w) ELSE Neighbor0(w)]
  BY DEF Delivers
<1>1. /\ k \in Nat /\ k > 0 /\ k \in Nat \ {0} /\ OneToOne(k, permutation) /\ rev \in Columns(k) /\ btr \in Columns(k)
      /\ rev[0] = [w \in LabelsOf(k) |-> w] /\ btr[k] = shiftRight(permutation)
      /\ Network(k, calls, A, btr, unrouted, src) /\ calls = <<>>
  BY DEF RouteInv, Routed
<1>2. W \in Nat /\ W - 1 >= k /\ W - 1 <= 2 * k
  BY Widths
<1>3. Labels = LabelsOf(k)
  BY DEF Labels, LabelsOf
<1>. HIDE DEF A, W, held
<1>4. Straight(k, A, btr)
  <2>1. Range(<<>>) = {}
    BY DEF Range
  <2>. QED  BY <1>1, <2>1 DEF Network, Straight
<1>5. A[k] = [w \in LabelsOf(k) |-> w]
  <2>1. k \in 0..k /\ k - k = 0
    BY <1>1
  <2>2. A[k] = rev[k - k]
    BY <1>1, <2>1, Levels DEF A
  <2>. QED  BY <1>1, <2>1, <2>2
<1>6. btr[k] = [x \in LabelsOf(k) |-> RotR(permutation[RotL(x, 1, k)], 1, k)]
  BY <1>1, <1>3 DEF shiftRight
<1>7. ASSUME NEW wing \in {0, 1}, NEW l \in 0..W - 1, NEW w \in LabelsOf(k)
      PROVE  getDataID(wing, l, w) = D(wing, l, w)
  BY <1>1, <1>2, Reads DEF A, W
<1>8. \A wing \in {0, 1}, l \in 0..W - 1, w \in LabelsOf(k) : held[wing][l][w] = D(wing, l, w)
  BY <1>3, <1>7 DEF held, W
<1>9. \A w \in LabelsOf(k) : D(0, 0, w) = w /\ D(1, 0, w) = permutation[w]
  BY <1>1, <1>4, <1>5, <1>6, HeldStarts
<1>10. ASSUME NEW wing \in {0, 1}
       PROVE  \A l \in 0..2 * k : HeldSet(k, A, btr, wing, l) = LabelsOf(k)
  <2>1. HeldSet(k, A, btr, wing, 0) = LabelsOf(k)
    BY <1>1, <1>9 DEF OneToOne, HeldSet
  <2>. QED  BY <2>1, <1>1, <1>4, HeldAll
<1>11. ASSUME NEW wing \in {0, 1}, NEW l \in 0..W - 2, NEW w \in LabelsOf(k)
       PROVE  /\ RotL(w, 1, k) \in LabelsOf(k) /\ RotL(Flip(0, w), 1, k) \in LabelsOf(k)
              /\ \/ D(wing, l, w) = D(wing, l + 1, RotL(w, 1, k))
                 \/ D(wing, l, w) = D(wing, l + 1, RotL(Flip(0, w), 1, k))
  <2>1. l \in 0..2 * k - 1
    BY <1>1, <1>2
  <2>2. NextRows(k, w) \subseteq LabelsOf(k)
    BY <2>1, <1>1, RowMoves
  <2>. QED  BY <2>1, <2>2, <1>1, <1>4, HeldMoves DEF NextRows
<1>. HIDE DEF D
<1>12. \A w \in LabelsOf(k) : held[0][0][w] = w /\ held[1][0][w] = permutation[w]
  <2>1. 0 \in 0..W - 1 /\ 0 \in {0, 1} /\ 1 \in {0, 1}
    BY <1>1, <1>2
  <2>. QED  BY <2>1, <1>8, <1>9
<1>13. held[0][W - 1] = held[1][W - 1]
  <2>1. W - 1 \in 0..W - 1 /\ W - 1 >= k
    BY <1>1, <1>2
  <2>2. \A w \in LabelsOf(k) : D(0, W - 1, w) = D(1, W - 1, w)
    BY <2>1 DEF D, Held, WingColumn
  <2>3. \A w \in LabelsOf(k) : getDataID(0, W - 1, w) = getDataID(1, W - 1, w)
    BY <2>1, <2>2, <1>7
  <2>4. /\ held[0][W - 1] = [w \in LabelsOf(k) |-> getDataID(0, W - 1, w)]
        /\ held[1][W - 1] = [w \in LabelsOf(k) |-> getDataID(1, W - 1, w)]
    BY <2>1, <1>3 DEF held, W
  <2>. QED  BY <2>3, <2>4
<1>14. ASSUME NEW wing \in {0, 1}, NEW l \in 0..W - 1
       PROVE  {held[wing][l][w] : w \in LabelsOf(k)} = LabelsOf(k)
  <2>1. l \in 0..2 * k
    BY <1>1, <1>2
  <2>2. {held[wing][l][w] : w \in LabelsOf(k)} = HeldSet(k, A, btr, wing, l)
    BY <1>8 DEF HeldSet, D
  <2>. QED  BY <2>1, <2>2, <1>10
<1>15. ASSUME NEW wing \in {0, 1}, NEW l \in 0..W - 2, NEW w \in LabelsOf(k)
       PROVE  held[wing][l][w] = held[wing][l + 1][IF routingBit(wing, l, w) = 1 THEN Neighbor1(w) ELSE Neighbor0(w)]
  <2>1. l \in 0..W - 1 /\ l + 1 \in 0..W - 1
    BY <1>2
  <2>2. Neighbor0(w) = RotL(w, 1, k) /\ Neighbor1(w) = RotL(Flip(0, w), 1, k)
    BY DEF Neighbor0, Neighbor1, Flip
  <2>3. Neighbor0(w) \in LabelsOf(k) /\ Neighbor1(w) \in LabelsOf(k)
    BY <2>2, <1>11
  <2>4. /\ getDataID(wing, l, w) = D(wing, l, w) /\ held[wing][l][w] = D(wing, l, w)
        /\ getDataID(wing, l + 1, Neighbor1(w)) = D(wing, l + 1, Neighbor1(w))
        /\ held[wing][l + 1][Neighbor1(w)] = D(wing, l + 1, Neighbor1(w))
        /\ held[wing][l + 1][Neighbor0(w)] = D(wing, l + 1, Neighbor0(w))
    BY <2>1, <2>3, <1>7, <1>8
  <2>5. CASE D(wing, l, w) = D(wing, l + 1, Neighbor1(w))
    <3>1. routingBit(wing, l, w) = 1
      BY <2>4, <2>5 DEF routingBit
    <3>. QED  BY <3>1, <2>4, <2>5
  <2>6. CASE D(wing, l, w) # D(wing, l + 1, Neighbor1(w))
    <3>1. routingBit(wing, l, w) # 1
      BY <2>4, <2>6 DEF routingBit
    <3>2. D(wing, l, w) = D(wing, l + 1, Neighbor0(w))
      BY <2>2, <2>6, <1>11
    <3>. QED  BY <3>1, <3>2, <2>4
  <2>. QED  BY <2>5, <2>6
<1>. QED  BY <1>3, <1>12, <1>13, <1>14, <1>15 DEF W

-----------------------------------------------------------------------------
(* The powers of x enumerate the places. *)

\* The powers of x are what their recursion says.
PowerFrom(M, P, i) == IF i = 0 THEN {0} ELSE TimesX(P[i - 1], M)
PowersUpTo(M, P, n) == P = [i \in 0..n |-> PowerFrom(M, P, i)]

\* The recursion of the powers of x has a solution up to every exponent ...
LEMMA PowersExist ==
    ASSUME NEW n \in Nat, NEW M
    PROVE  \E P : PowersUpTo(M, P, n)
<1>. DEFINE S == {m \in Nat : \E P : PowersUpTo(M, P, m)}
<1>1. 0 \in S
  <2>. DEFINE P == [i \in 0..0 |-> {0}]
  <2>1. PowersUpTo(M, P, 0)
    BY DEF PowersUpTo, PowerFrom
  <2>. QED  BY <2>1
<1>2. ASSUME NEW m \in Nat, m \in S PROVE m + 1 \in S
  <2>1. PICK F : PowersUpTo(M, F, m)
    BY <1>2
  <2>. DEFINE G == [i \in 0..m + 1 |-> IF i = m + 1 THEN PowerFrom(M, F, m + 1) ELSE F[i]]
  <2>2. ASSUME NEW i \in 0..m + 1 PROVE G[i] = PowerFrom(M, G, i)
    <3>1. i # 0 => i - 1 \in 0..m /\ G[i - 1] = F[i - 1]
      OBVIOUS
    <3>2. PowerFrom(M, G, i) = PowerFrom(M, F, i)
      <4>. HIDE DEF G
      <4>. QED  BY <3>1 DEF PowerFrom
    <3>3. i # m + 1 => F[i] = PowerFrom(M, F, i)
      BY <2>1 DEF PowersUpTo
    <3>. QED  BY <3>2, <3>3
  <2>3. G = [i \in 0..m + 1 |-> G[i]]
    OBVIOUS
  <2>. HIDE DEF G
  <2>4. PowersUpTo(M, G, m + 1)
    BY <2>2, <2>3 DEF PowersUpTo
  <2>. QED  BY <2>4
<1>3. n \in S
  <2>. HIDE DEF S
  <2>. QED  BY <1>1, <1>2, SetInduction
<1>. QED  BY <1>3

\* ... and only one ...
LEMMA PowersAgree ==
    ASSUME NEW m \in Nat, NEW n \in Nat, NEW M, NEW P, NEW Q, PowersUpTo(M, P, m), PowersUpTo(M, Q, n), m <= n
    PROVE  \A i \in 0..m : P[i] = Q[i]
<1>. DEFINE S == {i \in 0..m : P[i] = Q[i]}
<1>1. /\ \A i \in 0..m : P[i] = PowerFrom(M, P, i)
      /\ \A i \in 0..n : Q[i] = PowerFrom(M, Q, i)
  BY DEF PowersUpTo
<1>2. 0 \in S
  BY <1>1 DEF PowerFrom
<1>3. ASSUME NEW i \in 0..m - 1, i \in S PROVE i + 1 \in S
  <2>1. i + 1 \in 0..m /\ i + 1 \in 0..n /\ i + 1 # 0 /\ (i + 1) - 1 = i
    OBVIOUS
  <2>2. P[i + 1] = TimesX(P[i], M) /\ Q[i + 1] = TimesX(Q[i], M)
    BY <2>1, <1>1 DEF PowerFrom
  <2>. QED  BY <2>1, <2>2, <1>3
<1>4. \A i \in 0..m : i \in S
  <2>. HIDE DEF S
  <2>. QED  BY <1>2, <1>3, BoundedInduction
<1>. QED  BY <1>4

\* ... so PowerOfX obeys it.
LEMMA Powers ==
    ASSUME NEW M
    PROVE  /\ PowerOfX(0, M) = {0}
           /\ \A n \in Nat : PowerOfX(n + 1, M) = TimesX(PowerOfX(n, M), M)
<1>. DEFINE P(n) == CHOOSE p : PowersUpTo(M, p, n)
<1>1. ASSUME NEW n \in Nat PROVE PowerOfX(n, M) = P(n)[n] /\ PowersUpTo(M, P(n), n)
  <2>1. PowersUpTo(M, P(n), n)
    BY PowersExist
  <2>2. P(n) = CHOOSE p : p = [i \in 0..n |-> IF i = 0 THEN {0} ELSE TimesX(p[i - 1], M)]
    BY DEF PowersUpTo, PowerFrom
  <2>. QED  BY <2>1, <2>2 DEF PowerOfX
<1>. HIDE DEF P
<1>2. ASSUME NEW n \in Nat PROVE \A i \in 0..n : P(n)[i] = PowerFrom(M, P(n), i)
  BY <1>1 DEF PowersUpTo
<1>3. PowerOfX(0, M) = {0}
  <2>1. 0 \in Nat /\ 0 \in 0..0
    OBVIOUS
  <2>. QED  BY <2>1, <1>1, <1>2 DEF PowerFrom
<1>4. ASSUME NEW n \in Nat PROVE PowerOfX(n + 1, M) = TimesX(PowerOfX(n, M), M)
  <2>1. n + 1 \in Nat /\ n + 1 \in 0..n + 1 /\ n + 1 # 0 /\ (n + 1) - 1 = n /\ n \in 0..n /\ n <= n + 1
    OBVIOUS
  <2>2. P(n + 1)[n + 1] = TimesX(P(n + 1)[n], M)
    BY <2>1, <1>2 DEF PowerFrom
  <2>3. P(n)[n] = P(n + 1)[n]
    BY <2>1, <1>1, PowersAgree
  <2>. QED  BY <2>1, <2>2, <2>3, <1>1
<1>. QED  BY <1>3, <1>4

\* A label of four bits as a number, and what multiplying by x makes of its bits.
Bit(b, x) == IF b \in x THEN 1 ELSE 0
Code(x) == Bit(0, x) + 2 * Bit(1, x) + 4 * Bit(2, x) + 8 * Bit(3, x)

\* Different labels have different numbers.
LEMMA CodeOneWay ==
    ASSUME NEW x \in LabelsOf(4), NEW y \in LabelsOf(4), Code(x) = Code(y)
    PROVE  x = y
<1>0. 4 - 1 = 3 /\ 0..3 = {0, 1, 2, 3}
  OBVIOUS
<1>1. \A b : b \in x \/ b \in y => b \in {0, 1, 2, 3}
  BY <1>0 DEF LabelsOf
<1>2. (0 \in x <=> 0 \in y) /\ (1 \in x <=> 1 \in y) /\ (2 \in x <=> 2 \in y) /\ (3 \in x <=> 3 \in y)
  BY DEF Code, Bit
<1>. QED  BY <1>1, <1>2

\* A label of m bits is a number below 2^m.
LEMMA CodeRange ==
    /\ \A x \in LabelsOf(2) : Code(x) \in 0..3 /\ x \in LabelsOf(4)
    /\ \A x \in LabelsOf(3) : Code(x) \in 0..7 /\ x \in LabelsOf(4)
    /\ \A x \in LabelsOf(4) : Code(x) \in 0..15
BY DEF LabelsOf, Code, Bit

\* The degrees of the three polynomials.
LEMMA TopBits == Max({0, 1, 2}) = 2 /\ Max({0, 1, 3}) = 3 /\ Max({0, 1, 4}) = 4
<1>1. ASSUME NEW m \in {2, 3, 4} PROVE Max({0, 1, m}) = m
  <2>. DEFINE g == Max({0, 1, m})
  <2>1. 5 \in Nat /\ {0, 1, m} \subseteq 0..5 - 1 /\ {0, 1, m} # {}
    OBVIOUS
  <2>2. g \in {0, 1, m} /\ \A y \in {0, 1, m} : g >= y
    BY <2>1, MaxOfSet
  <2>. HIDE DEF g
  <2>3. g = m
    BY <2>2
  <2>. QED  BY <2>3 DEF g
<1>. QED  BY <1>1

\* The powers of x modulo x^2 + x + 1.
LEMMA PowersOf2 ==
    /\ PowerOfX(0, {0, 1, 2}) = {0}
    /\ PowerOfX(1, {0, 1, 2}) = {1}
    /\ PowerOfX(2, {0, 1, 2}) = {0, 1}
<1>. DEFINE M == {0, 1, 2}
<1>1. PowerOfX(0, M) = {0} /\ \A n \in Nat : PowerOfX(n + 1, M) = TimesX(PowerOfX(n, M), M)
  BY Powers
<1>2. Max(M) = 2
  BY TopBits
<1>3. \A x : TimesX(x, M) = IF 2 \in Shift(x, 1) THEN SymDiff(Shift(x, 1), M) ELSE Shift(x, 1)
  BY <1>2 DEF TimesX, Plus
<1>4. PowerOfX(1, M) = {1}
  <2>1. Shift({0}, 1) = {1}
    BY DEF Shift
  <2>3. TimesX({0}, M) = {1}
    BY <2>1, <1>3
  <2>4. 0 \in Nat /\ 0 + 1 = 1
    OBVIOUS
  <2>. QED  BY <2>3, <2>4, <1>1, <1>1
<1>5. PowerOfX(2, M) = {0, 1}
  <2>1. Shift({1}, 1) = {2}
    BY DEF Shift
  <2>2. SymDiff({2}, M) = {0, 1}
    BY DEF SymDiff
  <2>3. TimesX({1}, M) = {0, 1}
    BY <2>1, <2>2, <1>3
  <2>4. 1 \in Nat /\ 1 + 1 = 2
    OBVIOUS
  <2>. QED  BY <2>3, <2>4, <1>1, <1>4
<1>. QED  BY <1>1, <1>4, <1>5

\* The powers of x modulo x^3 + x + 1.
LEMMA PowersOf3 ==
    /\ PowerOfX(0, {0, 1, 3}) = {0}
    /\ PowerOfX(1, {0, 1, 3}) = {1}
    /\ PowerOfX(2, {0, 1, 3}) = {2}
    /\ PowerOfX(3, {0, 1, 3}) = {0, 1}
    /\ PowerOfX(4, {0, 1, 3}) = {1, 2}
    /\ PowerOfX(5, {0, 1, 3}) = {0, 1, 2}
    /\ PowerOfX(6, {0, 1, 3}) = {0, 2}
<1>. DEFINE M == {0, 1, 3}
<1>1. PowerOfX(0, M) = {0} /\ \A n \in Nat : PowerOfX(n + 1, M) = TimesX(PowerOfX(n, M), M)
  BY Powers
<1>2. Max(M) = 3
  BY TopBits
<1>3. \A x : TimesX(x, M) = IF 3 \in Shift(x, 1) THEN SymDiff(Shift(x, 1), M) ELSE Shift(x, 1)
  BY <1>2 DEF TimesX, Plus
<1>4. PowerOfX(1, M) = {1}
  <2>1. Shift({0}, 1) = {1}
    BY DEF Shift
  <2>3. TimesX({0}, M) = {1}
    BY <2>1, <1>3
  <2>4. 0 \in Nat /\ 0 + 1 = 1
    OBVIOUS
  <2>. QED  BY <2>3, <2>4, <1>1, <1>1
<1>5. PowerOfX(2, M) = {2}
  <2>1. Shift({1}, 1) = {2}
    BY DEF Shift
  <2>3. TimesX({1}, M) = {2}
    BY <2>1, <1>3
  <2>4. 1 \in Nat /\ 1 + 1 = 2
    OBVIOUS
  <2>. QED  BY <2>3, <2>4, <1>1, <1>4
<1>6. PowerOfX(3, M) = {0, 1}
  <2>1. Shift({2}, 1) = {3}
    BY DEF Shift
  <2>2. SymDiff({3}, M) = {0, 1}
    BY DEF SymDiff
  <2>3. TimesX({2}, M) = {0, 1}
    BY <2>1, <2>2, <1>3
  <2>4. 2 \in Nat /\ 2 + 1 = 3
    OBVIOUS
  <2>. QED  BY <2>3, <2>4, <1>1, <1>5
<1>7. PowerOfX(4, M) = {1, 2}
  <2>1. Shift({0, 1}, 1) = {1, 2}
    BY DEF Shift
  <2>3. TimesX({0, 1}, M) = {1, 2}
    BY <2>1, <1>3
  <2>4. 3 \in Nat /\ 3 + 1 = 4
    OBVIOUS
  <2>. QED  BY <2>3, <2>4, <1>1, <1>6
<1>8. PowerOfX(5, M) = {0, 1, 2}
  <2>1. Shift({1, 2}, 1) = {2, 3}
    BY DEF Shift
  <2>2. SymDiff({2, 3}, M) = {0, 1, 2}
    BY DEF SymDiff
  <2>3. TimesX({1, 2}, M) = {0, 1, 2}
    BY <2>1, <2>2, <1>3
  <2>4. 4 \in Nat /\ 4 + 1 = 5
    OBVIOUS
  <2>. QED  BY <2>3, <2>4, <1>1, <1>7
<1>9. PowerOfX(6, M) = {0, 2}
  <2>1. Shift({0, 1, 2}, 1) = {1, 2, 3}
    BY DEF Shift
  <2>2. SymDiff({1, 2, 3}, M) = {0, 2}
    BY DEF SymDiff
  <2>3. TimesX({0, 1, 2}, M) = {0, 2}
    BY <2>1, <2>2, <1>3
  <2>4. 5 \in Nat /\ 5 + 1 = 6
    OBVIOUS
  <2>. QED  BY <2>3, <2>4, <1>1, <1>8
<1>. QED  BY <1>1, <1>4, <1>5, <1>6, <1>7, <1>8, <1>9

\* The powers of x modulo x^4 + x + 1: all fifteen elements but zero.
LEMMA PowersOf4 ==
    /\ PowerOfX(0, {0, 1, 4}) = {0}
    /\ PowerOfX(1, {0, 1, 4}) = {1}
    /\ PowerOfX(2, {0, 1, 4}) = {2}
    /\ PowerOfX(3, {0, 1, 4}) = {3}
    /\ PowerOfX(4, {0, 1, 4}) = {0, 1}
    /\ PowerOfX(5, {0, 1, 4}) = {1, 2}
    /\ PowerOfX(6, {0, 1, 4}) = {2, 3}
    /\ PowerOfX(7, {0, 1, 4}) = {0, 1, 3}
    /\ PowerOfX(8, {0, 1, 4}) = {0, 2}
    /\ PowerOfX(9, {0, 1, 4}) = {1, 3}
    /\ PowerOfX(10, {0, 1, 4}) = {0, 1, 2}
    /\ PowerOfX(11, {0, 1, 4}) = {1, 2, 3}
    /\ PowerOfX(12, {0, 1, 4}) = {0, 1, 2, 3}
    /\ PowerOfX(13, {0, 1, 4}) = {0, 2, 3}
    /\ PowerOfX(14, {0, 1, 4}) = {0, 3}
<1>. DEFINE M == {0, 1, 4}
<1>1. PowerOfX(0, M) = {0} /\ \A n \in Nat : PowerOfX(n + 1, M) = TimesX(PowerOfX(n, M), M)
  BY Powers
<1>2. Max(M) = 4
  BY TopBits
<1>3. \A x : TimesX(x, M) = IF 4 \in Shift(x, 1) THEN SymDiff(Shift(x, 1), M) ELSE Shift(x, 1)
  BY <1>2 DEF TimesX, Plus
<1>4. PowerOfX(1, M) = {1}
  <2>1. Shift({0}, 1) = {1}
    BY DEF Shift
  <2>3. TimesX({0}, M) = {1}
    BY <2>1, <1>3
  <2>4. 0 \in Nat /\ 0 + 1 = 1
    OBVIOUS
  <2>. QED  BY <2>3, <2>4, <1>1, <1>1
<1>5. PowerOfX(2, M) = {2}
  <2>1. Shift({1}, 1) = {2}
    BY DEF Shift
  <2>3. TimesX({1}, M) = {2}
    BY <2>1, <1>3
  <2>4. 1 \in Nat /\ 1 + 1 = 2
    OBVIOUS
  <2>. QED  BY <2>3, <2>4, <1>1, <1>4
<1>6. PowerOfX(3, M) = {3}
  <2>1. Shift({2}, 1) = {3}
    BY DEF Shift
  <2>3. TimesX({2}, M) = {3}
    BY <2>1, <1>3
  <2>4. 2 \in Nat /\ 2 + 1 = 3
    OBVIOUS
  <2>. QED  BY <2>3, <2>4, <1>1, <1>5
<1>7. PowerOfX(4, M) = {0, 1}
  <2>1. Shift({3}, 1) = {4}
    BY DEF Shift
  <2>2. SymDiff({4}, M) = {0, 1}
    BY DEF SymDiff
  <2>3. TimesX({3}, M) = {0, 1}
    BY <2>1, <2>2, <1>3
  <2>4. 3 \in Nat /\ 3 + 1 = 4
    OBVIOUS
  <2>. QED  BY <2>3, <2>4, <1>1, <1>6
<1>8. PowerOfX(5, M) = {1, 2}
  <2>1. Shift({0, 1}, 1) = {1, 2}
    BY DEF Shift
  <2>3. TimesX({0, 1}, M) = {1, 2}
    BY <2>1, <1>3
  <2>4. 4 \in Nat /\ 4 + 1 = 5
    OBVIOUS
  <2>. QED  BY <2>3, <2>4, <1>1, <1>7
<1>9. PowerOfX(6, M) = {2, 3}
  <2>1. Shift({1, 2}, 1) = {2, 3}
    BY DEF Shift
  <2>3. TimesX({1, 2}, M) = {2, 3}
    BY <2>1, <1>3
  <2>4. 5 \in Nat /\ 5 + 1 = 6
    OBVIOUS
  <2>. QED  BY <2>3, <2>4, <1>1, <1>8
<1>10. PowerOfX(7, M) = {0, 1, 3}
  <2>1. Shift({2, 3}, 1) = {3, 4}
    BY DEF Shift
  <2>2. SymDiff({3, 4}, M) = {0, 1, 3}
    BY DEF SymDiff
  <2>3. TimesX({2, 3}, M) = {0, 1, 3}
    BY <2>1, <2>2, <1>3
  <2>4. 6 \in Nat /\ 6 + 1 = 7
    OBVIOUS
  <2>. QED  BY <2>3, <2>4, <1>1, <1>9
<1>11. PowerOfX(8, M) = {0, 2}
  <2>1. Shift({0, 1, 3}, 1) = {1, 2, 4}
    BY DEF Shift
  <2>2. SymDiff({1, 2, 4}, M) = {0, 2}
    BY DEF SymDiff
  <2>3. TimesX({0, 1, 3}, M) = {0, 2}
    BY <2>1, <2>2, <1>3
  <2>4. 7 \in Nat /\ 7 + 1 = 8
    OBVIOUS
  <2>. QED  BY <2>3, <2>4, <1>1, <1>10
<1>12. PowerOfX(9, M) = {1, 3}
  <2>1. Shift({0, 2}, 1) = {1, 3}
    BY DEF Shift
  <2>3. TimesX({0, 2}, M) = {1, 3}
    BY <2>1, <1>3
  <2>4. 8 \in Nat /\ 8 + 1 = 9
    OBVIOUS
  <2>. QED  BY <2>3, <2>4, <1>1, <1>11
<1>13. PowerOfX(10, M) = {0, 1, 2}
  <2>1. Shift({1, 3}, 1) = {2, 4}
    BY DEF Shift
  <2>2. SymDiff({2, 4}, M) = {0, 1, 2}
    BY DEF SymDiff
  <2>3. TimesX({1, 3}, M) = {0, 1, 2}
    BY <2>1, <2>2, <1>3
  <2>4. 9 \in Nat /\ 9 + 1 = 10
    OBVIOUS
  <2>. QED  BY <2>3, <2>4, <1>1, <1>12
<1>14. PowerOfX(11, M) = {1, 2, 3}
  <2>1. Shift({0, 1, 2}, 1) = {1, 2, 3}
    BY DEF Shift
  <2>3. TimesX({0, 1, 2}, M) = {1, 2, 3}
    BY <2>1, <1>3
  <2>4. 10 \in Nat /\ 10 + 1 = 11
    OBVIOUS
  <2>. QED  BY <2>3, <2>4, <1>1, <1>13
<1>15. PowerOfX(12, M) = {0, 1, 2, 3}
  <2>1. Shift({1, 2, 3}, 1) = {2, 3, 4}
    BY DEF Shift
  <2>2. SymDiff({2, 3, 4}, M) = {0, 1, 2, 3}
    BY DEF SymDiff
  <2>3. TimesX({1, 2, 3}, M) = {0, 1, 2, 3}
    BY <2>1, <2>2, <1>3
  <2>4. 11 \in Nat /\ 11 + 1 = 12
    OBVIOUS
  <2>. QED  BY <2>3, <2>4, <1>1, <1>14
<1>16. PowerOfX(13, M) = {0, 2, 3}
  <2>1. Shift({0, 1, 2, 3}, 1) = {1, 2, 3, 4}
    BY DEF Shift
  <2>2. SymDiff({1, 2, 3, 4}, M) = {0, 2, 3}
    BY DEF SymDiff
  <2>3. TimesX({0, 1, 2, 3}, M) = {0, 2, 3}
    BY <2>1, <2>2, <1>3
  <2>4. 12 \in Nat /\ 12 + 1 = 13
    OBVIOUS
  <2>. QED  BY <2>3, <2>4, <1>1, <1>15
<1>17. PowerOfX(14, M) = {0, 3}
  <2>1. Shift({0, 2, 3}, 1) = {1, 3, 4}
    BY DEF Shift
  <2>2. SymDiff({1, 3, 4}, M) = {0, 3}
    BY DEF SymDiff
  <2>3. TimesX({0, 2, 3}, M) = {0, 3}
    BY <2>1, <2>2, <1>3
  <2>4. 13 \in Nat /\ 13 + 1 = 14
    OBVIOUS
  <2>. QED  BY <2>3, <2>4, <1>1, <1>16
<1>. QED  BY <1>1, <1>4, <1>5, <1>6, <1>7, <1>8, <1>9, <1>10, <1>11, <1>12, <1>13, <1>14, <1>15, <1>16, <1>17

-----------------------------------------------------------------------------
(* The places of the vectors. *)

\* Where the vectors sit: the powers of x, and zero.
Placing(N, M) == [n \in 0..N |-> IF n = N THEN {} ELSE PowerOfX(n, M)]

\* An enumeration of all labels.
Bijects(N, m, E) ==
    /\ E \in [0..N -> LabelsOf(m)]
    /\ \A i, j \in 0..N : E[i] = E[j] => i = j
    /\ \A p \in LabelsOf(m) : \E i \in 0..N : E[i] = p

\* Every row has a place of its own and every place has a row: degree 2,
LEMMA Placing2 == Bijects(3, 2, Placing(3, {0, 1, 2}))
<1>. DEFINE E == Placing(3, {0, 1, 2})
<1>1. DOMAIN E = 0..3 /\ \A n \in 0..3 : E[n] = IF n = 3 THEN {} ELSE PowerOfX(n, {0, 1, 2})
  BY DEF Placing
<1>. HIDE DEF E
<1>2. /\ E[0] = {0}
      /\ E[1] = {1}
      /\ E[2] = {0, 1}
      /\ E[3] = {}
  BY <1>1, PowersOf2
<1>3. /\ Code({0}) = 1
      /\ Code({1}) = 2
      /\ Code({0, 1}) = 3
      /\ Code({}) = 0
  BY DEF Code, Bit
<1>4. /\ Code(E[0]) = 1
      /\ Code(E[1]) = 2
      /\ Code(E[2]) = 3
      /\ Code(E[3]) = 0
  BY <1>2, <1>3
<1>5. \A n \in 0..3 : n \in {0, 1, 2, 3}
  OBVIOUS
<1>6. \A n \in 0..3 : E[n] \in LabelsOf(2)
  <2>1. 2 - 1 = 1 /\ 0..1 = {0, 1}
    OBVIOUS
  <2>2. /\ {0} \in LabelsOf(2)
        /\ {1} \in LabelsOf(2)
        /\ {0, 1} \in LabelsOf(2)
        /\ {} \in LabelsOf(2)
    BY <2>1 DEF LabelsOf
  <2>3. /\ E[0] \in LabelsOf(2)
        /\ E[1] \in LabelsOf(2)
        /\ E[2] \in LabelsOf(2)
        /\ E[3] \in LabelsOf(2)
    BY <2>2, <1>2
  <2>. QED  BY <2>3, <1>5
<1>7. ASSUME NEW i \in 0..3, NEW j \in 0..3, E[i] = E[j] PROVE i = j
  <2>1. Code(E[i]) = Code(E[j])
    BY <1>7
  <2>. QED  BY <2>1, <1>4, <1>5
<1>8. ASSUME NEW p \in LabelsOf(2) PROVE \E i \in 0..3 : E[i] = p
  <2>1. Code(p) \in {0, 1, 2, 3} /\ p \in LabelsOf(4)
    BY CodeRange
  <2>2. PICK i \in {0, 1, 2, 3} : Code(E[i]) = Code(p)
    BY <2>1, <1>4
  <2>3. i \in 0..3 /\ E[i] \in LabelsOf(2)
    BY <1>6
  <2>4. E[i] = p
    BY <2>1, <2>2, <2>3, CodeRange, CodeOneWay
  <2>. QED  BY <2>3, <2>4
<1>9. E \in [0..3 -> LabelsOf(2)]
  <2>1. E = [n \in 0..3 |-> E[n]]
    BY DEF E, Placing
  <2>. QED  BY <2>1, <1>6
<1>. QED  BY <1>7, <1>8, <1>9 DEF Bijects, E

\* degree 3,
LEMMA Placing3 == Bijects(7, 3, Placing(7, {0, 1, 3}))
<1>. DEFINE E == Placing(7, {0, 1, 3})
<1>1. DOMAIN E = 0..7 /\ \A n \in 0..7 : E[n] = IF n = 7 THEN {} ELSE PowerOfX(n, {0, 1, 3})
  BY DEF Placing
<1>. HIDE DEF E
<1>2. /\ E[0] = {0}
      /\ E[1] = {1}
      /\ E[2] = {2}
      /\ E[3] = {0, 1}
      /\ E[4] = {1, 2}
      /\ E[5] = {0, 1, 2}
      /\ E[6] = {0, 2}
      /\ E[7] = {}
  BY <1>1, PowersOf3
<1>3. /\ Code({0}) = 1
      /\ Code({1}) = 2
      /\ Code({2}) = 4
      /\ Code({0, 1}) = 3
      /\ Code({1, 2}) = 6
      /\ Code({0, 1, 2}) = 7
      /\ Code({0, 2}) = 5
      /\ Code({}) = 0
  BY DEF Code, Bit
<1>4. /\ Code(E[0]) = 1
      /\ Code(E[1]) = 2
      /\ Code(E[2]) = 4
      /\ Code(E[3]) = 3
      /\ Code(E[4]) = 6
      /\ Code(E[5]) = 7
      /\ Code(E[6]) = 5
      /\ Code(E[7]) = 0
  BY <1>2, <1>3
<1>5. \A n \in 0..7 : n \in {0, 1, 2, 3, 4, 5, 6, 7}
  OBVIOUS
<1>6. \A n \in 0..7 : E[n] \in LabelsOf(3)
  <2>1. 3 - 1 = 2 /\ 0..2 = {0, 1, 2}
    OBVIOUS
  <2>2. /\ {0} \in LabelsOf(3)
        /\ {1} \in LabelsOf(3)
        /\ {2} \in LabelsOf(3)
        /\ {0, 1} \in LabelsOf(3)
        /\ {1, 2} \in LabelsOf(3)
        /\ {0, 1, 2} \in LabelsOf(3)
        /\ {0, 2} \in LabelsOf(3)
        /\ {} \in LabelsOf(3)
    BY <2>1 DEF LabelsOf
  <2>3. /\ E[0] \in LabelsOf(3)
        /\ E[1] \in LabelsOf(3)
        /\ E[2] \in LabelsOf(3)
        /\ E[3] \in LabelsOf(3)
        /\ E[4] \in LabelsOf(3)
        /\ E[5] \in LabelsOf(3)
        /\ E[6] \in LabelsOf(3)
        /\ E[7] \in LabelsOf(3)
    BY <2>2, <1>2
  <2>. QED  BY <2>3, <1>5
<1>7. ASSUME NEW i \in 0..7, NEW j \in 0..7, E[i] = E[j] PROVE i = j
  <2>1. Code(E[i]) = Code(E[j])
    BY <1>7
  <2>. QED  BY <2>1, <1>4, <1>5
<1>8. ASSUME NEW p \in LabelsOf(3) PROVE \E i \in 0..7 : E[i] = p
  <2>1. Code(p) \in {0, 1, 2, 3, 4, 5, 6, 7} /\ p \in LabelsOf(4)
    BY CodeRange
  <2>2. PICK i \in {0, 1, 2, 3, 4, 5, 6, 7} : Code(E[i]) = Code(p)
    BY <2>1, <1>4
  <2>3. i \in 0..7 /\ E[i] \in LabelsOf(3)
    BY <1>6
  <2>4. E[i] = p
    BY <2>1, <2>2, <2>3, CodeRange, CodeOneWay
  <2>. QED  BY <2>3, <2>4
<1>9. E \in [0..7 -> LabelsOf(3)]
  <2>1. E = [n \in 0..7 |-> E[n]]
    BY DEF E, Placing
  <2>. QED  BY <2>1, <1>6
<1>. QED  BY <1>7, <1>8, <1>9 DEF Bijects, E

\* and degree 4.
LEMMA Placing4 == Bijects(15, 4, Placing(15, {0, 1, 4}))
<1>. DEFINE E == Placing(15, {0, 1, 4})
<1>1. DOMAIN E = 0..15 /\ \A n \in 0..15 : E[n] = IF n = 15 THEN {} ELSE PowerOfX(n, {0, 1, 4})
  BY DEF Placing
<1>. HIDE DEF E
<1>2. /\ E[0] = {0}
      /\ E[1] = {1}
      /\ E[2] = {2}
      /\ E[3] = {3}
      /\ E[4] = {0, 1}
      /\ E[5] = {1, 2}
      /\ E[6] = {2, 3}
      /\ E[7] = {0, 1, 3}
      /\ E[8] = {0, 2}
      /\ E[9] = {1, 3}
      /\ E[10] = {0, 1, 2}
      /\ E[11] = {1, 2, 3}
      /\ E[12] = {0, 1, 2, 3}
      /\ E[13] = {0, 2, 3}
      /\ E[14] = {0, 3}
      /\ E[15] = {}
  BY <1>1, PowersOf4
<1>3. /\ Code({0}) = 1
      /\ Code({1}) = 2
      /\ Code({2}) = 4
      /\ Code({3}) = 8
      /\ Code({0, 1}) = 3
      /\ Code({1, 2}) = 6
      /\ Code({2, 3}) = 12
      /\ Code({0, 1, 3}) = 11
      /\ Code({0, 2}) = 5
      /\ Code({1, 3}) = 10
      /\ Code({0, 1, 2}) = 7
      /\ Code({1, 2, 3}) = 14
      /\ Code({0, 1, 2, 3}) = 15
      /\ Code({0, 2, 3}) = 13
      /\ Code({0, 3}) = 9
      /\ Code({}) = 0
  BY DEF Code, Bit
<1>4. /\ Code(E[0]) = 1
      /\ Code(E[1]) = 2
      /\ Code(E[2]) = 4
      /\ Code(E[3]) = 8
      /\ Code(E[4]) = 3
      /\ Code(E[5]) = 6
      /\ Code(E[6]) = 12
      /\ Code(E[7]) = 11
      /\ Code(E[8]) = 5
      /\ Code(E[9]) = 10
      /\ Code(E[10]) = 7
      /\ Code(E[11]) = 14
      /\ Code(E[12]) = 15
      /\ Code(E[13]) = 13
      /\ Code(E[14]) = 9
      /\ Code(E[15]) = 0
  BY <1>2, <1>3
<1>5. \A n \in 0..15 : n \in {0, 1, 2, 3, 4, 5, 6, 7, 8, 9, 10, 11, 12, 13, 14, 15}
  OBVIOUS
<1>6. \A n \in 0..15 : E[n] \in LabelsOf(4)
  <2>1. 4 - 1 = 3 /\ 0..3 = {0, 1, 2, 3}
    OBVIOUS
  <2>2. /\ {0} \in LabelsOf(4)
        /\ {1} \in LabelsOf(4)
        /\ {2} \in LabelsOf(4)
        /\ {3} \in LabelsOf(4)
        /\ {0, 1} \in LabelsOf(4)
        /\ {1, 2} \in LabelsOf(4)
        /\ {2, 3} \in LabelsOf(4)
        /\ {0, 1, 3} \in LabelsOf(4)
        /\ {0, 2} \in LabelsOf(4)
        /\ {1, 3} \in LabelsOf(4)
        /\ {0, 1, 2} \in LabelsOf(4)
        /\ {1, 2, 3} \in LabelsOf(4)
        /\ {0, 1, 2, 3} \in LabelsOf(4)
        /\ {0, 2, 3} \in LabelsOf(4)
        /\ {0, 3} \in LabelsOf(4)
        /\ {} \in LabelsOf(4)
    BY <2>1 DEF LabelsOf
  <2>3. /\ E[0] \in LabelsOf(4)
        /\ E[1] \in LabelsOf(4)
        /\ E[2] \in LabelsOf(4)
        /\ E[3] \in LabelsOf(4)
        /\ E[4] \in LabelsOf(4)
        /\ E[5] \in LabelsOf(4)
        /\ E[6] \in LabelsOf(4)
        /\ E[7] \in LabelsOf(4)
        /\ E[8] \in LabelsOf(4)
        /\ E[9] \in LabelsOf(4)
        /\ E[10] \in LabelsOf(4)
        /\ E[11] \in LabelsOf(4)
        /\ E[12] \in LabelsOf(4)
        /\ E[13] \in LabelsOf(4)
        /\ E[14] \in LabelsOf(4)
        /\ E[15] \in LabelsOf(4)
    BY <2>2, <1>2
  <2>. QED  BY <2>3, <1>5
<1>7. ASSUME NEW i \in 0..15, NEW j \in 0..15, E[i] = E[j] PROVE i = j
  <2>1. Code(E[i]) = Code(E[j])
    BY <1>7
  <2>. QED  BY <2>1, <1>4, <1>5
<1>8. ASSUME NEW p \in LabelsOf(4) PROVE \E i \in 0..15 : E[i] = p
  <2>1. Code(p) \in {0, 1, 2, 3, 4, 5, 6, 7, 8, 9, 10, 11, 12, 13, 14, 15} /\ p \in LabelsOf(4)
    BY CodeRange
  <2>2. PICK i \in {0, 1, 2, 3, 4, 5, 6, 7, 8, 9, 10, 11, 12, 13, 14, 15} : Code(E[i]) = Code(p)
    BY <2>1, <1>4
  <2>3. i \in 0..15 /\ E[i] \in LabelsOf(4)
    BY <1>6
  <2>4. E[i] = p
    BY <2>1, <2>2, <2>3, CodeRange, CodeOneWay
  <2>. QED  BY <2>3, <2>4
<1>9. E \in [0..15 -> LabelsOf(4)]
  <2>1. E = [n \in 0..15 |-> E[n]]
    BY DEF E, Placing
  <2>. QED  BY <2>1, <1>6
<1>. QED  BY <1>7, <1>8, <1>9 DEF Bijects, E

-----------------------------------------------------------------------------
(* The specification. *)

\* A map of rows onto all rows.
Onto(N, p) == p \in [0..N - 1 -> 0..N - 1] /\ \A j \in 0..N - 1 : \E i \in 0..N - 1 : p[i] = j

\* A map of finitely many rows onto themselves takes no two of them to the same.
LEMMA OntoOneWay ==
    ASSUME NEW N \in Nat, NEW p, Onto(N, p)
    PROVE  \A i, j \in 0..N - 1 : p[i] = p[j] => i = j
<1>. DEFINE V == 0..N - 1
<1>1. IsFiniteSet(V)
  BY FS_Interval
<1>2. p \in Surjection(V, V)
  BY DEF Surjection, Onto
<1>3. p \in Injection(V, V)
  <2>. HIDE DEF V
  <2>. QED  BY <1>1, <1>2, FS_SurjSameCardinalityImpliesInj
<1>. QED  BY <1>3 DEF Injection, IsInjective

\* Naming the rows by their places and permuting them is one to one.
LogIn(N, E, w) == CHOOSE n \in 0..N : E[n] = w

\* So does the permutation of the rows, told in terms of their places.
LEMMA ConjugateOneToOne ==
    ASSUME NEW N \in Nat, NEW m, NEW E, Bijects(N, m, E), NEW p, Onto(N, p), NEW f,
           f = [w \in LabelsOf(m) |-> E[IF LogIn(N, E, w) = N THEN N ELSE p[LogIn(N, E, w)]]]
    PROVE  OneToOne(m, f)
<1>. DEFINE G(w) == LogIn(N, E, w)
            H(n) == IF n = N THEN N ELSE p[n]
<1>1. \A w \in LabelsOf(m) : G(w) \in 0..N /\ E[G(w)] = w
  BY DEF LogIn, Bijects
<1>2. \A n \in 0..N : E[n] \in LabelsOf(m) /\ G(E[n]) = n
  <2>1. \A n \in 0..N : E[n] \in LabelsOf(m)
    BY DEF Bijects
  <2>. HIDE DEF G
  <2>. QED  BY <2>1, <1>1 DEF Bijects
<1>3. \A n \in 0..N : H(n) \in 0..N
  <2>. SUFFICES ASSUME NEW n \in 0..N PROVE H(n) \in 0..N
    OBVIOUS
  <2>1. CASE n = N
    <3>1. H(n) = N
      BY <2>1
    <3>. QED  BY <3>1
  <2>2. CASE n # N
    <3>1. n \in 0..N - 1 /\ H(n) = p[n]
      BY <2>2
    <3>2. p[n] \in 0..N - 1
      BY <3>1 DEF Onto
    <3>. QED  BY <3>1, <3>2
  <2>. QED  BY <2>1, <2>2
<1>4. \A i, j \in 0..N : H(i) = H(j) => i = j
  <2>1. \A i \in 0..N : i # N => i \in 0..N - 1 /\ p[i] \in 0..N - 1 /\ p[i] # N
    BY DEF Onto
  <2>2. \A i, j \in 0..N - 1 : p[i] = p[j] => i = j
    BY OntoOneWay
  <2>. QED  BY <2>1, <2>2
<1>5. \A j \in 0..N : \E i \in 0..N : H(i) = j
  <2>. SUFFICES ASSUME NEW j \in 0..N PROVE \E i \in 0..N : H(i) = j
    OBVIOUS
  <2>1. CASE j = N
    <3>1. N \in 0..N /\ H(N) = N
      OBVIOUS
    <3>. QED  BY <3>1, <2>1
  <2>2. CASE j # N
    <3>1. j \in 0..N - 1
      BY <2>2
    <3>2. PICK i \in 0..N - 1 : p[i] = j
      BY <3>1 DEF Onto
    <3>3. i \in 0..N /\ i # N
      OBVIOUS
    <3>. QED  BY <3>2, <3>3
  <2>. QED  BY <2>1, <2>2
<1>. HIDE DEF G, H
<1>6. f = [w \in LabelsOf(m) |-> E[H(G(w))]]
  BY DEF G, H
<1>7. f \in [LabelsOf(m) -> LabelsOf(m)]
  BY <1>1, <1>2, <1>3, <1>6
<1>8. ASSUME NEW u \in LabelsOf(m), NEW w \in LabelsOf(m), f[u] = f[w] PROVE u = w
  <2>1. E[H(G(u))] = E[H(G(w))] /\ G(u) \in 0..N /\ G(w) \in 0..N
    BY <1>1, <1>6, <1>8
  <2>2. H(G(u)) = H(G(w))
    BY <2>1, <1>3 DEF Bijects
  <2>3. G(u) = G(w)
    BY <2>1, <2>2, <1>4
  <2>. QED  BY <2>3, <1>1
<1>9. ASSUME NEW q \in LabelsOf(m) PROVE \E w \in LabelsOf(m) : f[w] = q
  <2>1. PICK j \in 0..N : E[j] = q
    BY DEF Bijects
  <2>2. PICK i \in 0..N : H(i) = j
    BY <1>5
  <2>3. E[i] \in LabelsOf(m) /\ G(E[i]) = i
    BY <1>2
  <2>. QED  BY <2>1, <2>2, <2>3, <1>6
<1>. QED  BY <1>7, <1>8, <1>9 DEF OneToOne

\* The permutation the network is asked to route reaches every place once.
LEMMA RoutedOneToOne ==
    ASSUME inst.k \in {2, 3, 4}, NEW p, p \in [VectorIds -> VectorIds], Range(p) = VectorIds
    PROVE  OneToOne(inst.k, permToRout(p))
<1>. DEFINE N == domainSize
            E == exponents
            f == permToRout(p)
<1>1. 2^2 - 1 = 3 /\ 2^3 - 1 = 7 /\ 2^4 - 1 = 15
  OBVIOUS
<1>2. N \in Nat /\ Bijects(N, inst.k, E)
  <2>1. CASE inst.k = 2
    <3>1. domainSize = 3 /\ rowsModulus = {0, 1, 2}
      BY <1>1, <2>1 DEF domainSize, rowsModulus, findPrimitive, height
    <3>2. E = Placing(3, {0, 1, 2})
      BY <3>1 DEF exponents, Placing
    <3>. QED  BY <3>1, <3>2, <2>1, Placing2
  <2>2. CASE inst.k = 3
    <3>1. domainSize = 7 /\ rowsModulus = {0, 1, 3}
      BY <1>1, <2>2 DEF domainSize, rowsModulus, findPrimitive, height
    <3>2. E = Placing(7, {0, 1, 3})
      BY <3>1 DEF exponents, Placing
    <3>. QED  BY <3>1, <3>2, <2>2, Placing3
  <2>3. CASE inst.k = 4
    <3>1. domainSize = 15 /\ rowsModulus = {0, 1, 4}
      BY <1>1, <2>3 DEF domainSize, rowsModulus, findPrimitive, height
    <3>2. E = Placing(15, {0, 1, 4})
      BY <3>1 DEF exponents, Placing
    <3>. QED  BY <3>1, <3>2, <2>3, Placing4
  <2>. QED  BY <2>1, <2>2, <2>3
<1>3. Onto(N, p)
  <2>1. VectorIds = 0..N - 1 /\ DOMAIN p = 0..N - 1
    BY DEF VectorIds
  <2>2. \A j \in 0..N - 1 : \E i \in 0..N - 1 : p[i] = j
    BY <2>1 DEF Range
  <2>. QED  BY <2>1, <2>2 DEF Onto
<1>4. f = [w \in LabelsOf(inst.k) |-> E[IF LogIn(N, E, w) = N THEN N ELSE p[LogIn(N, E, w)]]]
  BY DEF permToRout, LogIn, logarithm, LabelsOf
<1>. HIDE DEF N, E, f
<1>5. OneToOne(inst.k, f)
  BY <1>2, <1>3, <1>4, ConjugateOneToOne
<1>. QED  BY <1>5 DEF f

-----------------------------------------------------------------------------

\* In every state: once the network is built, the router's invariant holds.
NetworkInv ==
    /\ inst \in Instances /\ k = inst.k
    /\ rev = <<>> \/ RouteInv
    /\ stage = "network" => RouteInv

\* Before the network is built there is nothing to say.
LEMMA NetworkInvInit == Init => NetworkInv
BY DEF Init, NetworkInv

\* mapChi starts the router with a one to one permutation, routNetwork routes, and
\* mapNetwork only reads.
LEMMA NetworkInvNext == NetworkInv /\ [Next]_vars => NetworkInv'
<1>. SUFFICES ASSUME NetworkInv, [Next]_vars PROVE NetworkInv'
  OBVIOUS
<1>1. inst \in Instances /\ k = inst.k /\ k \in {2, 3, 4} /\ k \in Nat \ {0}
  BY InstancesAssumption DEF NetworkInv
<1>2. UNCHANGED <<k, permutation, benesVars>> => (RouteInv' <=> RouteInv)
  <2>. SUFFICES ASSUME UNCHANGED <<k, permutation, benesVars>> PROVE RouteInv' <=> RouteInv
    OBVIOUS
  <2>1. /\ k' = k /\ permutation' = permutation /\ rev' = rev /\ btr' = btr /\ calls' = calls
        /\ unrouted' = unrouted /\ src' = src
    BY DEF benesVars
  <2>2. shiftRight(permutation)' = shiftRight(permutation)
    BY <2>1 DEF shiftRight, Labels
  <2>. QED  BY <2>1, <2>2 DEF RouteInv
<1>3. CASE mapChi
  <2>1. inst' = inst /\ k' = k /\ pi' \in [VectorIds -> VectorIds] /\ Range(pi') = VectorIds
    BY <1>3 DEF mapChi
  <2>2. CASE hasRoutingNetwork
    <3>1. permutation' = permToRout(pi') /\ constructBenes(permutation') /\ stage' = "network"
      BY <1>3, <2>2 DEF mapChi
    <3>2. OneToOne(k, permutation')
      BY <3>1, <2>1, <1>1, RoutedOneToOne
    <3>3. RouteInv'
      BY <3>1, <3>2, <2>1, <1>1, RouteStarts
    <3>. QED  BY <3>3, <2>1, <1>1 DEF NetworkInv
  <2>3. CASE ~hasRoutingNetwork
    <3>1. UNCHANGED <<permutation, benesVars>> /\ stage' = "done"
      BY <1>3, <2>3 DEF mapChi
    <3>2. UNCHANGED <<k, permutation, benesVars>> /\ rev' = rev
      BY <3>1, <2>1 DEF benesVars
    <3>. QED  BY <3>1, <3>2, <2>1, <1>1, <1>2 DEF NetworkInv
  <2>. QED  BY <2>2, <2>3
<1>4. CASE routNetwork
  <2>1. Route /\ RouteInv /\ inst' = inst /\ k' = k
    BY <1>4 DEF routNetwork, Route, acspVars, NetworkInv
  <2>2. RouteInv'
    BY <2>1, RouteKeeps
  <2>. QED  BY <2>1, <2>2, <1>1 DEF NetworkInv
<1>5. CASE mapNetwork
  <2>1. UNCHANGED <<k, permutation, benesVars>> /\ inst' = inst /\ rev' = rev /\ stage' = "done"
    BY <1>5 DEF mapNetwork, benesVars
  <2>. QED  BY <2>1, <1>1, <1>2 DEF NetworkInv
<1>6. CASE UNCHANGED vars
  <2>1. UNCHANGED <<k, permutation, benesVars>> /\ inst' = inst /\ rev' = rev /\ stage' = stage
    BY <1>6 DEF vars, acspVars, benesVars
  <2>. QED  BY <2>1, <1>1, <1>2 DEF NetworkInv
<1>. QED  BY <1>3, <1>4, <1>5, <1>6 DEF Next

\* In every state of the reduction: once mapChi has built the network and while
\* routNetwork routes it, the invariant of the router holds of it (BairToAcsp's
\* routingHelper and BenesNetwork::rout).
THEOREM RouterInvariant == Spec => []NetworkInv
<1>1. Init => NetworkInv
  BY NetworkInvInit
<1>2. NetworkInv /\ [Next]_vars => NetworkInv'
  BY NetworkInvNext
<1>. QED  BY <1>1, <1>2, PTL DEF Spec

\* For every instance and every permutation of its rows: when the router has no call
\* left, the data the network is read by (LongSymmetricDeBruijnNetwork::getDataID) holds
\* the rows in order in the first column of one wing and permuted in that of the other,
\* every column holds each packet once, packets follow the edges the routing bits name,
\* and both wings end in the same column.
THEOREM Delivery == Spec => []Delivers
<1>1. NetworkInv => Delivers
  <2>1. CASE ~Routed
    BY <2>1 DEF Delivers
  <2>2. CASE Routed
    <3>1. NetworkInv => RouteInv /\ k \in {2, 3, 4}
      BY <2>2, InstancesAssumption DEF NetworkInv, Routed
    <3>. QED  BY <3>1, RoutedDelivers
  <2>. QED  BY <2>1, <2>2
<1>. QED  BY <1>1, RouterInvariant, PTL

-----------------------------------------------------------------------------
(* Indexes and their bits. *)

Words31 == 0..2^31 - 1
Digit(i, b) == (i \div 2^b) % 2

\* A bit that is set is one Bits looks at.
LEMMA HighDigits ==
    ASSUME NEW i \in Words31, NEW b \in Nat, Digit(i, b) = 1
    PROVE  b \in 0..30
<1>. SUFFICES ASSUME b >= 31 PROVE FALSE
  OBVIOUS
<1>1. 2^31 <= 2^b /\ 2^31 \in Nat /\ 2^b \in Nat /\ 2^b > 0
  BY PowerMonotone, PowerPositive, 31 \in Nat
<1>2. i \in Nat /\ i < 2^b
  BY <1>1 DEF Words31
<1>3. i = 2^b * 0 + i /\ i \in 0..2^b - 1
  BY <1>1, <1>2
<1>4. i \div 2^b = 0
  BY <1>1, <1>3, QuotientUnique
<1>. QED  BY <1>4 DEF Digit

\* Bits of a number below 2^31 are its binary digits, ...
LEMMA BitsAre ==
    ASSUME NEW i \in Words31, NEW b \in Nat
    PROVE  b \in Bits(i) <=> Digit(i, b) = 1
BY HighDigits DEF Bits, Digit

\* ... the sums of which give it back, ...
LEMMA DenotedByDigits ==
    ASSUME NEW N, N \in Nat, NEW v, v \in Nat, v < 2^N, NEW b, NEW p, LowParts(p, b, N),
           \A n \in 0..N - 1 : b[n] = Digit(v, n)
    PROVE  p[N] = v
<1>1. 2^N \in Nat
  BY PowerPositive
<1>2. v \in 0..2^N - 1
  BY <1>1
<1>3. \A n \in 0..N - 1 : b[n] = (v \div 2^n) % 2
  BY DEF Digit
<1>4. \A n \in 0..N - 1 : b[n] \in {0, 1}
  <2>1. \A n \in Nat : 2^n \in Nat /\ 2^n > 0
    BY PowerPositive
  <2>2. \A n \in Nat : v \div 2^n \in Nat
    BY <2>1, Quotient
  <2>3. \A a \in Nat : a % 2 \in {0, 1}
    OBVIOUS
  <2>. QED  BY <1>3, <2>2, <2>3
<1>. QED  BY <1>2, <1>3, <1>4, BinaryOfDigits

\* ... so that digits tell numbers apart, ...
LEMMA DigitsTell ==
    ASSUME NEW N, N \in Nat, NEW i, NEW j, i \in Nat, j \in Nat, i < 2^N, j < 2^N,
           \A n \in 0..N - 1 : Digit(i, n) = Digit(j, n)
    PROVE  i = j
<1>. DEFINE b == [n \in 0..N - 1 |-> Digit(i, n)]
<1>1. \A n \in 0..N - 1 : b[n] \in {0, 1}
  <2>1. \A n \in Nat : 2^n \in Nat /\ 2^n > 0
    BY PowerPositive
  <2>2. \A n \in Nat : i \div 2^n \in Nat
    BY <2>1, Quotient
  <2>3. \A a \in Nat : a % 2 \in {0, 1}
    OBVIOUS
  <2>. QED  BY <2>2, <2>3 DEF Digit
<1>2. \A n \in 0..N - 1 : b[n] = Digit(i, n) /\ b[n] = Digit(j, n)
  OBVIOUS
<1>. HIDE DEF b
<1>3. PICK p : LowParts(p, b, N)
  BY <1>1, BinaryLowParts
<1>4. p[N] = i
  BY <1>2, <1>3, DenotedByDigits
<1>5. p[N] = j
  BY <1>2, <1>3, DenotedByDigits
<1>. QED  BY <1>4, <1>5

\* ... and so do sets of bits.
LEMMA BitsOneWay ==
    ASSUME NEW i \in Words31, NEW j \in Words31, Bits(i) = Bits(j)
    PROVE  i = j
<1>1. \A n \in Nat : Digit(i, n) \in {0, 1} /\ Digit(j, n) \in {0, 1}
  <2>1. \A n \in Nat : 2^n \in Nat /\ 2^n > 0
    BY PowerPositive
  <2>2. \A n \in Nat : i \div 2^n \in Nat /\ j \div 2^n \in Nat
    BY <2>1, Quotient, 31 \in Nat DEF Words31
  <2>3. \A a \in Nat : a % 2 \in {0, 1}
    OBVIOUS
  <2>. QED  BY <2>2, <2>3 DEF Digit
<1>2. \A n \in Nat : Digit(i, n) = Digit(j, n)
  <2>. SUFFICES ASSUME NEW n \in Nat PROVE Digit(i, n) = Digit(j, n)
    OBVIOUS
  <2>1. Digit(i, n) = 1 <=> Digit(j, n) = 1
    BY BitsAre
  <2>. QED  BY <2>1, <1>1
<1>3. ASSUME NEW N, N = 31 PROVE i = j
  <2>1. N \in Nat /\ 2^N \in Nat
    BY <1>3, PowerPositive
  <2>2. i \in Nat /\ j \in Nat /\ i < 2^N /\ j < 2^N
    BY <2>1, <1>3 DEF Words31
  <2>3. \A n \in 0..N - 1 : Digit(i, n) = Digit(j, n)
    BY <1>2, <2>1
  <2>. QED  BY <2>1, <2>2, <2>3, DigitsTell
<1>. QED  BY <1>3

\* The bits of a quotient.
LEMMA HighBits ==
    ASSUME NEW i \in Words31, NEW w \in Nat
    PROVE  i \div 2^w \in Words31 /\ Bits(i \div 2^w) = {b - w : b \in {c \in Bits(i) : c >= w}}
<1>1. 2^w \in Nat /\ 2^w > 0 /\ i \in Nat /\ i <= 2^31 - 1 /\ 2^31 \in Nat
  BY PowerPositive, 31 \in Nat DEF Words31
<1>2. i \div 2^w \in Words31
  <2>1. i \div 2^w \in Nat /\ i = 2^w * (i \div 2^w) + (i % 2^w) /\ i % 2^w \in Nat
    BY <1>1, Quotient
  <2>2. \A d, q \in Nat : d > 0 => d * q >= q
    OBVIOUS
  <2>3. 2^w * (i \div 2^w) >= i \div 2^w
    BY <2>1, <2>2, <1>1
  <2>. QED  BY <2>1, <2>3, <1>1 DEF Words31
<1>3. \A b \in Nat : Digit(i \div 2^w, b) = Digit(i, w + b)
  <2>. SUFFICES ASSUME NEW b \in Nat PROVE Digit(i \div 2^w, b) = Digit(i, w + b)
    OBVIOUS
  <2>1. (i \div 2^w) \div 2^b = i \div 2^(w + b)
    BY <1>1, ShiftSum
  <2>. QED  BY <2>1 DEF Digit
<1>4. Bits(i) \subseteq Nat /\ Bits(i \div 2^w) \subseteq Nat
  BY DEF Bits
<1>5. \A b \in Nat : b \in Bits(i \div 2^w) <=> w + b \in Bits(i)
  BY <1>2, <1>3, BitsAre
<1>. QED
  <2>1. ASSUME NEW b \in Bits(i \div 2^w) PROVE b \in {x - w : x \in {c \in Bits(i) : c >= w}}
    <3>1. b \in Nat /\ w + b \in Bits(i) /\ w + b >= w /\ (w + b) - w = b
      BY <1>4, <1>5
    <3>. QED  BY <3>1
  <2>2. ASSUME NEW x \in Bits(i), x >= w PROVE x - w \in Bits(i \div 2^w)
    BY <1>4, <1>5, <2>2, x - w \in Nat, w + (x - w) = x
  <2>. QED  BY <1>2, <2>1, <2>2

-----------------------------------------------------------------------------
\* A list of the elements of S, each once.
Lists1(q, S) ==
    /\ q \in Seq(S) /\ Len(q) = Cardinality(S) /\ Cardinality(S) \in Nat
    /\ DOMAIN q = 1..Cardinality(S)
    /\ \A v \in S : \E n \in DOMAIN q : q[n] = v
    /\ \A m, n \in DOMAIN q : q[m] = q[n] => m = n

\* InOrder lists a set of numbers, each once (getRoutedIndexes).
LEMMA OrderLists ==
    ASSUME NEW S, S \subseteq Nat, IsFiniteSet(S)
    PROVE  Lists1(InOrder(S), S)
<1>. DEFINE N == Cardinality(S)
            UpTo(v) == {u \in S : u <= v}
            rank == [v \in S |-> Cardinality(UpTo(v))]
            M == InOrder(S)
<1>1. N \in Nat /\ IsFiniteSet(1..N) /\ Cardinality(1..N) = N
  BY FS_CardinalityType, FS_Interval
<1>2. M = [n \in 1..N |-> CHOOSE v \in S : Cardinality(UpTo(v)) = n]
  BY DEF InOrder
<1>3. \A v \in S : IsFiniteSet(UpTo(v)) /\ rank[v] \in 1..N
  <2>. SUFFICES ASSUME NEW v \in S PROVE IsFiniteSet(UpTo(v)) /\ rank[v] \in 1..N
    OBVIOUS
  <2>1. UpTo(v) \subseteq S /\ v \in UpTo(v)
    OBVIOUS
  <2>2. IsFiniteSet(UpTo(v)) /\ rank[v] <= N /\ rank[v] \in Nat
    BY <2>1, FS_Subset, FS_CardinalityType
  <2>3. rank[v] # 0
    BY <2>1, <2>2, FS_EmptySet
  <2>. QED  BY <1>1, <2>2, <2>3
<1>4. ASSUME NEW u \in S, NEW v \in S, u < v PROVE rank[u] # rank[v]
  <2>1. UpTo(u) \subseteq UpTo(v)
    <3>1. u \in Nat /\ v \in Nat /\ \A x \in S : x \in Nat
      OBVIOUS
    <3>2. \A x \in S : x <= u => x <= v
      BY <3>1, <1>4
    <3>. QED  BY <3>2
  <2>2. v \in UpTo(v) /\ v \notin UpTo(u)
    BY <1>4
  <2>3. rank[u] = rank[v] => UpTo(v) = UpTo(u)
    BY <1>3, <2>1, FS_Subset
  <2>. QED  BY <2>2, <2>3
<1>5. rank \in Injection(S, 1..N)
  <2>1. \A u, v \in S : rank[u] = rank[v] => u = v
    <3>1. \A u, v \in S : u = v \/ u < v \/ v < u
      OBVIOUS
    <3>. HIDE DEF rank
    <3>. QED  BY <3>1, <1>4
  <2>2. rank \in [S -> 1..N]
    BY <1>3
  <2>. HIDE DEF rank, N
  <2>. QED  BY <2>1, <2>2 DEF Injection, IsInjective
<1>6. rank \in Surjection(S, 1..N)
  <2>. HIDE DEF rank, N
  <2>. QED  BY <1>1, <1>5, FS_Injection DEF N
<1>7. \A n \in 1..N : \E v \in S : rank[v] = n
  BY <1>6 DEF Surjection
<1>8. \A n \in 1..N : M[n] \in S /\ rank[M[n]] = n
  <2>. SUFFICES ASSUME NEW n \in 1..N PROVE M[n] \in S /\ rank[M[n]] = n
    OBVIOUS
  <2>1. M[n] = CHOOSE v \in S : Cardinality(UpTo(v)) = n
    <3>. HIDE DEF M, N
    <3>. QED  BY <1>2
  <2>2. \E v \in S : Cardinality(UpTo(v)) = n
    BY <1>7
  <2>. HIDE DEF M
  <2>. QED  BY <2>1, <2>2
<1>9. \A v \in S : M[rank[v]] = v
  <2>1. \A u, v \in S : rank[u] = rank[v] => u = v
    BY <1>5 DEF Injection, IsInjective
  <2>. HIDE DEF rank, M, N
  <2>. QED  BY <1>3, <2>1, <1>8
<1>10. M = [n \in 1..N |-> M[n]]
  <2>. HIDE DEF N
  <2>. QED  BY <1>2
<1>. HIDE DEF rank, N, M
<1>11. M \in Seq(S) /\ Len(M) = N /\ DOMAIN M = 1..N
  <2>1. M \in [1..N -> S] /\ DOMAIN M = 1..N
    BY <1>8, <1>10
  <2>. QED  BY <2>1, <1>1
<1>12. \A v \in S : \E n \in 1..N : M[n] = v
  BY <1>3, <1>9
<1>13. \A m, n \in 1..N : M[m] = M[n] => m = n
  BY <1>8
<1>. QED  BY <1>1, <1>11, <1>12, <1>13 DEF Lists1, N, M

-----------------------------------------------------------------------------
(* A place by its row r, its column c and its layer l: h bits, then w bits, *)
(* then the rest.                                                           *)
Spot(h, w, r, c, l) ==
    {b \in Nat : IF b < h THEN b \in r ELSE IF b < h + w THEN b - h \in c ELSE b - (h + w) \in l}

\* Spots add up part by part, ...
LEMMA SpotPlus ==
    ASSUME NEW h \in Nat, NEW w \in Nat, NEW r, NEW c, NEW l, NEW r2, NEW c2, NEW l2
    PROVE  Plus(Spot(h, w, r, c, l), Spot(h, w, r2, c2, l2))
             = Spot(h, w, Plus(r, r2), Plus(c, c2), Plus(l, l2))
BY DEF Spot, Plus, SymDiff

\* ... each part is a shift of what it is made of, ...
LEMMA SpotParts ==
    ASSUME NEW h \in Nat, NEW w \in Nat
    PROVE  /\ \A r \in LabelsOf(h) : Spot(h, w, r, {}, {}) = r
           /\ \A c \in LabelsOf(w) : Spot(h, w, {}, c, {}) = Shift(c, h)
           /\ \A l \in SUBSET Nat : Spot(h, w, {}, {}, l) = Shift(l, h + w)
           /\ \A j \in SUBSET Nat : Spot(h, w, {}, j, {b - w : b \in {x \in j : x >= w}}) = Shift(j, h)
<1>1. ASSUME NEW r \in LabelsOf(h) PROVE Spot(h, w, r, {}, {}) = r
  <2>1. \A b \in r : b \in Nat /\ b < h
    BY DEF LabelsOf
  <2>2. \A b : b \in Spot(h, w, r, {}, {}) <=> b \in Nat /\ b < h /\ b \in r
    BY DEF Spot
  <2>. QED  BY <2>1, <2>2
<1>2. ASSUME NEW c \in LabelsOf(w) PROVE Spot(h, w, {}, c, {}) = Shift(c, h)
  <2>1. \A b \in Nat : b \in Shift(c, h) <=> b >= h /\ b - h \in c
    <3>. SUFFICES ASSUME NEW b \in Nat PROVE b \in Shift(c, h) <=> b >= h /\ b - h \in c
      OBVIOUS
    <3>1. b >= h /\ b - h \in c => b \in Shift(c, h)
      BY (b - h) + h = b DEF Shift
    <3>2. \A x \in c : x \in Nat /\ x + h >= h /\ (x + h) - h = x
      BY DEF LabelsOf
    <3>. QED  BY <3>1, <3>2 DEF Shift
  <2>2. Shift(c, h) \subseteq Nat
    BY DEF Shift, LabelsOf
  <2>3. \A b \in Nat : b >= h /\ b - h \in c => b < h + w
    BY DEF LabelsOf
  <2>. HIDE DEF Shift
  <2>. QED  BY <2>1, <2>2, <2>3 DEF Spot
<1>3. ASSUME NEW l \in SUBSET Nat PROVE Spot(h, w, {}, {}, l) = Shift(l, h + w)
  <2>1. \A b \in Nat : b \in Shift(l, h + w) <=> b >= h + w /\ b - (h + w) \in l
    <3>. SUFFICES ASSUME NEW b \in Nat
                  PROVE  b \in Shift(l, h + w) <=> b >= h + w /\ b - (h + w) \in l
      OBVIOUS
    <3>1. b >= h + w /\ b - (h + w) \in l => b \in Shift(l, h + w)
      BY (b - (h + w)) + (h + w) = b DEF Shift
    <3>2. \A x \in l : x \in Nat /\ x + (h + w) >= h + w /\ (x + (h + w)) - (h + w) = x
      OBVIOUS
    <3>. QED  BY <3>1, <3>2 DEF Shift
  <2>2. Shift(l, h + w) \subseteq Nat
    BY DEF Shift
  <2>. HIDE DEF Shift
  <2>. QED  BY <2>1, <2>2 DEF Spot
<1>4. ASSUME NEW j \in SUBSET Nat
      PROVE  Spot(h, w, {}, j, {b - w : b \in {x \in j : x >= w}}) = Shift(j, h)
  <2>. DEFINE up == {b - w : b \in {x \in j : x >= w}}
  <2>1. \A b \in Nat : b >= h + w => (b - (h + w) \in up <=> b - h \in j)
    <3>. SUFFICES ASSUME NEW b \in Nat, b >= h + w PROVE b - (h + w) \in up <=> b - h \in j
      OBVIOUS
    <3>1. b - h \in j => b - (h + w) \in up
      BY b - h >= w, (b - h) - w = b - (h + w)
    <3>2. \A x \in j : x - w = b - (h + w) => x = b - h
      OBVIOUS
    <3>. QED  BY <3>1, <3>2
  <2>2. \A b \in Nat : b \in Shift(j, h) <=> b >= h /\ b - h \in j
    <3>. SUFFICES ASSUME NEW b \in Nat PROVE b \in Shift(j, h) <=> b >= h /\ b - h \in j
      OBVIOUS
    <3>1. b >= h /\ b - h \in j => b \in Shift(j, h)
      BY (b - h) + h = b DEF Shift
    <3>2. \A x \in j : x \in Nat /\ x + h >= h /\ (x + h) - h = x
      OBVIOUS
    <3>. QED  BY <3>1, <3>2 DEF Shift
  <2>3. Shift(j, h) \subseteq Nat
    BY DEF Shift
  <2>. HIDE DEF Shift, up
  <2>. QED  BY <2>1, <2>2, <2>3 DEF Spot
<1>. QED  BY <1>1, <1>2, <1>3, <1>4

\* ... and rows and columns can be told from them.
LEMMA SpotOneWay ==
    ASSUME NEW h \in Nat, NEW w \in Nat, NEW r \in LabelsOf(h), NEW c \in LabelsOf(w), NEW l,
           NEW r2 \in LabelsOf(h), NEW c2 \in LabelsOf(w), NEW l2,
           Spot(h, w, r, c, l) = Spot(h, w, r2, c2, l2)
    PROVE  r = r2 /\ c = c2
<1>1. \A b \in 0..h - 1 : b \in r <=> b \in r2
  <2>1. \A b \in 0..h - 1 : (b \in Spot(h, w, r, c, l) <=> b \in r) /\ (b \in Spot(h, w, r2, c2, l2) <=> b \in r2)
    BY DEF Spot
  <2>. QED  BY <2>1
<1>2. \A b \in 0..w - 1 : b \in c <=> b \in c2
  <2>1. \A b \in 0..w - 1 : /\ b + h \in Nat /\ ~(b + h < h) /\ b + h < h + w /\ (b + h) - h = b
    OBVIOUS
  <2>2. \A b \in 0..w - 1 : (b + h \in Spot(h, w, r, c, l) <=> b \in c)
                              /\ (b + h \in Spot(h, w, r2, c2, l2) <=> b \in c2)
    BY <2>1 DEF Spot
  <2>. QED  BY <2>2
<1>. QED  BY <1>1, <1>2 DEF LabelsOf

\* Only the first h bits of a row and the next w of a column count.
LEMMA SpotMasks ==
    ASSUME NEW h \in Nat, NEW w \in Nat, NEW r, NEW c, NEW l
    PROVE  Spot(h, w, r, c, l) = Spot(h, w, r, c \cap 0..w - 1, l)
<1>1. \A b \in Nat : b >= h /\ b < h + w => b - h \in 0..w - 1
  OBVIOUS
<1>. QED  BY <1>1 DEF Spot

\* The place a spot is in: its layer, and the point in it.
LEMMA SpotPlace ==
    ASSUME NEW h \in Nat, NEW w \in Nat, NEW r, NEW c, NEW l \in SUBSET Nat, NEW i,
           i = Spot(h, w, r, c, l)
    PROVE  /\ {b - (h + w) : b \in {x \in i : x >= h + w}} = l
           /\ i \cap 0..h + w - 1 = Spot(h, w, r, c, {})
<1>1. i \cap 0..h + w - 1 = Spot(h, w, r, c, {})
  BY DEF Spot
<1>2. ASSUME NEW b \in i, b >= h + w PROVE b - (h + w) \in l
  BY <1>2 DEF Spot
<1>3. ASSUME NEW x \in l PROVE x \in {b - (h + w) : b \in {y \in i : y >= h + w}}
  <2>1. x + (h + w) \in i /\ x + (h + w) >= h + w /\ (x + (h + w)) - (h + w) = x
    <3>1. /\ x + (h + w) \in Nat /\ ~(x + (h + w) < h) /\ ~(x + (h + w) < h + w)
          /\ (x + (h + w)) - (h + w) = x
      OBVIOUS
    <3>. QED  BY <3>1 DEF Spot
  <2>. QED  BY <2>1
<1>. QED  BY <1>1, <1>2, <1>3

-----------------------------------------------------------------------------
(* Both reductions start from the same definitions. *)
Common == inst \in Instances /\ k = inst.k /\ commonDef = commonDeffinitions

Routed_ == inst.permNext
Kept_   == Variables \ inst.permNext

\* The two lists of variables hold the variables in use through the permutation and the others.
LEMMA CommonLists ==
    ASSUME Common
    PROVE  /\ Lists1(variablesPerm, Routed_) /\ Lists1(commonDef.variablesNonPerm, Kept_)
           /\ Routed_ \subseteq Variables /\ Variables \subseteq Nat
           /\ Cardinality(Routed_) \in 0..inst.vectorsLen /\ Cardinality(Kept_) \in 0..inst.vectorsLen
           /\ inst.vectorsLen \in 1..2^20
           /\ hasRoutingNetwork <=> Routed_ # {}
<1>1. inst.vectorsLen \in Nat \ {0} /\ inst.permNext \subseteq 0..inst.vectorsLen - 1
  BY InstancesAssumption DEF Common
<1>2. IsFiniteSet(Variables) /\ Variables \subseteq Nat /\ Cardinality(Variables) = inst.vectorsLen
  <2>. DEFINE n == inst.vectorsLen
  <2>1. n \in Nat /\ n > 0 /\ 0 \in Int /\ n - 1 \in Int /\ ~(0 > n - 1) /\ (n - 1) - 0 + 1 = n
    BY <1>1
  <2>2. \A x \in 0..n - 1 : x \in Nat
    BY <2>1
  <2>. HIDE DEF n
  <2>3. IsFiniteSet(0..n - 1) /\ Cardinality(0..n - 1) = n
    BY <2>1, FS_Interval
  <2>. QED  BY <2>2, <2>3 DEF Variables, n
<1>3. Routed_ \subseteq Variables /\ Kept_ \subseteq Variables
  BY <1>1 DEF Variables, Routed_, Kept_
<1>4. /\ IsFiniteSet(Routed_) /\ Cardinality(Routed_) <= inst.vectorsLen
      /\ IsFiniteSet(Kept_) /\ Cardinality(Kept_) <= inst.vectorsLen
  BY <1>2, <1>3, FS_Subset
<1>5. Cardinality(Routed_) \in Nat /\ Cardinality(Kept_) \in Nat
  BY <1>4, FS_CardinalityType
<1>6. variablesPerm = InOrder(Routed_) /\ commonDef.variablesNonPerm = InOrder(Kept_)
  BY DEF Common, commonDeffinitions, variablesPerm, Routed_, Kept_
<1>7. Lists1(variablesPerm, Routed_) /\ Lists1(commonDef.variablesNonPerm, Kept_)
  BY <1>2, <1>3, <1>4, <1>6, OrderLists
<1>8. inst.vectorsLen \in 1..2^20
  BY <1>1, PlacesAssumption DEF Common
<1>9. variablesPerm # <<>> <=> Routed_ # {}
  <2>1. Routed_ # {} <=> Cardinality(Routed_) # 0
    BY <1>4, FS_EmptySet
  <2>2. variablesPerm \in Seq(Routed_) /\ Len(variablesPerm) = Cardinality(Routed_)
    BY <1>7 DEF Lists1
  <2>3. variablesPerm # <<>> <=> Len(variablesPerm) # 0
    BY <2>2
  <2>. QED  BY <2>1, <2>2, <2>3
<1>. QED  BY <1>1, <1>2, <1>3, <1>4, <1>5, <1>7, <1>8, <1>9 DEF hasRoutingNetwork

\* Where a variable is.
PlacedVar(q, S, n, v) == n \in 0..Cardinality(S) - 1 /\ q[n + 1] = v

\* A location is the variable's place in its list.
LEMMA Locations ==
    ASSUME Common, NEW v \in Variables
    PROVE  IF v \in Routed_
           THEN /\ getVarLocation(v).inPerm
                /\ PlacedVar(variablesPerm, Routed_, getVarLocation(v).index, v)
           ELSE /\ ~ getVarLocation(v).inPerm
                /\ PlacedVar(commonDef.variablesNonPerm, Kept_, getVarLocation(v).index, v)
<1>. DEFINE p == variablesPerm
            q == commonDef.variablesNonPerm
            IndexIn(s, u) == (CHOOSE i \in DOMAIN s : s[i] = u) - 1
<1>1. getVarLocation(v) = IF v \in Routed_ THEN [inPerm |-> TRUE, index |-> IndexIn(p, v)]
                          ELSE [inPerm |-> FALSE, index |-> IndexIn(q, v)]
  BY DEF Common, commonDeffinitions, getVarLocation, variablesPerm, Routed_
<1>2. ASSUME NEW s, NEW S, Lists1(s, S), NEW u \in S PROVE PlacedVar(s, S, IndexIn(s, u), u)
  <2>1. \E i \in DOMAIN s : s[i] = u
    BY <1>2 DEF Lists1
  <2>2. PICK i : i = CHOOSE j \in DOMAIN s : s[j] = u
    OBVIOUS
  <2>3. i \in DOMAIN s /\ s[i] = u
    BY <2>1, <2>2
  <2>4. i \in 1..Cardinality(S) /\ Cardinality(S) \in Nat
    BY <2>3, <1>2 DEF Lists1
  <2>5. i - 1 \in 0..Cardinality(S) - 1 /\ (i - 1) + 1 = i
    BY <2>4
  <2>. QED  BY <2>2, <2>3, <2>5 DEF PlacedVar
<1>3. Lists1(p, Routed_) /\ Lists1(q, Kept_)
  BY CommonLists
<1>4. v \in Routed_ \/ v \in Kept_
  BY DEF Routed_, Kept_
<1>5. v \in Routed_ => PlacedVar(p, Routed_, IndexIn(p, v), v)
  BY <1>2, <1>3
<1>6. v \in Kept_ => PlacedVar(q, Kept_, IndexIn(q, v), v)
  BY <1>2, <1>3
<1>. HIDE DEF p, q, IndexIn
<1>7. CASE v \in Routed_
  <2>1. getVarLocation(v).inPerm = TRUE /\ getVarLocation(v).index = IndexIn(p, v)
    BY <1>1, <1>7
  <2>. QED  BY <2>1, <1>5, <1>7 DEF p
<1>8. CASE v \notin Routed_
  <2>1. getVarLocation(v).inPerm = FALSE /\ getVarLocation(v).index = IndexIn(q, v)
    BY <1>1, <1>8
  <2>. QED  BY <2>1, <1>6, <1>4, <1>8 DEF q
<1>. QED  BY <1>7, <1>8

-----------------------------------------------------------------------------
(* The dimensions of the space. *)
Dimensions ==
    /\ height = k /\ k \in {2, 3, 4} /\ width \in {0, 2, 3} /\ imageWidth = 2^width /\ imageWidth \in 1..8
    /\ domainSize \in Nat /\ Bijects(domainSize, k, exponents)
    /\ domainSize = 2^k - 1 /\ domainSize \in {3, 7, 15}
    /\ rowsModulus \in SUBSET Nat /\ Max(rowsModulus) = k
    /\ amountOfPermutationLayers \in 0..2 * (1 + 2^20)
    /\ hasRoutingNetwork => /\ width \in {2, 3} /\ imageWidth - 1 = wingWidth /\ wingWidth \in {3, 7}
                            /\ Bijects(wingWidth, width, Placing(wingWidth, columnsModulus))
                            /\ Max(columnsModulus) = width /\ columnsModulus \in SUBSET Nat
                            /\ Len(variablesPerm) \in 1..2^20
                            /\ amountOfPermutationLayers = 2 * (1 + Len(variablesPerm))
    /\ ~ hasRoutingNetwork => amountOfPermutationLayers = 0 /\ width = 0

\* Rows, columns and layers have the sizes the places take them to have.
LEMMA Dimensioned == ASSUME Common PROVE Dimensions
<1>1. /\ 2^0 = 1 /\ 2^1 = 2 /\ 2^2 = 4 /\ 2^3 = 8 /\ 2^4 = 16
      /\ 2^2 - 1 = 3 /\ 2^3 - 1 = 7 /\ 2^4 - 1 = 15
  OBVIOUS
<1>2. inst.k \in {2, 3, 4} /\ k = inst.k
  BY InstancesAssumption DEF Common
<1>3. height = k /\ domainSize = 2^k - 1 /\ domainSize \in {3, 7, 15}
  BY <1>1, <1>2 DEF height, domainSize
<1>4. /\ Bijects(domainSize, k, exponents)
      /\ rowsModulus \in SUBSET Nat /\ Max(rowsModulus) = k
  <2>1. CASE inst.k = 2
    <3>1. domainSize = 3 /\ rowsModulus = {0, 1, 2}
      BY <1>1, <2>1 DEF domainSize, rowsModulus, findPrimitive, height
    <3>2. exponents = Placing(3, {0, 1, 2})
      BY <3>1 DEF exponents, Placing
    <3>. QED  BY <3>1, <3>2, <2>1, <1>2, Placing2, TopBits
  <2>2. CASE inst.k = 3
    <3>1. domainSize = 7 /\ rowsModulus = {0, 1, 3}
      BY <1>1, <2>2 DEF domainSize, rowsModulus, findPrimitive, height
    <3>2. exponents = Placing(7, {0, 1, 3})
      BY <3>1 DEF exponents, Placing
    <3>. QED  BY <3>1, <3>2, <2>2, <1>2, Placing3, TopBits
  <2>3. CASE inst.k = 4
    <3>1. domainSize = 15 /\ rowsModulus = {0, 1, 4}
      BY <1>1, <2>3 DEF domainSize, rowsModulus, findPrimitive, height
    <3>2. exponents = Placing(15, {0, 1, 4})
      BY <3>1 DEF exponents, Placing
    <3>. QED  BY <3>1, <3>2, <2>3, <1>2, Placing4, TopBits
  <2>. QED  BY <2>1, <2>2, <2>3, <1>2
<1>5. hasRoutingNetwork => width \in {2, 3} /\ width = CeilLog2(k + 2)
  <2>. SUFFICES ASSUME hasRoutingNetwork PROVE width \in {2, 3} /\ width = CeilLog2(k + 2)
    OBVIOUS
  <2>1. width = CeilLog2(k + 2)
    BY <1>2 DEF width
  <2>2. CASE k = 2
    <3>1. k + 2 \in Nat /\ 2 \in 1..(k + 2) /\ 2^2 >= k + 2 /\ 2^1 < k + 2 /\ 1 \in Nat /\ 1 = 2 - 1
      BY <1>1, <2>2
    <3>2. CeilLog2(k + 2) = 2
      BY <3>1, CeilLog2Is
    <3>. QED  BY <2>1, <3>2
  <2>3. CASE k \in {3, 4}
    <3>1. k + 2 \in Nat /\ 3 \in 1..(k + 2) /\ 2^3 >= k + 2 /\ 2^2 < k + 2 /\ 2 \in Nat /\ 2 = 3 - 1
      BY <1>1, <2>3
    <3>2. CeilLog2(k + 2) = 3
      BY <3>1, CeilLog2Is
    <3>. QED  BY <2>1, <3>2
  <2>. QED  BY <1>2, <2>2, <2>3
<1>6. ~ hasRoutingNetwork => width = 0 /\ amountOfPermutationLayers = 0
  BY DEF width, amountOfPermutationLayers
<1>7. width \in {0, 2, 3} /\ imageWidth = 2^width /\ imageWidth \in 1..8
  <2>1. width \in {0, 2, 3}
    BY <1>5, <1>6
  <2>2. CASE width = 0
    BY <1>1, <2>2 DEF imageWidth
  <2>3. CASE width = 2
    BY <1>1, <2>3 DEF imageWidth
  <2>4. CASE width = 3
    BY <1>1, <2>4 DEF imageWidth
  <2>. QED  BY <2>1, <2>2, <2>3, <2>4
<1>8. ASSUME hasRoutingNetwork
      PROVE  /\ width \in {2, 3} /\ imageWidth - 1 = wingWidth /\ wingWidth \in {3, 7}
             /\ Bijects(wingWidth, width, Placing(wingWidth, columnsModulus))
             /\ Max(columnsModulus) = width /\ columnsModulus \in SUBSET Nat
  <2>1. wingWidth = 2^width - 1 /\ imageWidth - 1 = wingWidth
    BY <1>5, <1>8 DEF wingWidth, imageWidth
  <2>2. CASE width = 2
    <3>1. wingWidth = 3 /\ columnsModulus = {0, 1, 2}
      BY <1>1, <2>1, <2>2 DEF columnsModulus, findPrimitive
    <3>. QED  BY <2>1, <2>2, <3>1, Placing2, TopBits
  <2>3. CASE width = 3
    <3>1. wingWidth = 7 /\ columnsModulus = {0, 1, 3}
      BY <1>1, <2>1, <2>3 DEF columnsModulus, findPrimitive
    <3>. QED  BY <2>1, <2>3, <3>1, Placing3, TopBits
  <2>. QED  BY <1>5, <1>8, <2>2, <2>3
<1>9. ASSUME hasRoutingNetwork
      PROVE  /\ Len(variablesPerm) \in 1..2^20
             /\ amountOfPermutationLayers = 2 * (1 + Len(variablesPerm))
  <2>1. Len(variablesPerm) = Cardinality(Routed_) /\ variablesPerm \in Seq(Routed_)
    BY CommonLists DEF Lists1
  <2>2. Len(variablesPerm) \in 0..inst.vectorsLen /\ inst.vectorsLen \in 1..2^20
    BY <2>1, CommonLists
  <2>3. Len(variablesPerm) # 0
    BY <1>9, <2>1 DEF hasRoutingNetwork
  <2>. QED  BY <1>9, <2>2, <2>3 DEF amountOfPermutationLayers
<1>10. amountOfPermutationLayers \in 0..2 * (1 + 2^20)
  <2>1. 2^20 \in Nat
    BY PowerPositive, 20 \in Nat
  <2>. QED  BY <2>1, <1>6, <1>9
<1>. QED  BY <1>2, <1>3, <1>4, <1>5, <1>6, <1>7, <1>8, <1>9, <1>10 DEF Dimensions

-----------------------------------------------------------------------------
(* Places as spots. *)
At(r, c, l) == Spot(height, width, r, c, l)
PointAt(r, c) == At(r, c, {})

\* The index of an element outside the network, its column and its layer.
Number(id)  == imageWidth * amountOfPermutationLayers + id
ColumnOf(id) == Bits(Number(id)) \cap 0..width - 1
LayerOf(id)  == Bits(Number(id) \div 2^width)

\* Elements outside the network come after its layers, and fit.
LEMMA Numbers ==
    ASSUME Common, NEW id \in 0..inst.vectorsLen + 1
    PROVE  /\ Number(id) \in Words31
           /\ Number(id) \div 2^width \in Words31
           /\ Number(id) \div 2^width >= amountOfPermutationLayers
<1>1. /\ 2^20 \in Nat /\ 2^20 <= 1048576 /\ 2^31 \in Nat /\ 2^31 >= 2147483648
  OBVIOUS
<1>2. /\ imageWidth \in 1..8 /\ amountOfPermutationLayers \in 0..2 * (1 + 2^20)
      /\ width \in Nat /\ imageWidth = 2^width
  BY Dimensioned DEF Dimensions
<1>3. id \in Nat /\ id <= 1048577
  BY <1>1, CommonLists
<1>4. \A a, l \in Nat : a <= 8 /\ l <= 2097154 => a * l \in Nat /\ a * l <= 16777232
  <2>. SUFFICES ASSUME NEW a \in Nat, NEW l \in Nat, a <= 8, l <= 2097154
                PROVE  a * l \in Nat /\ a * l <= 16777232
    OBVIOUS
  <2>1. \A d, x, y \in Nat : x <= y => d * x <= d * y
    OBVIOUS
  <2>2. a * l <= a * 2097154
    BY <2>1
  <2>. QED  BY <2>2
<1>5. Number(id) \in Words31
  BY <1>1, <1>2, <1>3, <1>4 DEF Number, Words31
<1>6. Number(id) \div 2^width = amountOfPermutationLayers + (id \div 2^width) /\ id \div 2^width \in Nat
  <2>1. 2^width \in Nat /\ 2^width > 0
    BY <1>2, PowerPositive
  <2>2. amountOfPermutationLayers \in Nat
    BY <1>1, <1>2
  <2>. QED  BY <1>2, <1>3, <2>1, <2>2, QuotientOfSum, Quotient DEF Number
<1>7. amountOfPermutationLayers \in Nat
  BY <1>1, <1>2
<1>. QED  BY <1>5, <1>6, <1>7, <1>2, HighBits

\* The part of the dimensions most steps need.
LEMMA Sizes ==
    ASSUME Common
    PROVE  /\ height = k /\ height \in Nat /\ width \in Nat
           /\ hasRoutingNetwork => /\ wingWidth \in Nat /\ wingWidth > 2
                                   /\ Bijects(wingWidth, width, Placing(wingWidth, columnsModulus))
<1>1. Dimensions
  BY Dimensioned
<1>2. height = k /\ k \in {2, 3, 4} /\ width \in {0, 2, 3}
  BY <1>1 DEF Dimensions
<1>3. hasRoutingNetwork => wingWidth \in {3, 7} /\ Bijects(wingWidth, width, Placing(wingWidth, columnsModulus))
  BY <1>1 DEF Dimensions
<1>. QED  BY <1>2, <1>3

\* Layers of the network fit as well.
LEMMA NetworkLayers ==
    ASSUME Common, NEW l \in 0..amountOfPermutationLayers
    PROVE  l \in Words31 /\ Bits(l) \in SUBSET Nat
<1>1. 2^20 \in Nat /\ 2^20 <= 1048576 /\ 2^31 \in Nat /\ 2^31 >= 2147483648
  OBVIOUS
<1>2. amountOfPermutationLayers \in 0..2 * (1 + 2^20)
  BY Dimensioned DEF Dimensions
<1>. QED  BY <1>1, <1>2 DEF Words31, Bits

\* Elements outside the network: where, and each at a place of its own, in a layer
\* that is not the network's.
LEMMA OutsideSpots ==
    ASSUME Common, NEW id \in 0..inst.vectorsLen + 1
    PROVE  /\ mapNonPermutationElement(id) = At({}, ColumnOf(id), LayerOf(id))
           /\ ColumnOf(id) \in LabelsOf(width) /\ LayerOf(id) \in SUBSET Nat
           /\ \A l \in 0..amountOfPermutationLayers - 1 : LayerOf(id) # Bits(l)
<1>. DEFINE j == Number(id)
<1>1. j \in Words31 /\ j \div 2^width \in Words31 /\ j \div 2^width >= amountOfPermutationLayers
  BY Numbers
<1>2. height \in Nat /\ width \in Nat
  BY Sizes
<1>3. Bits(j) \in SUBSET Nat /\ LayerOf(id) \in SUBSET Nat
  BY DEF Bits, LayerOf
<1>4. LayerOf(id) = {b - width : b \in {x \in Bits(j) : x >= width}}
  BY <1>1, <1>2, HighBits DEF LayerOf
<1>5. mapNonPermutationElement(id) = Shift(Bits(j), height)
  BY DEF mapNonPermutationElement, Number
<1>6. Shift(Bits(j), height) = Spot(height, width, {}, Bits(j), LayerOf(id))
  <2>. HIDE DEF j
  <2>. QED  BY <1>2, <1>3, <1>4, SpotParts
<1>7. Spot(height, width, {}, Bits(j), LayerOf(id)) = At({}, ColumnOf(id), LayerOf(id))
  BY <1>2, SpotMasks DEF At, ColumnOf
<1>8. ASSUME NEW l \in 0..amountOfPermutationLayers - 1 PROVE LayerOf(id) # Bits(l)
  <2>1. l \in Words31
    BY NetworkLayers, Dimensioned DEF Dimensions
  <2>2. l # j \div 2^width
    <3>1. amountOfPermutationLayers \in Int
      BY Dimensioned, 2^20 \in Nat DEF Dimensions
    <3>2. j \div 2^width \in Int
      BY <1>1, 2^31 \in Int DEF Words31
    <3>. HIDE DEF j
    <3>. QED  BY <1>1, <3>1, <3>2
  <2>. QED  BY <1>1, <2>1, <2>2, BitsOneWay DEF LayerOf
<1>9. ColumnOf(id) \in LabelsOf(width)
  BY DEF ColumnOf, LabelsOf
<1>. QED  BY <1>3, <1>5, <1>6, <1>7, <1>8, <1>9

\* Column and layer tell which element outside the network it is.
LEMMA OutsideOneWay ==
    ASSUME Common, NEW i \in 0..inst.vectorsLen + 1, NEW j \in 0..inst.vectorsLen + 1,
           ColumnOf(i) = ColumnOf(j), LayerOf(i) = LayerOf(j)
    PROVE  i = j
<1>1. Number(i) \in Words31 /\ Number(j) \in Words31
  BY Numbers
<1>2. width \in Nat /\ imageWidth \in 1..8 /\ amountOfPermutationLayers \in 0..2 * (1 + 2^20)
  BY Dimensioned DEF Dimensions
<1>3. /\ LayerOf(i) = {b - width : b \in {x \in Bits(Number(i)) : x >= width}}
      /\ LayerOf(j) = {b - width : b \in {x \in Bits(Number(j)) : x >= width}}
  BY <1>1, <1>2, HighBits DEF LayerOf
<1>4. ASSUME NEW m \in {i, j}, NEW b \in Nat
      PROVE  b \in Bits(Number(m)) <=> IF b < width THEN b \in ColumnOf(m) ELSE b - width \in LayerOf(m)
  <2>1. CASE b < width
    <3>1. b \in 0..width - 1
      BY <1>2, <2>1
    <3>. QED  BY <2>1, <3>1 DEF ColumnOf
  <2>2. CASE ~(b < width)
    <3>1. b >= width
      BY <1>2, <2>2
    <3>2. \A x \in Bits(Number(m)) : x - width = b - width => x = b
      BY <1>2 DEF Bits
    <3>. QED  BY <1>3, <2>2, <3>1, <3>2
  <2>. QED  BY <2>1, <2>2
<1>5. \A b \in Nat : b \in Bits(Number(i)) <=> b \in Bits(Number(j))
  BY <1>4
<1>6. Bits(Number(i)) = Bits(Number(j))
  <2>1. Bits(Number(i)) \subseteq Nat /\ Bits(Number(j)) \subseteq Nat
    BY DEF Bits
  <2>. QED  BY <1>5, <2>1
<1>7. Number(i) = Number(j)
  BY <1>1, <1>6, BitsOneWay
<1>. QED
  <2>1. inst.vectorsLen \in Nat
    BY CommonLists, 2^20 \in Nat
  <2>2. imageWidth * amountOfPermutationLayers \in Nat
    <3>1. amountOfPermutationLayers \in Nat /\ imageWidth \in Nat
      BY <1>2, 2^20 \in Nat
    <3>. QED  BY <3>1
  <2>3. i \in Nat /\ j \in Nat
    BY <2>1
  <2>. QED  BY <1>7, <2>2, <2>3 DEF Number

\* Elements of the network.
LEMMA NetworkSpots ==
    ASSUME Common, hasRoutingNetwork, NEW column \in 0..wingWidth - 1, NEW l \in 0..amountOfPermutationLayers - 1
    PROVE  /\ PowerOfX(column, columnsModulus) \in LabelsOf(width)
           /\ mapPermutationColumnId(column) = At({}, PowerOfX(column, columnsModulus), {})
           /\ mapPermutationLayerId(l) = At({}, {}, Bits(l))
           /\ mapPermutationElement(column, l) = At({}, PowerOfX(column, columnsModulus), Bits(l))
<1>. DEFINE c == PowerOfX(column, columnsModulus)
<1>1. /\ height \in Nat /\ width \in Nat /\ wingWidth \in Nat
      /\ Bijects(wingWidth, width, Placing(wingWidth, columnsModulus))
  BY Sizes
<1>2. Placing(wingWidth, columnsModulus)[column] = c /\ column \in 0..wingWidth
  BY <1>1 DEF Placing
<1>3. c \in LabelsOf(width)
  <2>. HIDE DEF c
  <2>. QED  BY <1>1, <1>2 DEF Bijects
<1>4. Bits(l) \in SUBSET Nat
  BY DEF Bits
<1>. HIDE DEF c
<1>5. Spot(height, width, {}, c, {}) = Shift(c, height)
  BY <1>1, <1>3, SpotParts
<1>6. Spot(height, width, {}, {}, Bits(l)) = Shift(Bits(l), height + width)
  BY <1>1, <1>4, SpotParts
<1>7. \A x : Plus({}, x) = x /\ Plus(x, {}) = x
  BY DEF Plus, SymDiff
<1>8. Plus(At({}, c, {}), At({}, {}, Bits(l))) = At({}, c, Bits(l))
  BY <1>1, <1>7, SpotPlus DEF At
<1>. QED  BY <1>3, <1>5, <1>6, <1>8 DEF mapPermutationColumnId, mapPermutationLayerId, mapPermutationElement, At, c

\* What a place is read as.
LEMMA PlaceOfSpot ==
    ASSUME Common, NEW r, NEW c, NEW l \in SUBSET Nat
    PROVE  map_spaceIndex_to_witnessElement(At(r, c, l)) = [layer |-> l, point |-> PointAt(r, c)]
<1>1. height \in Nat /\ width \in Nat
  BY Sizes
<1>2. \A i : i = Spot(height, width, r, c, l) =>
         /\ {b - (height + width) : b \in {x \in i : x >= height + width}} = l
         /\ i \cap 0..height + width - 1 = Spot(height, width, r, c, {})
  BY <1>1, SpotPlace
<1>. QED  BY <1>2 DEF map_spaceIndex_to_witnessElement, At, PointAt

\* A row of the graph.
LEMMA RowSpots ==
    ASSUME Common
    PROVE  /\ \A r \in LabelsOf(k) : At(r, {}, {}) = r
           /\ \A r, c, l, r2, c2, l2 : Plus(At(r, c, l), At(r2, c2, l2)) = At(Plus(r, r2), Plus(c, c2), Plus(l, l2))
           /\ \A r, r2 \in LabelsOf(k), c, c2 \in LabelsOf(width) : \A l, l2 :
                 At(r, c, l) = At(r2, c2, l2) => r = r2 /\ c = c2
           /\ \A x : Plus({}, x) = x /\ Plus(x, {}) = x /\ Plus(x, x) = {}
           /\ \A x, y : Plus(x, y) = Plus(y, x) /\ Plus(x, Plus(x, y)) = y
<1>1. height = k /\ height \in Nat /\ width \in Nat
  BY Sizes
<1>2. \A r \in LabelsOf(k) : At(r, {}, {}) = r
  BY <1>1, SpotParts DEF At
<1>3. \A r, c, l, r2, c2, l2 : Plus(At(r, c, l), At(r2, c2, l2)) = At(Plus(r, r2), Plus(c, c2), Plus(l, l2))
  BY <1>1, SpotPlus DEF At
<1>4. \A r, r2 \in LabelsOf(k), c, c2 \in LabelsOf(width) : \A l, l2 :
         At(r, c, l) = At(r2, c2, l2) => r = r2 /\ c = c2
  BY <1>1, SpotOneWay DEF At
<1>5. /\ \A x : Plus({}, x) = x /\ Plus(x, {}) = x /\ Plus(x, x) = {}
      /\ \A x, y : Plus(x, y) = Plus(y, x) /\ Plus(x, Plus(x, y)) = y
  BY DEF Plus, SymDiff
<1>. QED  BY <1>2, <1>3, <1>4, <1>5

-----------------------------------------------------------------------------
(* What writes leave behind. *)
OneValue(W) == \A x, y \in W : x.layer = y.layer /\ x.point = y.point => x.value = y.value
Holding(M, l, p, v) == l \in DOMAIN M /\ p \in DOMAIN M[l] /\ M[l][p] = v
NoneIn(W, l) == \A x \in W : x.layer # l

\* What was written last is there, if no two writes of a place disagree, ...
LEMMA WrittenReads ==
    ASSUME NEW W, OneValue(W), NEW B, NEW u \in W, u.layer \notin DOMAIN B
    PROVE  Holding(Written(W, B), u.layer, u.point, u.value)
<1>. DEFINE layers == {x.layer : x \in W}
            l == u.layer
            here == {x \in W : x.layer = l}
            L == [p \in {x.point : x \in here} |-> (CHOOSE x \in here : x.point = p).value]
<1>1. l \in layers /\ u \in here
  OBVIOUS
<1>2. l \in DOMAIN Written(W, B) /\ Written(W, B)[l] = L
  BY <1>1 DEF Written
<1>3. u.point \in DOMAIN L /\ L[u.point] = (CHOOSE x \in here : x.point = u.point).value
  BY <1>1
<1>4. (CHOOSE x \in here : x.point = u.point).value = u.value
  <2>1. PICK y : y = CHOOSE x \in here : x.point = u.point
    OBVIOUS
  <2>2. y \in here /\ y.point = u.point
    BY <1>1, <2>1
  <2>. QED  BY <2>1, <2>2 DEF OneValue
<1>. HIDE DEF L, here, layers
<1>. QED  BY <1>2, <1>3, <1>4 DEF Holding, l

\* ... layers no one writes to stay as they are, ...
LEMMA WrittenKeeps ==
    ASSUME NEW W, NEW B, NEW l \in DOMAIN B, NoneIn(W, l)
    PROVE  l \in DOMAIN Written(W, B) /\ Written(W, B)[l] = B[l]
<1>1. l \notin {x.layer : x \in W}
  BY DEF NoneIn
<1>. QED  BY <1>1 DEF Written

\* ... and no others come to be.
LEMMA WrittenDomain ==
    ASSUME NEW W, NEW B, NEW l, l \notin DOMAIN B, NoneIn(W, l)
    PROVE  l \notin DOMAIN Written(W, B)
BY DEF Written, NoneIn

\* The parts of a write.
LEMMA WriteParts ==
    ASSUME NEW p, NEW v
    PROVE  /\ Write(p, v).layer = p.layer /\ Write(p, v).point = p.point /\ Write(p, v).value = v
BY DEF Write

-----------------------------------------------------------------------------
(* The places of the witness reduction. *)
KeptIndex(v) == getVarLocation(v).index

\* Variables that are not routed have indexes of their own.
LEMMA KeptIndexes ==
    ASSUME Common
    PROVE  /\ \A v \in Kept_ : KeptIndex(v) \in 0..inst.vectorsLen + 1
           /\ \A u, v \in Kept_ : KeptIndex(u) = KeptIndex(v) => u = v
<1>. DEFINE q == commonDef.variablesNonPerm
<1>1. \A v \in Kept_ : PlacedVar(q, Kept_, KeptIndex(v), v)
  BY Locations DEF Kept_, Routed_, KeptIndex
<1>2. \A u, v \in Kept_ : KeptIndex(u) = KeptIndex(v) => u = v
  BY <1>1 DEF PlacedVar
<1>3. Cardinality(Kept_) \in 0..inst.vectorsLen /\ inst.vectorsLen \in Nat
  BY CommonLists, 2^20 \in Nat
<1>. HIDE DEF q
<1>4. \A v \in Kept_ : KeptIndex(v) \in 0..inst.vectorsLen + 1
  BY <1>1, <1>3 DEF PlacedVar
<1>. QED  BY <1>2, <1>4

\* Rows and labels are one to one, the extra row at zero.
LEMMA RowPlaces ==
    ASSUME Common
    PROVE  /\ VectorIds = 0..domainSize - 1 /\ domainSize \in Nat
           /\ \A n \in VectorIds : exponents[n] = PowerOfX(n, rowsModulus) /\ exponents[n] \in LabelsOf(k)
           /\ exponents[domainSize] = {}
           /\ \A m, n \in 0..domainSize : exponents[m] = exponents[n] => m = n
           /\ \A w \in LabelsOf(k) : logarithm(w) \in 0..domainSize /\ exponents[logarithm(w)] = w
           /\ \A n \in 0..domainSize : logarithm(exponents[n]) = n
<1>1. domainSize \in Nat /\ Bijects(domainSize, k, exponents)
  BY Dimensioned DEF Dimensions
<1>2. VectorIds = 0..domainSize - 1
  BY DEF VectorIds
<1>3. \A n \in VectorIds : exponents[n] = PowerOfX(n, rowsModulus) /\ exponents[n] \in LabelsOf(k)
  <2>1. \A n \in VectorIds : n \in 0..domainSize /\ n # domainSize
    BY <1>1, <1>2
  <2>2. \A n \in VectorIds : exponents[n] = PowerOfX(n, rowsModulus)
    BY <2>1 DEF exponents
  <2>. QED  BY <1>1, <2>1, <2>2 DEF Bijects
<1>4. exponents[domainSize] = {}
  BY <1>1 DEF exponents
<1>5. \A m, n \in 0..domainSize : exponents[m] = exponents[n] => m = n
  BY <1>1 DEF Bijects
<1>6. \A w \in LabelsOf(k) : logarithm(w) \in 0..domainSize /\ exponents[logarithm(w)] = w
  BY <1>1 DEF Bijects, logarithm
<1>7. \A n \in 0..domainSize : exponents[n] \in LabelsOf(k)
  BY <1>1 DEF Bijects
<1>8. \A n \in 0..domainSize : logarithm(exponents[n]) = n
  BY <1>5, <1>6, <1>7
<1>. QED  BY <1>1, <1>2, <1>3, <1>4, <1>5, <1>6, <1>8

\* Where an element outside the network is in a row, ...
LEMMA OutsidePlace ==
    ASSUME Common, NEW r \in LabelsOf(k), NEW id \in 0..inst.vectorsLen + 1
    PROVE  map_spaceIndex_to_witnessElement(Plus(r, mapNonPermutationElement(id)))
             = [layer |-> LayerOf(id), point |-> PointAt(r, ColumnOf(id))]
<1>1. mapNonPermutationElement(id) = At({}, ColumnOf(id), LayerOf(id)) /\ LayerOf(id) \in SUBSET Nat
  BY OutsideSpots
<1>2. Plus(r, mapNonPermutationElement(id)) = At(r, ColumnOf(id), LayerOf(id))
  <2>1. Plus(At(r, {}, {}), At({}, ColumnOf(id), LayerOf(id)))
          = At(Plus(r, {}), Plus({}, ColumnOf(id)), Plus({}, LayerOf(id)))
    BY RowSpots
  <2>. QED  BY <1>1, <2>1, RowSpots
<1>. QED  BY <1>1, <1>2, PlaceOfSpot

\* ... where a node of the network is, ...
LEMMA NetworkPlace ==
    ASSUME Common, hasRoutingNetwork, NEW w \in LabelsOf(k), NEW column \in 0..wingWidth - 1,
           NEW l \in 0..amountOfPermutationLayers - 1
    PROVE  mapNetworkElement(w, column, l)
             = [layer |-> Bits(l), point |-> PointAt(w, PowerOfX(column, columnsModulus))]
<1>. DEFINE c == PowerOfX(column, columnsModulus)
<1>1. mapPermutationElement(column, l) = At({}, c, Bits(l)) /\ Bits(l) \in SUBSET Nat
  BY NetworkSpots DEF Bits
<1>. HIDE DEF c
<1>2. Plus(w, mapPermutationElement(column, l)) = At(w, c, Bits(l))
  <2>1. Plus(At(w, {}, {}), At({}, c, Bits(l))) = At(Plus(w, {}), Plus({}, c), Plus({}, Bits(l)))
    BY RowSpots
  <2>. QED  BY <1>1, <2>1, RowSpots
<1>. QED  BY <1>1, <1>2, PlaceOfSpot DEF mapNetworkElement, c

\* ... and points tell rows and columns apart.
LEMMA PointsOneWay ==
    ASSUME Common, NEW r \in LabelsOf(k), NEW r2 \in LabelsOf(k), NEW c \in LabelsOf(width), NEW c2 \in LabelsOf(width),
           PointAt(r, c) = PointAt(r2, c2)
    PROVE  r = r2 /\ c = c2
BY RowSpots DEF PointAt

\* Columns of the network.
LEMMA ColumnsOneWay ==
    ASSUME Common, hasRoutingNetwork
    PROVE  /\ \A i, j \in 0..wingWidth - 1 :
                 PowerOfX(i, columnsModulus) = PowerOfX(j, columnsModulus) => i = j
           /\ \A i \in 0..wingWidth - 1 : /\ PowerOfX(i, columnsModulus) \in LabelsOf(width)
                                          /\ PowerOfX(i, columnsModulus) # {}
           /\ \A c \in LabelsOf(width) : c # {} => \E i \in 0..wingWidth - 1 : c = PowerOfX(i, columnsModulus)
<1>. DEFINE E == Placing(wingWidth, columnsModulus)
<1>1. wingWidth \in Nat /\ Bijects(wingWidth, width, E)
  BY Sizes
<1>2. \A i \in 0..wingWidth - 1 : i \in 0..wingWidth /\ i # wingWidth /\ E[i] = PowerOfX(i, columnsModulus)
  BY <1>1 DEF Placing
<1>3. wingWidth \in 0..wingWidth /\ E[wingWidth] = {}
  BY <1>1 DEF Placing
<1>4. \A i \in 0..wingWidth : i = wingWidth \/ i \in 0..wingWidth - 1
  BY <1>1
<1>. HIDE DEF E
<1>5. \A i, j \in 0..wingWidth - 1 : PowerOfX(i, columnsModulus) = PowerOfX(j, columnsModulus) => i = j
  BY <1>1, <1>2 DEF Bijects
<1>6. \A i \in 0..wingWidth - 1 : E[i] \in LabelsOf(width) /\ E[i] # {}
  BY <1>1, <1>2, <1>3 DEF Bijects
<1>7. ASSUME NEW c \in LabelsOf(width), c # {} PROVE \E i \in 0..wingWidth - 1 : c = PowerOfX(i, columnsModulus)
  <2>1. PICK i \in 0..wingWidth : E[i] = c
    BY <1>1 DEF Bijects
  <2>2. i \in 0..wingWidth - 1
    BY <2>1, <1>3, <1>4, <1>7
  <2>. QED  BY <2>1, <2>2, <1>2
<1>. QED  BY <1>2, <1>5, <1>6, <1>7

\* What mapChi writes depends on the instance alone.
LEMMA ChiSame ==
    ASSUME UNCHANGED <<inst, commonDef, k>>
    PROVE  /\ ChiWrites' = ChiWrites /\ hasRoutingNetwork' = hasRoutingNetwork
<1>1. inst' = inst /\ commonDef' = commonDef /\ k' = k
  OBVIOUS
<1>2. hasRoutingNetwork' = hasRoutingNetwork
  BY <1>1 DEF hasRoutingNetwork, variablesPerm
<1>3. height' = height /\ width' = width /\ Variables' = Variables /\ VectorIds' = VectorIds /\ domainSize' = domainSize
  BY <1>1, <1>2 DEF height, width, Variables, VectorIds, domainSize
<1>4. variablesPerm' = variablesPerm /\ rowsModulus' = rowsModulus /\ columnsModulus' = columnsModulus
  BY <1>1, <1>3 DEF rowsModulus, variablesPerm, columnsModulus
<1>5. amountOfPermutationLayers' = amountOfPermutationLayers /\ imageWidth' = imageWidth
  BY <1>1, <1>2, <1>3, <1>4 DEF amountOfPermutationLayers, imageWidth
<1>6. \A v : getVarLocation(v)' = getVarLocation(v)
  BY <1>1 DEF getVarLocation
<1>7. \A id : mapNonPermutationElement(id)' = mapNonPermutationElement(id)
  BY <1>3, <1>5 DEF mapNonPermutationElement
<1>8. \A i : map_spaceIndex_to_witnessElement(i)' = map_spaceIndex_to_witnessElement(i)
  BY <1>3 DEF map_spaceIndex_to_witnessElement
<1>9. ChiWrites' = ChiWrites
  BY <1>1, <1>3, <1>4, <1>5 DEF ChiWrites, Write, map_spaceIndex_to_witnessElement, mapNonPermutationElement, getVarLocation
<1>. QED  BY <1>2, <1>9

DataWrites ==
    {Write(mapNetworkElement(w, column, 2 * (i - 1) + wing),
           PacketValue(getDataID(wing, column, w), variablesPerm[i])) :
        w \in Labels, column \in 0..wingWidth - 1, wing \in {0, 1},
        i \in DOMAIN variablesPerm}
BitWrites ==
    {Write(mapNetworkElement(w, column, 2 * Len(variablesPerm) + wing),
           <<"bit", routingBit(wing, column, w)>>) :
        w \in Labels, column \in 0..wingWidth - 2, wing \in {0, 1}}

\* mapNetwork writes packets and routing bits.
LEMMA NetworkParts == NetworkWrites = DataWrites \cup BitWrites
BY DEF NetworkWrites, DataWrites, BitWrites

\* What mapNetwork writes depends on the instance and the network.
LEMMA NetSame ==
    ASSUME UNCHANGED <<inst, commonDef, k, permutation, benesVars>>
    PROVE  NetworkWrites' = NetworkWrites
<1>1. /\ inst' = inst /\ commonDef' = commonDef /\ k' = k /\ rev' = rev /\ btr' = btr
  BY DEF benesVars
<1>2. hasRoutingNetwork' = hasRoutingNetwork
  BY <1>1 DEF hasRoutingNetwork, variablesPerm
<1>3. height' = height /\ width' = width /\ domainSize' = domainSize
  BY <1>1, <1>2 DEF height, width, domainSize
<1>4. variablesPerm' = variablesPerm /\ rowsModulus' = rowsModulus /\ columnsModulus' = columnsModulus
  BY <1>1, <1>3 DEF rowsModulus, variablesPerm, columnsModulus
<1>5. exponents' = exponents /\ Labels' = Labels /\ wingWidth' = wingWidth /\ longWidth' = longWidth
  BY <1>1, <1>3, <1>4 DEF exponents, Labels, wingWidth, longWidth
<1>6. DataWrites' = DataWrites
  BY <1>1, <1>3, <1>4, <1>5 DEF Write, mapNetworkElement, map_spaceIndex_to_witnessElement, mapPermutationElement,
     mapPermutationColumnId, mapPermutationLayerId, DataWrites, PacketValue, logarithm, getDataID, longData, symmetricData,
     benesData, btrflyToDebruijn
<1>7. BitWrites' = BitWrites
  BY <1>1, <1>3, <1>4, <1>5 DEF Write, mapNetworkElement, map_spaceIndex_to_witnessElement, mapPermutationElement,
     mapPermutationColumnId, mapPermutationLayerId, BitWrites, routingBit, Neighbor1, getDataID, longData, symmetricData,
     benesData, btrflyToDebruijn
<1>8. (NetworkWrites = DataWrites \cup BitWrites)'
  BY NetworkParts, PTL
<1>. QED  BY <1>6, <1>7, <1>8, NetworkParts

-----------------------------------------------------------------------------
(* What the witness reduction writes. *)
ChiCell(n, v) == [layer |-> LayerOf(KeptIndex(v)), point |-> PointAt(exponents[n], ColumnOf(KeptIndex(v))),
                  value |-> <<"color", n, v>>]
NetCell(l, w, column, value) ==
    [layer |-> Bits(l), point |-> PointAt(w, PowerOfX(column, columnsModulus)), value |-> value]
DataCell(w, column, wing, i) ==
    NetCell(2 * (i - 1) + wing, w, column, PacketValue(getDataID(wing, column, w), variablesPerm[i]))
BitCell(w, column, wing) ==
    NetCell(2 * Len(variablesPerm) + wing, w, column, <<"bit", routingBit(wing, column, w)>>)

\* Packets of different variables and wings, and routing bits, are on layers of their own.
LEMMA NetworkLayer ==
    ASSUME Common, hasRoutingNetwork
    PROVE  /\ DOMAIN variablesPerm = 1..Len(variablesPerm) /\ Len(variablesPerm) \in Nat
           /\ amountOfPermutationLayers = 2 * (1 + Len(variablesPerm))
           /\ \A i \in DOMAIN variablesPerm, wing \in {0, 1} :
                 /\ 2 * (i - 1) + wing \in 0..amountOfPermutationLayers - 1
                 /\ 2 * (i - 1) + wing < 2 * Len(variablesPerm)
           /\ \A wing \in {0, 1} : 2 * Len(variablesPerm) + wing \in 0..amountOfPermutationLayers - 1
           /\ \A i, j \in DOMAIN variablesPerm, a, b \in {0, 1} :
                 2 * (i - 1) + a = 2 * (j - 1) + b => i = j /\ a = b
           /\ \A i, j \in 0..amountOfPermutationLayers - 1 : Bits(i) = Bits(j) => i = j
<1>1. /\ DOMAIN variablesPerm = 1..Cardinality(Routed_) /\ Len(variablesPerm) = Cardinality(Routed_)
      /\ Cardinality(Routed_) \in Nat
  BY CommonLists DEF Lists1
<1>2. amountOfPermutationLayers = 2 * (1 + Len(variablesPerm))
  BY DEF amountOfPermutationLayers
<1>3. \A i, j \in 0..amountOfPermutationLayers - 1 : Bits(i) = Bits(j) => i = j
  <2>1. \A i \in 0..amountOfPermutationLayers - 1 : i \in 0..amountOfPermutationLayers
    BY <1>1, <1>2
  <2>. QED  BY <2>1, NetworkLayers, BitsOneWay
<1>. DEFINE n == Len(variablesPerm)
<1>4. n \in Nat /\ DOMAIN variablesPerm = 1..n /\ amountOfPermutationLayers = 2 * (1 + n)
  BY <1>1, <1>2
<1>. HIDE DEF n
<1>5. \A i \in 1..n, wing \in {0, 1} : 2 * (i - 1) + wing \in 0..2 * (1 + n) - 1 /\ 2 * (i - 1) + wing < 2 * n
  BY <1>4
<1>6. \A wing \in {0, 1} : 2 * n + wing \in 0..2 * (1 + n) - 1
  BY <1>4
<1>7. \A i, j \in 1..n, a, b \in {0, 1} : 2 * (i - 1) + a = 2 * (j - 1) + b => i = j /\ a = b
  BY <1>4
<1>. QED  BY <1>3, <1>4, <1>5, <1>6, <1>7 DEF n

\* mapChi writes a cell per row and variable that is not routed, ...
LEMMA ChiCells ==
    ASSUME Common
    PROVE  ChiWrites = {ChiCell(n, v) : n \in VectorIds, v \in Kept_}
<1>1. \A n \in VectorIds, v \in Kept_ :
         Write(map_spaceIndex_to_witnessElement(
                   Plus(PowerOfX(n, rowsModulus), mapNonPermutationElement(getVarLocation(v).index))),
               <<"color", n, v>>) = ChiCell(n, v)
  <2>. SUFFICES ASSUME NEW n \in VectorIds, NEW v \in Kept_
                PROVE  Write(map_spaceIndex_to_witnessElement(
                                 Plus(PowerOfX(n, rowsModulus), mapNonPermutationElement(getVarLocation(v).index))),
                             <<"color", n, v>>) = ChiCell(n, v)
    OBVIOUS
  <2>1. exponents[n] = PowerOfX(n, rowsModulus) /\ exponents[n] \in LabelsOf(k)
    BY RowPlaces
  <2>2. KeptIndex(v) \in 0..inst.vectorsLen + 1
    BY KeptIndexes
  <2>3. map_spaceIndex_to_witnessElement(Plus(exponents[n], mapNonPermutationElement(KeptIndex(v))))
          = [layer |-> LayerOf(KeptIndex(v)), point |-> PointAt(exponents[n], ColumnOf(KeptIndex(v)))]
    BY <2>1, <2>2, OutsidePlace
  <2>. QED  BY <2>1, <2>3 DEF Write, ChiCell, KeptIndex
<1>2. ASSUME NEW x \in ChiWrites PROVE x \in {ChiCell(n, v) : n \in VectorIds, v \in Kept_}
  <2>1. PICK n \in VectorIds, v \in Kept_ :
           x = Write(map_spaceIndex_to_witnessElement(
                         Plus(PowerOfX(n, rowsModulus), mapNonPermutationElement(getVarLocation(v).index))),
                     <<"color", n, v>>)
    BY DEF ChiWrites, Kept_
  <2>2. x = ChiCell(n, v)
    BY <1>1, <2>1
  <2>. QED  BY <2>2
<1>3. ASSUME NEW n \in VectorIds, NEW v \in Kept_ PROVE ChiCell(n, v) \in ChiWrites
  <2>1. Write(map_spaceIndex_to_witnessElement(
                  Plus(PowerOfX(n, rowsModulus), mapNonPermutationElement(getVarLocation(v).index))),
              <<"color", n, v>>) \in ChiWrites
    BY DEF ChiWrites, Kept_
  <2>. QED  BY <1>1, <2>1
<1>4. \A x : x \in {ChiCell(n, v) : n \in VectorIds, v \in Kept_} => x \in ChiWrites
  BY <1>3
<1>. QED  BY <1>2, <1>4

\* ... mapNetwork one per node and one per node with a next column, ...
LEMMA NetCells ==
    ASSUME Common, hasRoutingNetwork
    PROVE  /\ DataWrites = {DataCell(w, column, wing, i) :
                 w \in Labels, column \in 0..wingWidth - 1, wing \in {0, 1}, i \in DOMAIN variablesPerm}
           /\ BitWrites = {BitCell(w, column, wing) :
                 w \in Labels, column \in 0..wingWidth - 2, wing \in {0, 1}}
<1>0. Labels = LabelsOf(k) /\ wingWidth \in Nat
  BY Sizes DEF Labels, LabelsOf
<1>1. ASSUME NEW w \in Labels, NEW column \in 0..wingWidth - 1, NEW wing \in {0, 1}, NEW i \in DOMAIN variablesPerm
      PROVE  Write(mapNetworkElement(w, column, 2 * (i - 1) + wing),
                   PacketValue(getDataID(wing, column, w), variablesPerm[i])) = DataCell(w, column, wing, i)
  <2>. DEFINE l == 2 * (i - 1) + wing
  <2>1. l \in 0..amountOfPermutationLayers - 1
    BY NetworkLayer
  <2>. HIDE DEF l
  <2>2. mapNetworkElement(w, column, l) = [layer |-> Bits(l), point |-> PointAt(w, PowerOfX(column, columnsModulus))]
    BY <1>0, <2>1, NetworkPlace
  <2>. QED  BY <2>2 DEF Write, DataCell, NetCell, l
<1>2. ASSUME NEW w \in Labels, NEW column \in 0..wingWidth - 2, NEW wing \in {0, 1}
      PROVE  Write(mapNetworkElement(w, column, 2 * Len(variablesPerm) + wing),
                   <<"bit", routingBit(wing, column, w)>>) = BitCell(w, column, wing)
  <2>. DEFINE l == 2 * Len(variablesPerm) + wing
  <2>1. l \in 0..amountOfPermutationLayers - 1 /\ column \in 0..wingWidth - 1
    BY <1>0, NetworkLayer
  <2>. HIDE DEF l
  <2>2. mapNetworkElement(w, column, l) = [layer |-> Bits(l), point |-> PointAt(w, PowerOfX(column, columnsModulus))]
    BY <1>0, <2>1, NetworkPlace
  <2>. QED  BY <2>2 DEF Write, BitCell, NetCell, l
<1>3. ASSUME NEW x \in DataWrites
      PROVE  x \in {DataCell(w, column, wing, i) :
                 w \in Labels, column \in 0..wingWidth - 1, wing \in {0, 1}, i \in DOMAIN variablesPerm}
  <2>1. PICK w \in Labels, column \in 0..wingWidth - 1, wing \in {0, 1}, i \in DOMAIN variablesPerm :
           x = Write(mapNetworkElement(w, column, 2 * (i - 1) + wing),
                     PacketValue(getDataID(wing, column, w), variablesPerm[i]))
    BY DEF DataWrites
  <2>2. x = DataCell(w, column, wing, i)
    BY <1>1, <2>1
  <2>. QED  BY <2>2
<1>4. ASSUME NEW x \in {DataCell(w, column, wing, i) :
                 w \in Labels, column \in 0..wingWidth - 1, wing \in {0, 1}, i \in DOMAIN variablesPerm}
      PROVE  x \in DataWrites
  <2>1. PICK w \in Labels, column \in 0..wingWidth - 1, wing \in {0, 1}, i \in DOMAIN variablesPerm :
           x = DataCell(w, column, wing, i)
    OBVIOUS
  <2>2. x = Write(mapNetworkElement(w, column, 2 * (i - 1) + wing),
                  PacketValue(getDataID(wing, column, w), variablesPerm[i]))
    BY <1>1, <2>1
  <2>. QED  BY <2>2 DEF DataWrites
<1>5. ASSUME NEW x \in BitWrites
      PROVE  x \in {BitCell(w, column, wing) : w \in Labels, column \in 0..wingWidth - 2, wing \in {0, 1}}
  <2>1. PICK w \in Labels, column \in 0..wingWidth - 2, wing \in {0, 1} :
           x = Write(mapNetworkElement(w, column, 2 * Len(variablesPerm) + wing),
                     <<"bit", routingBit(wing, column, w)>>)
    BY DEF BitWrites
  <2>2. x = BitCell(w, column, wing)
    BY <1>2, <2>1
  <2>. QED  BY <2>2
<1>6. ASSUME NEW x \in {BitCell(w, column, wing) : w \in Labels, column \in 0..wingWidth - 2, wing \in {0, 1}}
      PROVE  x \in BitWrites
  <2>1. PICK w \in Labels, column \in 0..wingWidth - 2, wing \in {0, 1} : x = BitCell(w, column, wing)
    OBVIOUS
  <2>2. Write(mapNetworkElement(w, column, 2 * Len(variablesPerm) + wing),
              <<"bit", routingBit(wing, column, w)>>) \in BitWrites
    BY DEF BitWrites
  <2>. DEFINE l == 2 * Len(variablesPerm) + wing
  <2>4. l \in 0..amountOfPermutationLayers - 1 /\ column \in 0..wingWidth - 1
    BY <1>0, NetworkLayer
  <2>. HIDE DEF l
  <2>5. mapNetworkElement(w, column, l) = [layer |-> Bits(l), point |-> PointAt(w, PowerOfX(column, columnsModulus))]
    BY <1>0, <2>4, NetworkPlace
  <2>3. Write(mapNetworkElement(w, column, 2 * Len(variablesPerm) + wing),
              <<"bit", routingBit(wing, column, w)>>) = BitCell(w, column, wing)
    BY <2>5 DEF Write, BitCell, NetCell, l
  <2>. QED  BY <2>1, <2>2, <2>3
<1>7. DataWrites = {DataCell(w, column, wing, i) :
                 w \in Labels, column \in 0..wingWidth - 1, wing \in {0, 1}, i \in DOMAIN variablesPerm}
  BY <1>3, <1>4
<1>8. BitWrites = {BitCell(w, column, wing) : w \in Labels, column \in 0..wingWidth - 2, wing \in {0, 1}}
  BY <1>5, <1>6
<1>. QED  BY <1>7, <1>8

\* No place is written to twice with different values.
LEMMA ChiOneValue == ASSUME Common PROVE OneValue(ChiWrites)
<1>. SUFFICES ASSUME NEW m \in VectorIds, NEW u \in Kept_, NEW n \in VectorIds, NEW v \in Kept_,
                     ChiCell(m, u).layer = ChiCell(n, v).layer, ChiCell(m, u).point = ChiCell(n, v).point
              PROVE  m = n /\ u = v
  <2>. SUFFICES ASSUME NEW x \in ChiWrites, NEW y \in ChiWrites, x.layer = y.layer, x.point = y.point
                PROVE  x.value = y.value
    BY DEF OneValue
  <2>1. PICK m \in VectorIds, u \in Kept_ : x = ChiCell(m, u)
    BY ChiCells
  <2>2. PICK n \in VectorIds, v \in Kept_ : y = ChiCell(n, v)
    BY ChiCells
  <2>3. m = n /\ u = v
    BY <2>1, <2>2
  <2>. QED  BY <2>1, <2>2, <2>3
<1>1. /\ LayerOf(KeptIndex(u)) = LayerOf(KeptIndex(v))
      /\ PointAt(exponents[m], ColumnOf(KeptIndex(u))) = PointAt(exponents[n], ColumnOf(KeptIndex(v)))
  BY DEF ChiCell
<1>2. KeptIndex(u) \in 0..inst.vectorsLen + 1 /\ KeptIndex(v) \in 0..inst.vectorsLen + 1
  BY KeptIndexes
<1>3. exponents[m] \in LabelsOf(k) /\ exponents[n] \in LabelsOf(k)
  BY RowPlaces
<1>4. ColumnOf(KeptIndex(u)) \in LabelsOf(width) /\ ColumnOf(KeptIndex(v)) \in LabelsOf(width)
  BY <1>2, OutsideSpots
<1>5. exponents[m] = exponents[n] /\ ColumnOf(KeptIndex(u)) = ColumnOf(KeptIndex(v))
  BY <1>1, <1>3, <1>4, PointsOneWay
<1>6. KeptIndex(u) = KeptIndex(v)
  BY <1>1, <1>2, <1>5, OutsideOneWay
<1>7. u = v
  BY <1>6, KeptIndexes
<1>8. m \in 0..domainSize /\ n \in 0..domainSize
  BY RowPlaces
<1>. QED  BY <1>5, <1>7, <1>8, RowPlaces

\* ... no place twice with different values, ...
LEMMA NetOneValue == ASSUME Common, hasRoutingNetwork PROVE OneValue(NetworkWrites)
<1>0. Labels = LabelsOf(k) /\ wingWidth \in Nat
  BY Sizes DEF Labels, LabelsOf
<1>1. ASSUME NEW i \in 0..amountOfPermutationLayers - 1, NEW j \in 0..amountOfPermutationLayers - 1,
             NEW u \in Labels, NEW w \in Labels, NEW a \in 0..wingWidth - 1, NEW b \in 0..wingWidth - 1,
             NEW p, NEW q, NetCell(i, u, a, p).layer = NetCell(j, w, b, q).layer,
             NetCell(i, u, a, p).point = NetCell(j, w, b, q).point
      PROVE  i = j /\ u = w /\ a = b
  <2>1. Bits(i) = Bits(j) /\ PointAt(u, PowerOfX(a, columnsModulus)) = PointAt(w, PowerOfX(b, columnsModulus))
    BY <1>1 DEF NetCell
  <2>2. i = j
    BY <2>1, NetworkLayer
  <2>3. u = w /\ PowerOfX(a, columnsModulus) = PowerOfX(b, columnsModulus)
    BY <1>0, <2>1, ColumnsOneWay, PointsOneWay
  <2>. QED  BY <2>2, <2>3, ColumnsOneWay
<1>. SUFFICES ASSUME NEW x \in NetworkWrites, NEW y \in NetworkWrites, x.layer = y.layer, x.point = y.point
              PROVE  x.value = y.value
  BY DEF OneValue
<1>2. \A z \in NetworkWrites :
         \/ \E w \in Labels, column \in 0..wingWidth - 1, wing \in {0, 1}, i \in DOMAIN variablesPerm :
               z = DataCell(w, column, wing, i)
         \/ \E w \in Labels, column \in 0..wingWidth - 2, wing \in {0, 1} : z = BitCell(w, column, wing)
  BY NetworkParts, NetCells
<1>3. \A column \in 0..wingWidth - 2 : column \in 0..wingWidth - 1
  BY <1>0
<1>4. CASE /\ \E w \in Labels, column \in 0..wingWidth - 1, wing \in {0, 1}, i \in DOMAIN variablesPerm :
                 x = DataCell(w, column, wing, i)
           /\ \E w \in Labels, column \in 0..wingWidth - 1, wing \in {0, 1}, i \in DOMAIN variablesPerm :
                 y = DataCell(w, column, wing, i)
  <2>1. PICK u \in Labels, a \in 0..wingWidth - 1, s \in {0, 1}, i \in DOMAIN variablesPerm : x = DataCell(u, a, s, i)
    BY <1>4
  <2>2. PICK w \in Labels, b \in 0..wingWidth - 1, t \in {0, 1}, j \in DOMAIN variablesPerm : y = DataCell(w, b, t, j)
    BY <1>4
  <2>. DEFINE l == 2 * (i - 1) + s  m == 2 * (j - 1) + t
              p == PacketValue(getDataID(s, a, u), variablesPerm[i])
              q == PacketValue(getDataID(t, b, w), variablesPerm[j])
  <2>5. l \in 0..amountOfPermutationLayers - 1 /\ m \in 0..amountOfPermutationLayers - 1
    BY NetworkLayer
  <2>6. x = NetCell(l, u, a, p) /\ y = NetCell(m, w, b, q)
    BY <2>1, <2>2 DEF DataCell
  <2>. HIDE DEF l, m, p, q
  <2>7. l = m /\ u = w /\ a = b
    BY <2>5, <2>6, <1>1
  <2>3. 2 * (i - 1) + s = 2 * (j - 1) + t /\ u = w /\ a = b
    BY <2>7 DEF l, m
  <2>4. i = j /\ s = t
    BY <2>3, NetworkLayer
  <2>. QED  BY <2>1, <2>2, <2>3, <2>4
<1>5. CASE /\ \E w \in Labels, column \in 0..wingWidth - 2, wing \in {0, 1} : x = BitCell(w, column, wing)
           /\ \E w \in Labels, column \in 0..wingWidth - 2, wing \in {0, 1} : y = BitCell(w, column, wing)
  <2>1. PICK u \in Labels, a \in 0..wingWidth - 2, s \in {0, 1} : x = BitCell(u, a, s)
    BY <1>5
  <2>2. PICK w \in Labels, b \in 0..wingWidth - 2, t \in {0, 1} : y = BitCell(w, b, t)
    BY <1>5
  <2>. DEFINE l == 2 * Len(variablesPerm) + s  m == 2 * Len(variablesPerm) + t
              p == <<"bit", routingBit(s, a, u)>>
              q == <<"bit", routingBit(t, b, w)>>
  <2>5. l \in 0..amountOfPermutationLayers - 1 /\ m \in 0..amountOfPermutationLayers - 1
    BY NetworkLayer
  <2>6. x = NetCell(l, u, a, p) /\ y = NetCell(m, w, b, q)
    BY <2>1, <2>2 DEF BitCell
  <2>. HIDE DEF l, m, p, q
  <2>7. l = m /\ u = w /\ a = b
    BY <2>5, <2>6, <1>1, <1>3
  <2>3. 2 * Len(variablesPerm) + s = 2 * Len(variablesPerm) + t /\ u = w /\ a = b
    BY <2>7 DEF l, m
  <2>4. s = t
    BY <2>3, NetworkLayer
  <2>. QED  BY <2>1, <2>2, <2>3, <2>4
<1>6. ASSUME NEW w \in Labels, NEW a \in 0..wingWidth - 1, NEW s \in {0, 1}, NEW i \in DOMAIN variablesPerm,
             NEW u \in Labels, NEW b \in 0..wingWidth - 2, NEW t \in {0, 1},
             DataCell(w, a, s, i).layer = BitCell(u, b, t).layer
      PROVE  FALSE
  <2>1. Bits(2 * (i - 1) + s) = Bits(2 * Len(variablesPerm) + t)
    BY <1>6 DEF DataCell, BitCell, NetCell
  <2>. DEFINE l == 2 * (i - 1) + s  m == 2 * Len(variablesPerm) + t
  <2>5. l \in 0..amountOfPermutationLayers - 1 /\ m \in 0..amountOfPermutationLayers - 1 /\ Bits(l) = Bits(m)
    BY <2>1, NetworkLayer
  <2>6. \A e, f \in 0..amountOfPermutationLayers - 1 : Bits(e) = Bits(f) => e = f
    BY NetworkLayer
  <2>. HIDE DEF l, m
  <2>7. l = m
    BY <2>5, <2>6
  <2>2. 2 * (i - 1) + s = 2 * Len(variablesPerm) + t
    BY <2>7 DEF l, m
  <2>3. 2 * (i - 1) + s < 2 * Len(variablesPerm) /\ Len(variablesPerm) \in Nat
    BY NetworkLayer
  <2>. QED  BY <2>2, <2>3
<1>. QED  BY <1>2, <1>4, <1>5, <1>6

\* ... and no layer of the other's.
LEMMA LayersApart ==
    ASSUME Common, hasRoutingNetwork, NEW x \in ChiWrites
    PROVE  NoneIn(NetworkWrites, x.layer)
<1>. SUFFICES ASSUME NEW y \in NetworkWrites PROVE y.layer # x.layer
  BY DEF NoneIn
<1>1. PICK n \in VectorIds, v \in Kept_ : x = ChiCell(n, v)
  BY ChiCells
<1>2. \A l \in 0..amountOfPermutationLayers - 1 : x.layer # Bits(l)
  BY <1>1, KeptIndexes, OutsideSpots DEF ChiCell
<1>3. \E l \in 0..amountOfPermutationLayers - 1 : y.layer = Bits(l)
  <2>1. CASE y \in DataWrites
    <3>1. PICK w \in Labels, column \in 0..wingWidth - 1, wing \in {0, 1}, i \in DOMAIN variablesPerm :
             y = DataCell(w, column, wing, i)
      BY <2>1, NetCells
    <3>. QED  BY <3>1, NetworkLayer DEF DataCell, NetCell
  <2>2. CASE y \in BitWrites
    <3>1. PICK w \in Labels, column \in 0..wingWidth - 2, wing \in {0, 1} : y = BitCell(w, column, wing)
      BY <2>2, NetCells
    <3>. QED  BY <3>1, NetworkLayer DEF BitCell, NetCell
  <2>. QED  BY <2>1, <2>2, NetworkParts
<1>. QED  BY <1>2, <1>3

-----------------------------------------------------------------------------
(* What is where once the reduction is done. *)
Laid == mapping = IF hasRoutingNetwork THEN Written(NetworkWrites, Written(ChiWrites, NoMapping))
                  ELSE Written(ChiWrites, NoMapping)

\* The colours of the variables that are not routed are in the mapping, ...
LEMMA ChiRead ==
    ASSUME Common, Laid, NEW n \in VectorIds, NEW v \in Kept_
    PROVE  Holding(mapping, LayerOf(KeptIndex(v)), PointAt(exponents[n], ColumnOf(KeptIndex(v))),
                   <<"color", n, v>>)
<1>. DEFINE x == ChiCell(n, v)
            M == Written(ChiWrites, NoMapping)
<1>1. x \in ChiWrites /\ OneValue(ChiWrites)
  BY ChiCells, ChiOneValue
<1>2. x.layer \notin DOMAIN NoMapping
  BY DEF NoMapping
<1>3. /\ x.layer = LayerOf(KeptIndex(v)) /\ x.point = PointAt(exponents[n], ColumnOf(KeptIndex(v)))
      /\ x.value = <<"color", n, v>>
  BY DEF ChiCell
<1>. HIDE DEF x
<1>4. Holding(M, x.layer, x.point, x.value)
  BY <1>1, <1>2, WrittenReads
<1>5. CASE hasRoutingNetwork
  <2>1. NoneIn(NetworkWrites, x.layer)
    BY <1>1, <1>5, LayersApart
  <2>2. x.layer \in DOMAIN M
    BY <1>4 DEF Holding
  <2>. HIDE DEF M
  <2>3. x.layer \in DOMAIN Written(NetworkWrites, M) /\ Written(NetworkWrites, M)[x.layer] = M[x.layer]
    BY <2>1, <2>2, WrittenKeeps
  <2>4. mapping = Written(NetworkWrites, M)
    BY <1>5 DEF Laid, M
  <2>. QED  BY <1>3, <1>4, <2>3, <2>4 DEF Holding
<1>6. CASE ~ hasRoutingNetwork
  <2>1. mapping = M
    BY <1>6 DEF Laid
  <2>. QED  BY <2>1, <1>3, <1>4
<1>. QED  BY <1>5, <1>6

\* ... everything mapNetwork wrote is, ...
LEMMA NetRead ==
    ASSUME Common, Laid, hasRoutingNetwork, NEW y \in NetworkWrites
    PROVE  Holding(mapping, y.layer, y.point, y.value)
<1>. DEFINE M == Written(ChiWrites, NoMapping)
<1>1. NoneIn(ChiWrites, y.layer)
  <2>. SUFFICES ASSUME NEW x \in ChiWrites PROVE x.layer # y.layer
    BY DEF NoneIn
  <2>. QED  BY LayersApart DEF NoneIn
<1>2. y.layer \notin DOMAIN M
  <2>1. y.layer \notin DOMAIN NoMapping
    BY DEF NoMapping
  <2>. QED  BY <2>1, <1>1, WrittenDomain
<1>3. mapping = Written(NetworkWrites, M)
  BY DEF Laid
<1>. HIDE DEF M
<1>. QED  BY <1>2, <1>3, NetOneValue, WrittenReads

\* What the folded network holds, and its routing bits.
LEMMA DataRead ==
    ASSUME Common, Laid, hasRoutingNetwork, NEW w \in Labels, NEW column \in 0..wingWidth - 1,
           NEW wing \in {0, 1}, NEW i \in DOMAIN variablesPerm
    PROVE  Holding(mapping, Bits(2 * (i - 1) + wing), PointAt(w, PowerOfX(column, columnsModulus)),
                   PacketValue(getDataID(wing, column, w), variablesPerm[i]))
<1>. DEFINE x == DataCell(w, column, wing, i)
<1>1. x \in NetworkWrites
  BY NetCells, NetworkParts
<1>2. /\ x.layer = Bits(2 * (i - 1) + wing) /\ x.point = PointAt(w, PowerOfX(column, columnsModulus))
      /\ x.value = PacketValue(getDataID(wing, column, w), variablesPerm[i])
  BY DEF DataCell, NetCell
<1>. HIDE DEF x
<1>3. Holding(mapping, x.layer, x.point, x.value)
  BY <1>1, NetRead
<1>. QED  BY <1>2, <1>3

\* ... and the routing bits.
LEMMA BitRead ==
    ASSUME Common, Laid, hasRoutingNetwork, NEW w \in Labels, NEW column \in 0..wingWidth - 2, NEW wing \in {0, 1}
    PROVE  Holding(mapping, Bits(2 * Len(variablesPerm) + wing), PointAt(w, PowerOfX(column, columnsModulus)),
                   <<"bit", routingBit(wing, column, w)>>)
<1>. DEFINE x == BitCell(w, column, wing)
<1>1. x \in NetworkWrites
  BY NetCells, NetworkParts
<1>2. /\ x.layer = Bits(2 * Len(variablesPerm) + wing) /\ x.point = PointAt(w, PowerOfX(column, columnsModulus))
      /\ x.value = <<"bit", routingBit(wing, column, w)>>
  BY DEF BitCell, NetCell
<1>. HIDE DEF x
<1>3. Holding(mapping, x.layer, x.point, x.value)
  BY <1>1, NetRead
<1>. QED  BY <1>2, <1>3

-----------------------------------------------------------------------------
(* Where the variables of a row are. *)

\* The network carries the permutation of the witness.
Carried == hasRoutingNetwork => /\ Routed /\ Delivers
                                /\ pi \in [VectorIds -> VectorIds] /\ permutation = permToRout(pi)

\* A routed variable is the one its index names.
LEMMA RoutedIndex ==
    ASSUME Common, NEW v \in Routed_
    PROVE  /\ hasRoutingNetwork /\ v \in Variables
           /\ getVarLocation(v).inPerm /\ getVarLocation(v).index \in Nat
           /\ getVarLocation(v).index + 1 \in DOMAIN variablesPerm
           /\ variablesPerm[getVarLocation(v).index + 1] = v
<1>1. hasRoutingNetwork /\ v \in Variables /\ DOMAIN variablesPerm = 1..Cardinality(Routed_)
  BY CommonLists DEF Lists1
<1>2. getVarLocation(v).inPerm /\ PlacedVar(variablesPerm, Routed_, getVarLocation(v).index, v)
  BY <1>1, Locations
<1>3. Cardinality(Routed_) \in Nat
  BY CommonLists
<1>4. \A i \in 0..Cardinality(Routed_) - 1 : i \in Nat /\ i + 1 \in 1..Cardinality(Routed_)
  BY <1>3
<1>. QED  BY <1>1, <1>2, <1>4 DEF PlacedVar

\* The first column is where the network is entered.
LEMMA FirstColumn ==
    ASSUME Common, hasRoutingNetwork
    PROVE  /\ 0 \in 0..wingWidth - 1 /\ PowerOfX(0, columnsModulus) = {0} /\ {0} \in LabelsOf(width)
           /\ Labels = LabelsOf(k)
<1>1. wingWidth \in Nat /\ wingWidth > 2
  BY Sizes
<1>2. 0 \in 0..wingWidth - 1
  BY <1>1
<1>. QED  BY <1>2, Powers, ColumnsOneWay DEF Labels, LabelsOf

\* There the first wing holds the rows themselves and the second the ones the permutation names.
LEMMA HeldFirst ==
    ASSUME Common, hasRoutingNetwork, Carried, NEW n \in VectorIds
    PROVE  /\ exponents[n] \in Labels /\ getDataID(0, 0, exponents[n]) = exponents[n]
           /\ getDataID(1, 0, exponents[n]) = exponents[pi[n]] /\ pi[n] \in VectorIds
<1>1. exponents[n] \in Labels /\ n \in 0..domainSize - 1 /\ n \in 0..domainSize /\ n # domainSize
  BY RowPlaces, FirstColumn
<1>. DEFINE w == exponents[n]
            held == [wing \in {0, 1} |-> [l \in 0..wingWidth - 1 |-> [u \in Labels |-> getDataID(wing, l, u)]]]
<1>2. held[0][0][w] = w /\ held[1][0][w] = permutation[w]
  BY <1>1 DEF Carried, Delivers
<1>3. 0 \in 0..wingWidth - 1 /\ 0 \in {0, 1} /\ 1 \in {0, 1}
  BY FirstColumn
<1>4. held[0][0][w] = getDataID(0, 0, w) /\ held[1][0][w] = getDataID(1, 0, w)
  BY <1>1, <1>3
<1>5. permutation[w] = exponents[pi[n]] /\ pi[n] \in VectorIds
  <2>1. logarithm(w) = n
    BY <1>1, RowPlaces
  <2>2. inst.k = k /\ w \in SUBSET (0..inst.k - 1)
    BY <1>1 DEF Common, Labels
  <2>3. permutation = permToRout(pi) /\ pi \in [VectorIds -> VectorIds]
    BY DEF Carried
  <2>4. permutation[w] = exponents[IF logarithm(w) = domainSize THEN domainSize ELSE pi[logarithm(w)]]
    BY <2>2, <2>3 DEF permToRout
  <2>. QED  BY <1>1, <2>1, <2>3, <2>4
<1>. QED  BY <1>1, <1>2, <1>4, <1>5

\* The place of a variable in the layer it is read from.
VariableLayer(v) == mapVariable_witnessElement(v).layer
VariableColumn(v) == IF v \in Routed_ THEN {0} ELSE ColumnOf(KeptIndex(v))

\* The place of a variable, as the neighbours compute it.
LEMMA VariablePlace ==
    ASSUME Common, NEW v \in Variables
    PROVE  /\ mapVariable_witnessElement(v).point = PointAt({}, VariableColumn(v))
           /\ VariableColumn(v) \in LabelsOf(width)
           /\ VariableLayer(v) = IF v \in Routed_ THEN Bits(2 * getVarLocation(v).index) ELSE LayerOf(KeptIndex(v))
<1>1. CASE v \in Routed_
  <2>. DEFINE i == getVarLocation(v).index
  <2>1. hasRoutingNetwork /\ getVarLocation(v).inPerm /\ i \in Nat /\ i + 1 \in DOMAIN variablesPerm
    BY <1>1, RoutedIndex
  <2>. DEFINE l == 2 * i
  <2>2. l \in 0..amountOfPermutationLayers - 1
    <3>1. 2 * ((i + 1) - 1) + 0 \in 0..amountOfPermutationLayers - 1
      BY <2>1, NetworkLayer
    <3>2. 2 * ((i + 1) - 1) + 0 = 2 * i
      BY <2>1
    <3>. QED  BY <3>1, <3>2
  <2>. HIDE DEF l
  <2>6. 0 \in 0..wingWidth - 1 /\ PowerOfX(0, columnsModulus) = {0}
    BY <2>1, FirstColumn
  <2>7. mapPermutationElement(0, l) = At({}, PowerOfX(0, columnsModulus), Bits(l))
    BY <2>1, <2>2, <2>6, NetworkSpots
  <2>3. mapPermutationElement(0, l) = At({}, {0}, Bits(l)) /\ Bits(l) \in SUBSET Nat
    <3>1. Bits(l) \in SUBSET Nat
      BY DEF Bits
    <3>. QED  BY <3>1, <2>6, <2>7
  <2>4. mapVariable_witnessElement(v) = map_spaceIndex_to_witnessElement(mapPermutationElement(0, l))
    BY <2>1 DEF mapVariable_witnessElement, l
  <2>5. mapVariable_witnessElement(v) = [layer |-> Bits(l), point |-> PointAt({}, {0})]
    BY <2>3, <2>4, PlaceOfSpot
  <2>. QED  BY <2>1, <2>5, <1>1, FirstColumn DEF VariableLayer, VariableColumn, l
<1>2. CASE v \notin Routed_
  <2>. DEFINE i == KeptIndex(v)
  <2>1. ~ getVarLocation(v).inPerm /\ v \in Kept_
    BY <1>2, Locations DEF Kept_, Routed_
  <2>2. i \in 0..inst.vectorsLen + 1
    BY <2>1, KeptIndexes
  <2>3. mapVariable_witnessElement(v) = map_spaceIndex_to_witnessElement(mapNonPermutationElement(i))
    BY <2>1 DEF mapVariable_witnessElement, KeptIndex
  <2>. HIDE DEF i
  <2>4. mapVariable_witnessElement(v) = [layer |-> LayerOf(i), point |-> PointAt({}, ColumnOf(i))]
    BY <2>2, <2>3, OutsideSpots, PlaceOfSpot
  <2>. QED  BY <2>2, <2>4, <1>2, OutsideSpots DEF VariableLayer, VariableColumn, i
<1>. QED  BY <1>1, <1>2

\* A row's colours are at the row's point of the variable's layer, ...
LEMMA RowRead ==
    ASSUME Common, Laid, Carried, NEW n \in VectorIds, NEW v \in Variables
    PROVE  Holding(mapping, VariableLayer(v), PointAt(exponents[n], VariableColumn(v)), <<"color", n, v>>)
<1>1. CASE v \in Routed_
  <2>. DEFINE i == getVarLocation(v).index
  <2>1. hasRoutingNetwork /\ i \in Nat /\ i + 1 \in DOMAIN variablesPerm /\ variablesPerm[i + 1] = v
    BY <1>1, RoutedIndex
  <2>2. exponents[n] \in Labels /\ getDataID(0, 0, exponents[n]) = exponents[n]
    BY <2>1, HeldFirst
  <2>. DEFINE j == i + 1
  <2>3. 2 * (j - 1) + 0 = 2 * i
    BY <2>1
  <2>4. j \in DOMAIN variablesPerm /\ variablesPerm[j] = v
    BY <2>1
  <2>. HIDE DEF j
  <2>5. Holding(mapping, Bits(2 * (j - 1) + 0), PointAt(exponents[n], PowerOfX(0, columnsModulus)),
                PacketValue(getDataID(0, 0, exponents[n]), variablesPerm[j]))
    BY <2>1, <2>2, <2>4, FirstColumn, DataRead
  <2>6. PacketValue(exponents[n], v) = <<"color", n, v>>
    <3>1. n \in 0..domainSize /\ n # domainSize /\ logarithm(exponents[n]) = n
      BY RowPlaces
    <3>. QED  BY <3>1 DEF PacketValue
  <2>7. VariableLayer(v) = Bits(2 * i) /\ VariableColumn(v) = PowerOfX(0, columnsModulus)
    BY <1>1, <2>1, FirstColumn, VariablePlace DEF VariableColumn
  <2>. HIDE DEF i
  <2>. QED  BY <2>2, <2>3, <2>4, <2>5, <2>6, <2>7
<1>2. CASE v \notin Routed_
  <2>1. v \in Kept_
    BY <1>2 DEF Kept_, Routed_
  <2>. QED  BY <2>1, <1>2, ChiRead, VariablePlace DEF VariableColumn
<1>. QED  BY <1>1, <1>2

\* ... and those the permutation names in the next layer.
LEMMA PermutedRead ==
    ASSUME Common, Laid, Carried, NEW n \in VectorIds, NEW v \in Routed_
    PROVE  Holding(mapping, Bits(2 * getVarLocation(v).index + 1), PointAt(exponents[n], {0}),
                   <<"color", pi[n], v>>)
<1>. DEFINE i == getVarLocation(v).index
            j == i + 1
<1>1. hasRoutingNetwork /\ i \in Nat /\ j \in DOMAIN variablesPerm /\ variablesPerm[j] = v
  BY RoutedIndex
<1>2. /\ exponents[n] \in Labels /\ getDataID(1, 0, exponents[n]) = exponents[pi[n]] /\ pi[n] \in VectorIds
  BY <1>1, HeldFirst
<1>3. 2 * (j - 1) + 1 = 2 * i + 1
  BY <1>1
<1>. HIDE DEF j
<1>5. Holding(mapping, Bits(2 * (j - 1) + 1), PointAt(exponents[n], PowerOfX(0, columnsModulus)),
              PacketValue(getDataID(1, 0, exponents[n]), variablesPerm[j]))
  BY <1>1, <1>2, FirstColumn, DataRead
<1>6. PacketValue(exponents[pi[n]], v) = <<"color", pi[n], v>>
  <2>1. pi[n] \in 0..domainSize /\ pi[n] # domainSize /\ logarithm(exponents[pi[n]]) = pi[n]
    BY <1>2, RowPlaces
  <2>. QED  BY <2>1 DEF PacketValue
<1>. HIDE DEF i
<1>7. Holding(mapping, Bits(2 * i + 1), PointAt(exponents[n], {0}), <<"color", pi[n], v>>)
  BY <1>1, <1>2, <1>3, <1>5, <1>6, FirstColumn
<1>. QED  BY <1>7 DEF i

-----------------------------------------------------------------------------
(* What the system's tests read. *)
TestPlace(test) == mapNonPermutationElement(test)

\* The places of the two kinds of tests are outside the network.
LEMMA TestPlaces ==
    ASSUME Common, NEW test \in {0, 1}
    PROVE  /\ TestPlace(test) \in SUBSET Nat
           /\ TestPlace(test) = At({}, ColumnOf(test), LayerOf(test))
           /\ ColumnOf(test) \in LabelsOf(width) /\ test \in 0..inst.vectorsLen + 1
<1>1. test \in 0..inst.vectorsLen + 1
  <2>1. inst.vectorsLen \in Nat
    BY InstancesAssumption DEF Common
  <2>. QED  BY <2>1
<1>2. \A r, c, l : At(r, c, l) \in SUBSET Nat
  BY DEF At, Spot
<1>. QED  BY <1>1, <1>2, OutsideSpots DEF TestPlace

\* Moving a place along an edge.
LEMMA Moves ==
    /\ \A r, t, p : Plus(Plus(r, t), Plus(p, t)) = Plus(r, p)
    /\ \A r, s, p, c : Plus(Plus(r, s), Plus(p, Plus(c, s))) = Plus(Plus(r, c), p)
    /\ \A x \in SUBSET Nat : Shift(x, 0) = x /\ Shift(x, 1) \in SUBSET Nat
    /\ \A x, y \in SUBSET Nat : Shift(Plus(x, y), 1) = Plus(Shift(x, 1), Shift(y, 1))
    /\ \A x, y \in SUBSET Nat : Plus(x, y) \in SUBSET Nat
<1>1. \A r, t, p : Plus(Plus(r, t), Plus(p, t)) = Plus(r, p)
  BY DEF Plus, SymDiff
<1>2. \A r, s, p, c : Plus(Plus(r, s), Plus(p, Plus(c, s))) = Plus(Plus(r, c), p)
  <2>1. ASSUME NEW r, NEW s, NEW p, NEW c, NEW b
        PROVE  b \in Plus(Plus(r, s), Plus(p, Plus(c, s))) <=> b \in Plus(Plus(r, c), p)
    BY DEF Plus, SymDiff
  <2>. QED  BY <2>1
<1>3. ASSUME NEW x \in SUBSET Nat PROVE Shift(x, 0) = x /\ Shift(x, 1) \in SUBSET Nat
  <2>1. \A b \in x : b + 0 = b /\ b + 1 \in Nat
    OBVIOUS
  <2>. QED  BY <2>1 DEF Shift
<1>4. ASSUME NEW x \in SUBSET Nat, NEW y \in SUBSET Nat
      PROVE  Shift(Plus(x, y), 1) = Plus(Shift(x, 1), Shift(y, 1))
  <2>1. ASSUME NEW z \in SUBSET Nat PROVE \A b : b \in Shift(z, 1) <=> b \in Nat /\ b > 0 /\ b - 1 \in z
    <3>1. \A b \in z : b + 1 \in Nat /\ b + 1 > 0 /\ (b + 1) - 1 = b
      OBVIOUS
    <3>2. \A b \in Nat : (b - 1) + 1 = b
      OBVIOUS
    <3>. QED  BY <3>1, <3>2 DEF Shift
  <2>2. \A z : z \in Plus(x, y) => z \in Nat
    BY DEF Plus, SymDiff
  <2>3. Plus(x, y) \in SUBSET Nat
    BY <2>2
  <2>4. \A b : b \in Shift(Plus(x, y), 1) <=> b \in Nat /\ b > 0 /\ b - 1 \in Plus(x, y)
    BY <2>1, <2>3
  <2>5. \A b : b \in Plus(Shift(x, 1), Shift(y, 1)) <=> (b \in Shift(x, 1) /\ b \notin Shift(y, 1))
                                                        \/ (b \in Shift(y, 1) /\ b \notin Shift(x, 1))
    BY DEF Plus, SymDiff
  <2>6. \A b : b \in Plus(x, y) <=> (b \in x /\ b \notin y) \/ (b \in y /\ b \notin x)
    BY DEF Plus, SymDiff
  <2>7. \A b : b \in Shift(Plus(x, y), 1) <=> b \in Plus(Shift(x, 1), Shift(y, 1))
    BY <2>1, <2>4, <2>5, <2>6
  <2>. QED  BY <2>7
<1>5. \A x, y \in SUBSET Nat : Plus(x, y) \in SUBSET Nat
  <2>1. \A x, y : \A b \in Plus(x, y) : b \in x \/ b \in y
    BY DEF Plus, SymDiff
  <2>. QED  BY <2>1
<1>. QED  BY <1>1, <1>2, <1>3, <1>4, <1>5

\* A neighbour reads what its place holds.
LEMMA HoldingRead ==
    ASSUME NEW neighbor, NEW x, NEW value,
           Holding(mapping, neighbor.layer, Apply(neighbor.poly, x), value)
    PROVE  Read(neighbor, x) = value
BY DEF Holding, Read

\* A row is a label, and moves a point to that row.
LEMMA RowFacts ==
    ASSUME Common, NEW n \in VectorIds
    PROVE  /\ PowerOfX(n, rowsModulus) = exponents[n] /\ exponents[n] \in LabelsOf(k)
           /\ exponents[n] \in SUBSET Nat
           /\ \A c : Plus(exponents[n], PointAt({}, c)) = PointAt(exponents[n], c)
<1>1. PowerOfX(n, rowsModulus) = exponents[n] /\ exponents[n] \in LabelsOf(k)
  BY RowPlaces
<1>. DEFINE r == exponents[n]
<1>. HIDE DEF r
<1>2. r \in LabelsOf(k)
  BY <1>1 DEF r
<1>3. ASSUME NEW c PROVE Plus(r, PointAt({}, c)) = PointAt(r, c)
  <2>1. Plus(At(r, {}, {}), At({}, c, {})) = At(Plus(r, {}), Plus({}, c), Plus({}, {}))
    BY RowSpots
  <2>2. At(r, {}, {}) = r
    BY <1>2, RowSpots
  <2>3. Plus(r, {}) = r /\ Plus({}, c) = c /\ Plus({}, {}) = {}
    BY RowSpots
  <2>. QED  BY <2>1, <2>2, <2>3 DEF PointAt
<1>4. r \in SUBSET Nat
  <2>1. k \in Nat
    BY Sizes
  <2>. QED  BY <1>2, <2>1 DEF LabelsOf
<1>. QED  BY <1>1, <1>3, <1>4 DEF r

\* A test of a row finds the row's own variables, ...
LEMMA CurrentRead ==
    ASSUME Common, Laid, Carried, NEW n \in VectorIds, NEW v \in Variables, NEW test \in {0, 1}
    PROVE  Read(moveFromPointToVarId(TestPlace(test), v), RowPoint(n, test)) = <<"color", n, v>>
<1>. DEFINE r == exponents[n]
            t == TestPlace(test)
            f == moveFromPointToVarId(t, v)
            p == PointAt({}, VariableColumn(v))
<1>1. RowPoint(n, test) = Plus(r, t)
  BY RowFacts DEF RowPoint, TestPlace
<1>2. f.layer = VariableLayer(v) /\ f.poly = Poly(0, Plus(p, t))
  BY VariablePlace DEF moveFromPointToVarId, Neighbor, VariableLayer
<1>3. r \in SUBSET Nat /\ t \in SUBSET Nat /\ Plus(r, p) = PointAt(r, VariableColumn(v))
  BY RowFacts, TestPlaces
<1>4. Holding(mapping, VariableLayer(v), PointAt(r, VariableColumn(v)), <<"color", n, v>>)
  BY RowRead
<1>. HIDE DEF r, t, f, p
<1>5. Apply(f.poly, Plus(r, t)) = PointAt(r, VariableColumn(v))
  <2>1. Apply(f.poly, Plus(r, t)) = Plus(Shift(Plus(r, t), 0), Plus(p, t))
    BY <1>2 DEF Apply, Poly
  <2>2. Shift(Plus(r, t), 0) = Plus(r, t)
    BY <1>3, Moves
  <2>. QED  BY <2>1, <2>2, <1>3, Moves
<1>6. Read(f, Plus(r, t)) = <<"color", n, v>>
  BY <1>2, <1>4, <1>5, HoldingRead
<1>. QED  BY <1>1, <1>6 DEF f, t

\* ... those of the row the permutation names ...
LEMMA NamedRead ==
    ASSUME Common, Laid, Carried, NEW n \in VectorIds, NEW v \in Routed_
    PROVE  Read(PermutedVar(v), RowPoint(n, permutationTest)) = <<"color", pi[n], v>>
<1>. DEFINE r == exponents[n]
            t == TestPlace(0)
            f == PermutedVar(v)
            p == PointAt({}, {0})
            l == 2 * getVarLocation(v).index + 1
<1>0. permutationTest = 0
  BY DEF permutationTest
<1>1. RowPoint(n, permutationTest) = Plus(r, t)
  BY <1>0, RowFacts DEF RowPoint, TestPlace
<1>2. f.layer = Bits(l) /\ f.poly = Poly(0, Plus(p, t))
  <2>. DEFINE i == getVarLocation(v).index
              j == i + 1
  <2>1. hasRoutingNetwork /\ i \in Nat /\ j \in DOMAIN variablesPerm
    BY RoutedIndex
  <2>2. 2 * (j - 1) + 1 = l
    BY <2>1
  <2>3. 2 * (j - 1) + 1 \in 0..amountOfPermutationLayers - 1
    <3>. HIDE DEF j
    <3>. QED  BY <2>1, NetworkLayer
  <2>4. l \in 0..amountOfPermutationLayers - 1
    BY <2>2, <2>3
  <2>. HIDE DEF l, i
  <2>6. 0 \in 0..wingWidth - 1 /\ PowerOfX(0, columnsModulus) = {0}
    BY <2>1, FirstColumn
  <2>7. mapPermutationElement(0, l) = At({}, PowerOfX(0, columnsModulus), Bits(l))
    BY <2>1, <2>4, <2>6, NetworkSpots
  <2>8. Bits(l) \in SUBSET Nat
    BY DEF Bits
  <2>9. map_spaceIndex_to_witnessElement(mapPermutationElement(0, l)) = [layer |-> Bits(l), point |-> p]
    BY <2>6, <2>7, <2>8, PlaceOfSpot
  <2>. HIDE DEF p
  <2>. QED  BY <2>9, <1>0 DEF PermutedVar, Neighbor, TestPlace, l
<1>3. r \in SUBSET Nat /\ t \in SUBSET Nat /\ Plus(r, p) = PointAt(r, {0})
  BY RowFacts, TestPlaces
<1>4. Holding(mapping, Bits(l), PointAt(r, {0}), <<"color", pi[n], v>>)
  BY PermutedRead
<1>. HIDE DEF r, t, f, p, l
<1>5. Apply(f.poly, Plus(r, t)) = PointAt(r, {0})
  <2>1. Apply(f.poly, Plus(r, t)) = Plus(Shift(Plus(r, t), 0), Plus(p, t))
    BY <1>2 DEF Apply, Poly
  <2>2. Shift(Plus(r, t), 0) = Plus(r, t)
    BY <1>3, Moves
  <2>. QED  BY <2>1, <2>2, <1>3, Moves
<1>6. Read(f, Plus(r, t)) = <<"color", pi[n], v>>
  BY <1>2, <1>4, <1>5, HoldingRead
<1>. QED  BY <1>1, <1>6 DEF f, t

\* ... and those of the next row, if the half of the rows it is in carries or not as
\* the test expects.
LEMMA NextRead ==
    ASSUME Common, Laid, Carried, NEW n \in TestedRows, NEW v \in Variables, NEW withCarry \in BOOLEAN,
           withCarry <=> k - 1 \in exponents[n]
    PROVE  Read(NextRowVar(v, withCarry), RowPoint(n, assignmentTest)) = <<"color", n + 1, v>>
<1>. DEFINE r == exponents[n]
            t == TestPlace(1)
            f == NextRowVar(v, withCarry)
            p == PointAt({}, VariableColumn(v))
            c == IF withCarry THEN rowsModulus ELSE {}
<1>0. assignmentTest = 1
  BY DEF assignmentTest
<1>1. n \in VectorIds /\ n + 1 \in VectorIds /\ n \in Nat
  <2>1. VectorIds = 0..domainSize - 1 /\ domainSize \in Nat
    BY RowPlaces
  <2>. QED  BY <2>1 DEF TestedRows
<1>2. RowPoint(n, assignmentTest) = Plus(r, t)
  BY <1>0, <1>1, RowFacts DEF RowPoint, TestPlace
<1>3. r \in SUBSET Nat /\ t \in SUBSET Nat
  BY <1>1, RowFacts, TestPlaces
<1>4. exponents[n + 1] = Plus(Shift(r, 1), c)
  <2>1. exponents[n + 1] = TimesX(r, rowsModulus)
    BY <1>1, RowFacts, Powers
  <2>2. Max(rowsModulus) = k /\ k \in Nat
    <3>1. Dimensions
      BY Dimensioned
    <3>. QED  BY <3>1 DEF Dimensions
  <2>3. k \in Shift(r, 1) <=> k - 1 \in r
    <3>1. \A b \in r : b + 1 = k <=> b = k - 1
      BY <1>3, <2>2
    <3>. QED  BY <3>1 DEF Shift
  <2>4. Plus(Shift(r, 1), {}) = Shift(r, 1)
    BY RowSpots
  <2>. QED  BY <2>1, <2>2, <2>3, <2>4 DEF TimesX
<1>5. f.layer = VariableLayer(v) /\ f.poly = Poly(0 + (1 + 0), Plus(Plus(p, {}), Shift(Plus(c, Shift(t, 1)), 0)))
  <2>1. mapVariable_witnessElement(v).point = p
    BY VariablePlace
  <2>. HIDE DEF p, c
  <2>2. /\ f.layer = VariableLayer(v)
        /\ f.poly = Compose(Poly(0, Plus(p, {})), Compose(Poly(1, c), Poly(0, t)))
    BY <2>1, <1>0 DEF NextRowVar, moveFromPointToVarId, Neighbor, VariableLayer, TestPlace, c
  <2>. QED  BY <2>2 DEF Compose, Poly
<1>6. c \in SUBSET Nat
  <2>1. Dimensions
    BY Dimensioned
  <2>. QED  BY <2>1 DEF Dimensions
<1>7. Holding(mapping, VariableLayer(v), PointAt(exponents[n + 1], VariableColumn(v)), <<"color", n + 1, v>>)
  BY <1>1, RowRead
<1>8. Plus(exponents[n + 1], p) = PointAt(exponents[n + 1], VariableColumn(v))
  BY <1>1, RowFacts
<1>. HIDE DEF r, t, f, p, c
<1>9. Apply(f.poly, Plus(r, t)) = Plus(exponents[n + 1], p)
  <2>1. f.poly = Poly(1, Plus(p, Plus(c, Shift(t, 1))))
    <3>1. Plus(p, {}) = p /\ Shift(Plus(c, Shift(t, 1)), 0) = Plus(c, Shift(t, 1))
      BY <1>3, <1>6, Moves, RowSpots
    <3>. QED  BY <3>1, <1>5
  <2>2. Apply(f.poly, Plus(r, t)) = Plus(Shift(Plus(r, t), 1), Plus(p, Plus(c, Shift(t, 1))))
    BY <2>1 DEF Apply, Poly
  <2>3. Shift(Plus(r, t), 1) = Plus(Shift(r, 1), Shift(t, 1))
    BY <1>3, Moves
  <2>. QED  BY <2>2, <2>3, <1>4, Moves
<1>10. Read(f, Plus(r, t)) = <<"color", n + 1, v>>
  BY <1>5, <1>7, <1>8, <1>9, HoldingRead
<1>. QED  BY <1>2, <1>10 DEF f

\* Which half a row is in.
LEMMA HalfOfRow ==
    ASSUME Common, NEW n \in VectorIds, NEW withCarry \in BOOLEAN,
           RowPoint(n, assignmentTest) \in
               Coset(noCarryBasis, Plus(IF withCarry THEN {height - 1} ELSE {}, mapNonPermutationElement(assignmentTest)))
    PROVE  withCarry <=> k - 1 \in exponents[n]
<1>. DEFINE r == exponents[n]
            t == TestPlace(1)
            c == IF withCarry THEN {height - 1} ELSE {}
<1>0. assignmentTest = 1
  BY DEF assignmentTest
<1>1. PICK e \in SUBSET noCarryBasis : Plus(r, t) = Plus(Plus(c, t), e)
  BY <1>0, RowFacts DEF RowPoint, TestPlace, Coset
<1>2. k \in Nat /\ height = k /\ k - 1 \notin e
  BY <1>1, Sizes DEF noCarryBasis
<1>3. k - 1 \in c <=> withCarry
  BY <1>2
<1>. HIDE DEF r, t, c
<1>4. \A b : b \in Plus(r, t) <=> b \in Plus(Plus(c, t), e)
  BY <1>1
<1>5. k - 1 \in r <=> k - 1 \in c
  BY <1>2, <1>4 DEF Plus, SymDiff
<1>. QED  BY <1>3, <1>5 DEF r

-----------------------------------------------------------------------------
AssignmentHalf(withCarry) ==
    [space |-> noCarryBasis,
     shift |-> Plus(IF withCarry THEN {height - 1} ELSE {},
                    mapNonPermutationElement(assignmentTest)),
     aux |-> {IF withCarry THEN lastRow(assignmentTest) ELSE zeroRow(assignmentTest)},
     kind |-> "assignment",
     current |-> [v \in inst.assignCurrent |->
                     moveFromPointToVarId(mapNonPermutationElement(assignmentTest), v)],
     next |-> [v \in inst.assignNext |-> NextRowVar(v, withCarry)]]

\* Constraints use variables of the instance.
LEMMA VariablesInUse ==
    ASSUME Common
    PROVE  /\ inst.permCurrent \subseteq Variables /\ Routed_ \subseteq Variables
           /\ inst.assignCurrent \subseteq Variables /\ inst.assignNext \subseteq Variables
BY InstancesAssumption DEF Common, Variables, Routed_

\* A test of the permutation's constraints reads its row and the one the permutation names.
LEMMA PermutationReads ==
    ASSUME Common, Laid, Carried, NEW s \in PermutationChecks, NEW n \in TestedRows
    PROVE  /\ s.kind = "permutation"
           /\ \A v \in DOMAIN s.current : Read(s.current[v], RowPoint(n, permutationTest)) = <<"color", n, v>>
           /\ \A v \in DOMAIN s.next : Read(s.next[v], RowPoint(n, permutationTest)) = <<"color", pi[n], v>>
<1>1. /\ s.kind = "permutation"
      /\ s.current = [v \in inst.permCurrent |-> moveFromPointToVarId(TestPlace(permutationTest), v)]
      /\ s.next = [v \in Routed_ |-> PermutedVar(v)]
  BY DEF PermutationChecks, TestPlace, Routed_
<1>2. n \in VectorIds /\ permutationTest \in {0, 1}
  <2>1. VectorIds = 0..domainSize - 1 /\ domainSize \in Nat
    BY RowPlaces
  <2>. QED  BY <2>1 DEF TestedRows, permutationTest
<1>3. \A v \in inst.permCurrent :
         Read(moveFromPointToVarId(TestPlace(permutationTest), v), RowPoint(n, permutationTest)) = <<"color", n, v>>
  BY <1>2, CurrentRead, VariablesInUse
<1>4. \A v \in Routed_ : Read(PermutedVar(v), RowPoint(n, permutationTest)) = <<"color", pi[n], v>>
  BY <1>2, NamedRead
<1>. QED  BY <1>1, <1>3, <1>4

\* Tests of the assignment's constraints are halves.
LEMMA AssignmentHalves ==
    ASSUME NEW s \in AssignmentChecks
    PROVE  \E withCarry \in BOOLEAN : s = AssignmentHalf(withCarry)
<1>1. s = AssignmentHalf(FALSE) \/ s = AssignmentHalf(TRUE)
  BY DEF AssignmentChecks, AssignmentHalf
<1>. QED  BY <1>1

\* A half reads its row and the next one, at the rows it is made for.
LEMMA AssignmentReads ==
    ASSUME Common, Laid, Carried, NEW s \in AssignmentChecks, NEW n \in TestedRows,
           RowPoint(n, assignmentTest) \in Tested(s)
    PROVE  /\ s.kind = "assignment"
           /\ \A v \in DOMAIN s.current : Read(s.current[v], RowPoint(n, assignmentTest)) = <<"color", n, v>>
           /\ \A v \in DOMAIN s.next : Read(s.next[v], RowPoint(n, assignmentTest)) = <<"color", n + 1, v>>
<1>1. PICK withCarry \in BOOLEAN : s = AssignmentHalf(withCarry)
  BY AssignmentHalves
<1>2. /\ s.kind = "assignment" /\ s.space = noCarryBasis
      /\ s.shift = Plus(IF withCarry THEN {height - 1} ELSE {}, mapNonPermutationElement(assignmentTest))
      /\ s.current = [v \in inst.assignCurrent |-> moveFromPointToVarId(TestPlace(assignmentTest), v)]
      /\ s.next = [v \in inst.assignNext |-> NextRowVar(v, withCarry)]
  BY <1>1 DEF AssignmentHalf, TestPlace
<1>3. n \in VectorIds /\ assignmentTest \in {0, 1}
  <2>1. VectorIds = 0..domainSize - 1 /\ domainSize \in Nat
    BY RowPlaces
  <2>. QED  BY <2>1 DEF TestedRows, assignmentTest
<1>4. withCarry <=> k - 1 \in exponents[n]
  <2>1. RowPoint(n, assignmentTest) \in Coset(s.space, s.shift)
    BY DEF Tested
  <2>. QED  BY <2>1, <1>2, <1>3, HalfOfRow
<1>5. \A v \in inst.assignCurrent :
         Read(moveFromPointToVarId(TestPlace(assignmentTest), v), RowPoint(n, assignmentTest)) = <<"color", n, v>>
  BY <1>3, CurrentRead, VariablesInUse
<1>6. \A v \in inst.assignNext : Read(NextRowVar(v, withCarry), RowPoint(n, assignmentTest)) = <<"color", n + 1, v>>
  BY <1>4, NextRead, VariablesInUse
<1>. QED  BY <1>2, <1>5, <1>6

\* A boundary constraint looks at the colour it is about.
LEMMA BoundaryReads ==
    ASSUME Common, Laid, Carried, NEW n \in VectorIds, NEW v \in Variables
    PROVE  mapping[VariableLayer(v)][Plus(mapVariable_witnessElement(v).point, PowerOfX(n, rowsModulus))]
             = <<"color", n, v>>
<1>1. Holding(mapping, VariableLayer(v), PointAt(exponents[n], VariableColumn(v)), <<"color", n, v>>)
  BY RowRead
<1>2. Plus(mapVariable_witnessElement(v).point, PowerOfX(n, rowsModulus)) = PointAt(exponents[n], VariableColumn(v))
  <2>1. Plus(PointAt({}, VariableColumn(v)), exponents[n]) = Plus(exponents[n], PointAt({}, VariableColumn(v)))
    BY RowSpots
  <2>2. mapVariable_witnessElement(v).point = PointAt({}, VariableColumn(v))
    BY VariablePlace
  <2>3. /\ PowerOfX(n, rowsModulus) = exponents[n]
        /\ Plus(exponents[n], PointAt({}, VariableColumn(v))) = PointAt(exponents[n], VariableColumn(v))
    BY RowFacts
  <2>. QED  BY <2>1, <2>2, <2>3
<1>. QED  BY <1>1, <1>2 DEF Holding

\* Together: a witness laid out as above is read right.
LEMMA ReadsFromLaid ==
    ASSUME Common, Laid, Carried
    PROVE  ReadsRight
<1>1. ASSUME NEW s \in SystemChecks, NEW n \in TestedRows
      PROVE  LET test == IF s.kind = "permutation" THEN permutationTest ELSE assignmentTest
                 row  == IF s.kind = "permutation" THEN pi[n] ELSE n + 1
                 x    == RowPoint(n, test)
             IN  x \in Tested(s) =>
                   /\ \A v \in DOMAIN s.current : Read(s.current[v], x) = <<"color", n, v>>
                   /\ \A v \in DOMAIN s.next : Read(s.next[v], x) = <<"color", row, v>>
  <2>1. CASE s \in PermutationChecks
    BY <2>1, PermutationReads
  <2>2. CASE s \in AssignmentChecks
    <3>1. s.kind = "assignment"
      <4>1. PICK withCarry \in BOOLEAN : s = AssignmentHalf(withCarry)
        BY <2>2, AssignmentHalves
      <4>. QED  BY <4>1 DEF AssignmentHalf
    <3>2. s.kind # "permutation"
      BY <3>1
    <3>. QED  BY <2>2, <3>2, AssignmentReads
  <2>. QED  BY <2>1, <2>2 DEF SystemChecks
<1>2. ASSUME NEW n \in VectorIds, NEW v \in Variables
      PROVE  LET place == mapVariable_witnessElement(v)
             IN  mapping[place.layer][Plus(place.point, PowerOfX(n, rowsModulus))] = <<"color", n, v>>
  BY BoundaryReads DEF VariableLayer
<1>. QED  BY <1>1, <1>2 DEF ReadsRight

-----------------------------------------------------------------------------
(* From one stage to the next. *)
ReductionInv ==
    /\ NetworkInv /\ Common
    /\ stage \in {"instance", "network", "done"}
    /\ stage = "instance" => mapping = NoMapping
    /\ stage # "instance" => /\ pi \in [VectorIds -> VectorIds]
                             /\ hasRoutingNetwork => permutation = permToRout(pi)
    /\ stage = "network" => hasRoutingNetwork /\ mapping = Written(ChiWrites, NoMapping)
    /\ stage = "done" => Laid /\ (hasRoutingNetwork => Routed)

\* The invariant holds at first, ...
LEMMA ReductionInvInit == Init => ReductionInv
<1>. SUFFICES ASSUME Init PROVE ReductionInv
  OBVIOUS
<1>1. NetworkInv
  BY NetworkInvInit
<1>. QED  BY <1>1 DEF Init, ReductionInv, Common

\* (the instance and what is computed of it stay,
LEMMA InstanceSame ==
    ASSUME UNCHANGED <<inst, commonDef, k>>
    PROVE  /\ Common' <=> Common
           /\ VectorIds' = VectorIds /\ hasRoutingNetwork' = hasRoutingNetwork
           /\ domainSize' = domainSize /\ exponents' = exponents
<1>1. inst' = inst /\ commonDef' = commonDef /\ k' = k
  OBVIOUS
<1>2. Variables' = Variables /\ domainSize' = domainSize /\ height' = height
  BY <1>1 DEF Variables, domainSize, height
<1>3. rowsModulus' = rowsModulus /\ VectorIds' = VectorIds
  BY <1>1, <1>2 DEF rowsModulus, VectorIds
<1>4. exponents' = exponents
  BY <1>2, <1>3 DEF exponents
<1>5. commonDeffinitions' = commonDeffinitions
  BY <1>1, <1>2 DEF commonDeffinitions
<1>6. hasRoutingNetwork' = hasRoutingNetwork
  BY <1>1 DEF hasRoutingNetwork, variablesPerm
<1>. QED  BY <1>1, <1>2, <1>3, <1>4, <1>5, <1>6 DEF Common

\* so does the routed permutation,
LEMMA PermutationSame ==
    ASSUME UNCHANGED <<inst, commonDef, k>>, pi' = pi
    PROVE  permToRout(pi)' = permToRout(pi)
<1>1. inst' = inst /\ domainSize' = domainSize /\ exponents' = exponents
  BY InstanceSame
<1>. QED  BY <1>1 DEF permToRout, logarithm

\* and so does what was laid out)
LEMMA LaidSame ==
    ASSUME UNCHANGED <<inst, commonDef, k, permutation, benesVars>>, mapping' = mapping
    PROVE  Laid' <=> Laid
<1>1. ChiWrites' = ChiWrites /\ hasRoutingNetwork' = hasRoutingNetwork
  BY ChiSame
<1>2. NetworkWrites' = NetworkWrites
  BY NetSame
<1>. QED  BY <1>1, <1>2 DEF Laid, Written, NoMapping

\* ... and every step keeps it.
LEMMA ReductionInvNext == ReductionInv /\ [Next]_vars => ReductionInv'
<1>. SUFFICES ASSUME ReductionInv, [Next]_vars PROVE ReductionInv'
  OBVIOUS
<1>1. NetworkInv'
  BY NetworkInvNext DEF ReductionInv
<1>2. UNCHANGED <<inst, commonDef, k>>
  <2>1. CASE mapChi
    BY <2>1 DEF mapChi
  <2>2. CASE routNetwork
    BY <2>2 DEF routNetwork, Route, acspVars
  <2>3. CASE mapNetwork
    BY <2>3 DEF mapNetwork
  <2>4. CASE UNCHANGED vars
    BY <2>4 DEF vars, acspVars
  <2>. QED  BY <2>1, <2>2, <2>3, <2>4 DEF Next
<1>3. /\ Common' /\ VectorIds' = VectorIds /\ hasRoutingNetwork' = hasRoutingNetwork
      /\ ChiWrites' = ChiWrites
  BY <1>2, InstanceSame, ChiSame DEF ReductionInv
<1>4. Written(ChiWrites, NoMapping)' = Written(ChiWrites, NoMapping)
  BY <1>3 DEF Written, NoMapping
<1>5. CASE mapChi
  <2>1. /\ stage = "instance" /\ pi' \in [VectorIds -> VectorIds]
        /\ mapping' = Written(ChiWrites, NoMapping)
    BY <1>5 DEF mapChi, ReductionInv
  <2>2. CASE hasRoutingNetwork
    <3>1. permutation' = permToRout(pi') /\ stage' = "network"
      BY <1>5, <2>2 DEF mapChi
    <3>2. domainSize' = domainSize /\ exponents' = exponents /\ inst' = inst
      BY <1>2, InstanceSame
    <3>3. permutation' = permToRout(pi)'
      BY <3>1, <3>2 DEF permToRout, logarithm
    <3>. QED  BY <1>1, <1>3, <1>4, <2>1, <2>2, <3>1, <3>3 DEF ReductionInv
  <2>3. CASE ~ hasRoutingNetwork
    <3>1. stage' = "done"
      BY <1>5, <2>3 DEF mapChi
    <3>2. Laid'
      BY <1>3, <1>4, <2>1, <2>3 DEF Laid
    <3>. QED  BY <1>1, <1>3, <2>1, <2>3, <3>1, <3>2 DEF ReductionInv
  <2>. QED  BY <2>2, <2>3
<1>6. CASE routNetwork
  <2>1. stage = "network" /\ stage' = stage /\ pi' = pi /\ mapping' = mapping /\ permutation' = permutation
    BY <1>6 DEF routNetwork, Route, acspVars
  <2>2. permToRout(pi)' = permToRout(pi)
    BY <1>2, <2>1, PermutationSame
  <2>. QED  BY <1>1, <1>3, <1>4, <2>1, <2>2 DEF ReductionInv
<1>7. CASE mapNetwork
  <2>1. /\ stage = "network" /\ stage' = "done" /\ pi' = pi /\ permutation' = permutation /\ Routed
        /\ mapping' = Written(NetworkWrites, mapping) /\ UNCHANGED <<inst, commonDef, k, permutation, benesVars>>
    BY <1>7 DEF mapNetwork
  <2>2. permToRout(pi)' = permToRout(pi)
    BY <1>2, <2>1, PermutationSame
  <2>3. hasRoutingNetwork /\ mapping' = Written(NetworkWrites, Written(ChiWrites, NoMapping))
    BY <2>1 DEF ReductionInv
  <2>4. NetworkWrites' = NetworkWrites
    BY <2>1, NetSame
  <2>5. Written(NetworkWrites, Written(ChiWrites, NoMapping))' = Written(NetworkWrites, Written(ChiWrites, NoMapping))
    BY <1>3, <2>4 DEF Written, NoMapping
  <2>6. Laid'
    BY <1>3, <2>3, <2>5 DEF Laid
  <2>7. Routed'
    BY <2>1 DEF Routed, benesVars
  <2>. QED  BY <1>1, <1>3, <2>1, <2>2, <2>3, <2>6, <2>7 DEF ReductionInv
<1>8. CASE UNCHANGED vars
  <2>1. /\ stage' = stage /\ pi' = pi /\ mapping' = mapping /\ permutation' = permutation
        /\ UNCHANGED <<inst, commonDef, k, permutation, benesVars>>
    BY <1>8 DEF vars, acspVars
  <2>2. permToRout(pi)' = permToRout(pi)
    BY <1>2, <2>1, PermutationSame
  <2>3. Laid' <=> Laid
    BY <2>1, LaidSame
  <2>4. Routed' <=> Routed
    BY <2>1 DEF Routed, benesVars
  <2>. QED  BY <1>1, <1>3, <1>4, <2>1, <2>2, <2>3, <2>4 DEF ReductionInv
<1>. QED  BY <1>5, <1>6, <1>7, <1>8 DEF Next

\* From mapChi to mapNetwork: whatever the permutation, the mapping holds exactly what
\* the writes so far say, the network routes the conjugate of the permutation, and it is
\* only read once routed (witnessReduction's order of calls).
THEOREM ReductionInvariant == Spec => []ReductionInv
<1>. QED  BY ReductionInvInit, ReductionInvNext, PTL DEF Spec

\* What it says of the last stage.
LEMMA DoneFacts ==
    ASSUME ReductionInv, Delivers, stage = "done"
    PROVE  Common /\ Laid /\ Carried
BY DEF ReductionInv, Carried

\* Prover and verifier agree about places: for every instance and permutation, the
\* neighbours and tests computed from the instance alone read the colours of the row,
\* of the next row and of the row the permutation names, where mapChi and mapNetwork
\* put them, and boundary constraints look at the colours they are about.
THEOREM RowsRead == Spec => []ReadsRight
<1>1. ReductionInv /\ Delivers => ReadsRight
  <2>. SUFFICES ASSUME ReductionInv, Delivers PROVE ReadsRight
    OBVIOUS
  <2>1. CASE stage = "done"
    BY <2>1, DoneFacts, ReadsFromLaid
  <2>2. CASE stage # "done"
    BY <2>2 DEF ReadsRight
  <2>. QED  BY <2>1, <2>2
<1>. QED  BY <1>1, ReductionInvariant, Delivery, PTL

-----------------------------------------------------------------------------
(* The places the network is tested at. *)
NetworkLayers_ == 0..amountOfPermutationLayers - 1

\* A subset of the bits of a layer is a point of it.
LEMMA PointOfBits ==
    ASSUME Common, NEW e \in SUBSET (0..height + width - 1)
    PROVE  /\ \E r \in LabelsOf(k), c \in LabelsOf(width) : e = PointAt(r, c)
           /\ e \subseteq 0..height - 1 => e \in LabelsOf(k) /\ e = PointAt(e, {})
<1>1. height = k /\ height \in Nat /\ width \in Nat
  BY Sizes
<1>. DEFINE r == {b \in 0..height - 1 : b \in e}
            c == {b \in 0..width - 1 : b + height \in e}
<1>2. r \in LabelsOf(k) /\ c \in LabelsOf(width)
  BY <1>1 DEF LabelsOf
<1>3. e = PointAt(r, c)
  <2>1. ASSUME NEW b \in Nat
        PROVE  b \in e <=> IF b < height THEN b \in r
                           ELSE IF b < height + width THEN b - height \in c ELSE FALSE
    <3>1. CASE b < height
      BY <3>1, <1>1
    <3>2. CASE ~(b < height) /\ b < height + width
      <4>1. b - height \in 0..width - 1 /\ (b - height) + height = b
        BY <3>2, <1>1
      <4>. QED  BY <4>1, <3>2
    <3>3. CASE ~(b < height) /\ ~(b < height + width)
      BY <3>3, <1>1
    <3>. QED  BY <3>1, <3>2, <3>3
  <2>2. \A b \in e : b \in Nat
    BY <1>1
  <2>. HIDE DEF r, c
  <2>3. \A b : b \in PointAt(r, c) <=>
          b \in Nat /\ IF b < height THEN b \in r
                       ELSE IF b < height + width THEN b - height \in c ELSE FALSE
    BY DEF PointAt, At, Spot
  <2>. QED  BY <2>1, <2>2, <2>3
<1>4. ASSUME e \subseteq 0..height - 1 PROVE e \in LabelsOf(k) /\ e = PointAt(e, {})
  <2>1. e \in LabelsOf(k)
    BY <1>1, <1>4 DEF LabelsOf
  <2>. QED  BY <2>1, RowSpots DEF PointAt
<1>. HIDE DEF r, c
<1>. QED  BY <1>2, <1>3, <1>4

\* Moving to a layer of the network and to its last column.
LEMMA LayerId ==
    ASSUME Common, hasRoutingNetwork, NEW l \in NetworkLayers_
    PROVE  /\ mapPermutationLayerId(l) = At({}, {}, Bits(l)) /\ Bits(l) \in SUBSET Nat
           /\ lastColShift = At({}, PowerOfX(wingWidth - 1, columnsModulus), {})
           /\ wingWidth - 1 \in 0..wingWidth - 1
           /\ \A r, c : /\ At(r, c, Bits(l)) = Plus(At({}, {}, Bits(l)), PointAt(r, c))
                        /\ Plus(At(r, c, Bits(l)), At({}, {}, Bits(l))) = PointAt(r, c)
<1>1. wingWidth \in Nat /\ wingWidth > 2
  BY Sizes
<1>2. 0 \in 0..wingWidth - 1 /\ wingWidth - 1 \in 0..wingWidth - 1
  BY <1>1
<1>3. mapPermutationLayerId(l) = At({}, {}, Bits(l))
  BY <1>2, NetworkSpots DEF NetworkLayers_
<1>4. imageWidth - 2 = wingWidth - 1
  <2>1. Dimensions
    BY Dimensioned
  <2>2. imageWidth \in 1..8 /\ imageWidth - 1 = wingWidth
    BY <2>1 DEF Dimensions
  <2>. QED  BY <2>2
<1>5. lastColShift = At({}, PowerOfX(wingWidth - 1, columnsModulus), {})
  BY <1>2, <1>4, NetworkSpots DEF lastColShift, NetworkLayers_
<1>6. Bits(l) \in SUBSET Nat
  BY DEF Bits
<1>. DEFINE B == Bits(l)
<1>. HIDE DEF B
<1>7. ASSUME NEW r, NEW c
      PROVE  At(r, c, B) = Plus(At({}, {}, B), PointAt(r, c)) /\ Plus(At(r, c, B), At({}, {}, B)) = PointAt(r, c)
  <2>1. \A x : Plus({}, x) = x /\ Plus(x, {}) = x /\ Plus(x, x) = {}
    BY RowSpots
  <2>2. Plus(At({}, {}, B), At(r, c, {})) = At(Plus({}, r), Plus({}, c), Plus(B, {}))
    BY RowSpots
  <2>3. Plus(At(r, c, B), At({}, {}, B)) = At(Plus(r, {}), Plus(c, {}), Plus(B, B))
    BY RowSpots
  <2>. QED  BY <2>1, <2>2, <2>3 DEF PointAt
<1>. QED  BY <1>2, <1>3, <1>5, <1>6, <1>7 DEF B

\* A node that has a next column.
LEMMA NodePoint ==
    ASSUME Common, hasRoutingNetwork, NEW l \in NetworkLayers_, NEW e \in SUBSET layersBasis, NEW x,
           x = Plus(mapPermutationLayerId(l), e), \A a \in noNextColumn(l) : ~ InCoset(x, a[1], a[2])
    PROVE  \E r \in Labels, column \in 0..wingWidth - 2 : x = At(r, PowerOfX(column, columnsModulus), Bits(l))
<1>1. PICK r \in LabelsOf(k), c \in LabelsOf(width) : e = PointAt(r, c)
  BY PointOfBits DEF layersBasis
<1>2. x = At(r, c, Bits(l))
  BY <1>1, LayerId
<1>3. height = k /\ height \in Nat /\ width \in Nat /\ wingWidth \in Nat /\ wingWidth > 2
  BY Sizes
<1>4. r \subseteq columnBasis
  BY <1>3 DEF LabelsOf, columnBasis
<1>5. c # {}
  <2>1. ~ InCoset(x, columnBasis, mapPermutationLayerId(l))
    BY DEF noNextColumn
  <2>2. Plus(x, mapPermutationLayerId(l)) = PointAt(r, c)
    BY <1>2, LayerId
  <2>3. PointAt(r, {}) = r
    BY RowSpots DEF PointAt
  <2>. QED  BY <2>1, <2>2, <2>3, <1>4 DEF InCoset
<1>6. c # PowerOfX(wingWidth - 1, columnsModulus)
  <2>. SUFFICES ASSUME c = PowerOfX(wingWidth - 1, columnsModulus) PROVE FALSE
    OBVIOUS
  <2>1. ~ InCoset(x, columnBasis, Plus(lastColShift, mapPermutationLayerId(l)))
    BY DEF noNextColumn
  <2>2. lastColShift = At({}, c, {}) /\ mapPermutationLayerId(l) = At({}, {}, Bits(l))
    BY LayerId
  <2>. DEFINE B == Bits(l)
  <2>3. x = At(r, c, B)
    BY <1>2
  <2>. HIDE DEF B
  <2>4. Plus(At({}, c, {}), At({}, {}, B)) = At(Plus({}, {}), Plus(c, {}), Plus({}, B))
    BY RowSpots
  <2>5. \A y : Plus({}, y) = y /\ Plus(y, {}) = y /\ Plus(y, y) = {}
    BY RowSpots
  <2>6. Plus(At(r, c, B), At({}, c, B)) = At(Plus(r, {}), Plus(c, c), Plus(B, B))
    BY RowSpots
  <2>7. Plus(x, Plus(lastColShift, mapPermutationLayerId(l))) = At(r, {}, {})
    BY <2>2, <2>3, <2>4, <2>5, <2>6 DEF B
  <2>8. At(r, {}, {}) = r
    BY RowSpots
  <2>. QED  BY <2>1, <2>7, <2>8, <1>4 DEF InCoset
<1>7. PICK column \in 0..wingWidth - 1 : c = PowerOfX(column, columnsModulus)
  BY <1>5, ColumnsOneWay
<1>8. column \in 0..wingWidth - 2
  <2>1. column # wingWidth - 1
    BY <1>6, <1>7
  <2>. QED  BY <2>1, <1>3
<1>9. r \in Labels
  BY FirstColumn
<1>. QED  BY <1>2, <1>7, <1>8, <1>9

\* A neighbour that stays at its node reads what the node holds in that layer.
LEMMA NodeRead ==
    ASSUME Common, hasRoutingNetwork, NEW l \in NetworkLayers_, NEW m, NEW r, NEW c, NEW value,
           Holding(mapping, Bits(m), PointAt(r, c), value)
    PROVE  Read(Neighbor(Bits(m), moveToZeroLayer(l)), At(r, c, Bits(l))) = value
<1>. DEFINE f == Neighbor(Bits(m), moveToZeroLayer(l))
            x == At(r, c, Bits(l))
<1>1. f.layer = Bits(m) /\ f.poly = Poly(0, mapPermutationLayerId(l))
  BY DEF Neighbor, moveToZeroLayer
<1>2. x \in SUBSET Nat
  BY DEF At, Spot
<1>3. Apply(Poly(0, mapPermutationLayerId(l)), x) = Plus(Shift(x, 0), mapPermutationLayerId(l))
  BY DEF Apply, Poly
<1>4. mapPermutationLayerId(l) = At({}, {}, Bits(l)) /\ Plus(x, At({}, {}, Bits(l))) = PointAt(r, c)
  BY LayerId
<1>. HIDE DEF f, x
<1>5. Apply(f.poly, x) = PointAt(r, c)
  BY <1>1, <1>2, <1>3, <1>4, Moves
<1>6. Read(f, x) = value
  BY <1>1, <1>5, HoldingRead
<1>. QED  BY <1>6 DEF f, x

\* A layer of packets belongs to a variable and a wing.
LEMMA PacketLayer ==
    ASSUME Common, hasRoutingNetwork, NEW l \in 0..2 * Len(variablesPerm) - 1
    PROVE  /\ l \in NetworkLayers_ /\ l \div 2 + 1 \in DOMAIN variablesPerm /\ l % 2 \in {0, 1}
           /\ 2 * ((l \div 2 + 1) - 1) + (l % 2) = l /\ l \in Nat
           /\ 2 * Len(variablesPerm) + (l % 2) \in NetworkLayers_
<1>. DEFINE n == Len(variablesPerm)
<1>1. DOMAIN variablesPerm = 1..n /\ n \in Nat /\ amountOfPermutationLayers = 2 * (1 + n)
  BY NetworkLayer
<1>. HIDE DEF n
<1>2. l \in 0..2 * n - 1
  BY DEF n
<1>3. l \div 2 + 1 \in 1..n /\ l % 2 \in {0, 1} /\ 2 * ((l \div 2 + 1) - 1) + (l % 2) = l /\ l \in Nat
  BY <1>1, <1>2
<1>4. l \in 0..2 * (1 + n) - 1 /\ 2 * n + (l % 2) \in 0..2 * (1 + n) - 1
  BY <1>1, <1>2, <1>3
<1>. QED  BY <1>1, <1>3, <1>4 DEF NetworkLayers_, n

\* The packets of a layer, at its nodes.
LEMMA PacketRead ==
    ASSUME Common, Laid, hasRoutingNetwork, NEW l \in 0..2 * Len(variablesPerm) - 1, NEW w \in Labels,
           NEW column \in 0..wingWidth - 1
    PROVE  Holding(mapping, Bits(l), PointAt(w, PowerOfX(column, columnsModulus)),
                   PacketValue(getDataID(l % 2, column, w), variablesPerm[l \div 2 + 1]))
<1>. DEFINE i == l \div 2 + 1
            s == l % 2
<1>1. i \in DOMAIN variablesPerm /\ s \in {0, 1} /\ 2 * (i - 1) + s = l
  BY PacketLayer
<1>. HIDE DEF i, s
<1>2. Holding(mapping, Bits(2 * (i - 1) + s), PointAt(w, PowerOfX(column, columnsModulus)),
              PacketValue(getDataID(s, column, w), variablesPerm[i]))
  BY <1>1, DataRead
<1>3. Holding(mapping, Bits(l), PointAt(w, PowerOfX(column, columnsModulus)),
              PacketValue(getDataID(s, column, w), variablesPerm[i]))
  BY <1>1, <1>2
<1>. QED  BY <1>3 DEF i, s

-----------------------------------------------------------------------------
(* The tests of the network. *)
LEMMA BitsHold ==
    ASSUME Common, Laid, hasRoutingNetwork, NEW s \in BitChecks, NEW x \in Tested(s)
    PROVE  Holds(s, x)
<1>. DEFINE N == 2 * Len(variablesPerm)
<1>1. PICK wing \in {0, 1} :
         /\ s.space = layersBasis /\ s.shift = mapPermutationLayerId(N + wing)
         /\ s.aux = noNextColumn(N + wing) /\ s.kind = "boolean" /\ s.of = <<Id(N + wing)>>
  <2>1. PICK l \in {N, N + 1} :
           s = [space |-> layersBasis, shift |-> mapPermutationLayerId(l),
                aux |-> noNextColumn(l), kind |-> "boolean", of |-> <<Id(l)>>]
    BY DEF BitChecks
  <2>2. N + 0 = N
    <3>1. Len(variablesPerm) \in Nat
      BY NetworkLayer
    <3>. QED  BY <3>1
  <2>. HIDE DEF N
  <2>. QED  BY <2>1, <2>2
<1>. DEFINE l == N + wing
<1>2. l \in NetworkLayers_
  BY NetworkLayer DEF NetworkLayers_
<1>3. s.shift = mapPermutationLayerId(l) /\ s.aux = noNextColumn(l) /\ s.of = <<Id(l)>>
  BY <1>1
<1>. HIDE DEF l
<1>4. PICK e \in SUBSET layersBasis : x = Plus(mapPermutationLayerId(l), e)
  BY <1>1, <1>3 DEF Tested, Coset
<1>5. \A a \in noNextColumn(l) : ~ InCoset(x, a[1], a[2])
  BY <1>3 DEF Tested
<1>6. PICK r \in Labels, column \in 0..wingWidth - 2 : x = At(r, PowerOfX(column, columnsModulus), Bits(l))
  BY <1>2, <1>4, <1>5, NodePoint
<1>7. Holding(mapping, Bits(l), PointAt(r, PowerOfX(column, columnsModulus)), <<"bit", routingBit(wing, column, r)>>)
  BY BitRead DEF l
<1>8. Read(Id(l), x) = <<"bit", routingBit(wing, column, r)>>
  BY <1>2, <1>6, <1>7, NodeRead DEF Id
<1>9. routingBit(wing, column, r) \in {0, 1}
  BY DEF routingBit
<1>. QED  BY <1>1, <1>3, <1>8, <1>9 DEF Holds

\* The wings of the network agree in the last column, ...
LEMMA LastColumnHolds ==
    ASSUME Common, Laid, Carried, hasRoutingNetwork, NEW s \in LastColumnChecks, NEW x \in Tested(s)
    PROVE  Holds(s, x)
<1>. DEFINE last == wingWidth - 1
            c == PowerOfX(last, columnsModulus)
<1>1. PICK i \in 0..Len(variablesPerm) - 1 :
         s = [space |-> columnBasis, shift |-> Plus(lastColShift, mapPermutationLayerId(2 * i)),
              aux |-> {}, kind |-> "equal", of |-> <<Id(2 * i), TwinLayer(2 * i)>>]
  BY DEF LastColumnChecks
<1>. DEFINE l == 2 * i
            t == 2 * i + 1
<1>2. /\ l \in 0..2 * Len(variablesPerm) - 1 /\ t \in 0..2 * Len(variablesPerm) - 1
      /\ l % 2 = 0 /\ t % 2 = 1 /\ l \div 2 = t \div 2 /\ Twin(l) = t
  <2>1. Len(variablesPerm) \in Nat
    BY NetworkLayer
  <2>. QED  BY <2>1 DEF Twin
<1>3. /\ s.space = columnBasis /\ s.shift = Plus(lastColShift, mapPermutationLayerId(l))
      /\ s.kind = "equal" /\ s.of = <<Id(l), TwinLayer(l)>>
  BY <1>1
<1>. HIDE DEF l, t
<1>4. l \in NetworkLayers_
  BY <1>2, PacketLayer
<1>5. PICK e \in SUBSET columnBasis : x = Plus(Plus(lastColShift, mapPermutationLayerId(l)), e)
  BY <1>3 DEF Tested, Coset
<1>6. e \in Labels
  BY Sizes DEF columnBasis, Labels
<1>7. x = At(e, c, Bits(l))
  <2>. DEFINE B == Bits(l)
  <2>1. lastColShift = At({}, c, {}) /\ mapPermutationLayerId(l) = At({}, {}, B)
    BY <1>4, LayerId
  <2>. HIDE DEF B, c
  <2>2. Plus(At({}, c, {}), At({}, {}, B)) = At(Plus({}, {}), Plus(c, {}), Plus({}, B))
    BY RowSpots
  <2>3. \A y : Plus({}, y) = y /\ Plus(y, {}) = y
    BY RowSpots
  <2>4. Plus(At({}, c, B), At(e, {}, {})) = At(Plus({}, e), Plus(c, {}), Plus(B, {}))
    BY RowSpots
  <2>5. At(e, {}, {}) = e
    BY <1>6, RowSpots, FirstColumn
  <2>. QED  BY <1>5, <2>1, <2>2, <2>3, <2>4, <2>5 DEF B
<1>8. last \in 0..wingWidth - 1
  BY Sizes
<1>. DEFINE v == variablesPerm[l \div 2 + 1]
<1>9. Holding(mapping, Bits(l), PointAt(e, c), PacketValue(getDataID(0, last, e), v))
  <2>1. Holding(mapping, Bits(l), PointAt(e, c), PacketValue(getDataID(l % 2, last, e), v))
    BY <1>2, <1>6, <1>8, PacketRead
  <2>. QED  BY <2>1, <1>2
<1>10. Holding(mapping, Bits(t), PointAt(e, c), PacketValue(getDataID(1, last, e), v))
  <2>1. Holding(mapping, Bits(t), PointAt(e, c), PacketValue(getDataID(t % 2, last, e), variablesPerm[t \div 2 + 1]))
    BY <1>2, <1>6, <1>8, PacketRead
  <2>. QED  BY <2>1, <1>2
<1>11. getDataID(0, last, e) = getDataID(1, last, e)
  <2>. DEFINE held == [wing \in {0, 1} |-> [m \in 0..wingWidth - 1 |-> [w \in Labels |-> getDataID(wing, m, w)]]]
  <2>1. held[0][last] = held[1][last]
    BY DEF Carried, Delivers
  <2>2. held[0][last][e] = getDataID(0, last, e) /\ held[1][last][e] = getDataID(1, last, e)
    BY <1>6, <1>8
  <2>. QED  BY <2>1, <2>2
<1>. HIDE DEF last, c, v
<1>12. /\ Read(Id(l), x) = PacketValue(getDataID(0, last, e), v)
       /\ Read(TwinLayer(l), x) = PacketValue(getDataID(1, last, e), v)
  BY <1>2, <1>4, <1>7, <1>9, <1>10, NodeRead DEF Id, TwinLayer
<1>. QED  BY <1>3, <1>11, <1>12 DEF Holds

\* ... and the extra row holds the padding.
LEMMA PaddingHolds ==
    ASSUME Common, Laid, Carried, hasRoutingNetwork, NEW s \in PaddingChecks, NEW x \in Tested(s)
    PROVE  Holds(s, x)
<1>1. PICK l \in 0..2 * Len(variablesPerm) - 1 :
         /\ s.space = {} /\ s.shift = mapPermutationElement(0, l) /\ s.kind = "padding" /\ s.of = <<Id(l)>>
         /\ s.value = <<"padding", variablesPerm[l \div 2 + 1]>>
  BY DEF PaddingChecks
<1>2. l \in NetworkLayers_ /\ l % 2 \in {0, 1}
  BY PacketLayer
<1>3. 0 \in 0..wingWidth - 1 /\ PowerOfX(0, columnsModulus) = {0} /\ Labels = LabelsOf(k)
  BY FirstColumn
<1>4. x = At({}, PowerOfX(0, columnsModulus), Bits(l))
  <2>1. x = Plus(mapPermutationElement(0, l), {})
    BY <1>1 DEF Tested, Coset
  <2>2. mapPermutationElement(0, l) = At({}, PowerOfX(0, columnsModulus), Bits(l))
    BY <1>2, <1>3, NetworkSpots DEF NetworkLayers_
  <2>. QED  BY <2>1, <2>2, RowSpots
<1>5. {} \in Labels /\ logarithm({}) = domainSize
  <2>1. domainSize \in Nat /\ exponents[domainSize] = {} /\ logarithm(exponents[domainSize]) = domainSize
    BY RowPlaces
  <2>. QED  BY <2>1 DEF Labels
<1>6. getDataID(l % 2, 0, {}) = {}
  <2>. DEFINE held == [wing \in {0, 1} |-> [m \in 0..wingWidth - 1 |-> [w \in Labels |-> getDataID(wing, m, w)]]]
  <2>1. held[0][0][{}] = {} /\ held[1][0][{}] = permutation[{}]
    BY <1>5 DEF Carried, Delivers
  <2>2. held[0][0][{}] = getDataID(0, 0, {}) /\ held[1][0][{}] = getDataID(1, 0, {})
    BY <1>3, <1>5
  <2>3. permutation[{}] = {}
    <3>1. permutation[{}] = exponents[domainSize]
      BY <1>5 DEF Carried, permToRout
    <3>. QED  BY <3>1, RowPlaces
  <2>. QED  BY <1>2, <2>1, <2>2, <2>3
<1>7. PacketValue({}, variablesPerm[l \div 2 + 1]) = s.value
  BY <1>1, <1>5 DEF PacketValue
<1>8. Holding(mapping, Bits(l), PointAt({}, PowerOfX(0, columnsModulus)), s.value)
  <2>1. Holding(mapping, Bits(l), PointAt({}, PowerOfX(0, columnsModulus)),
                PacketValue(getDataID(l % 2, 0, {}), variablesPerm[l \div 2 + 1]))
    BY <1>3, <1>5, PacketRead
  <2>. QED  BY <2>1, <1>6, <1>7
<1>9. Read(Id(l), x) = s.value
  BY <1>2, <1>4, <1>8, NodeRead DEF Id
<1>. QED  BY <1>1, <1>9 DEF Holds

-----------------------------------------------------------------------------
(* Multiplying a node's point by x, with the carries of its coset.          *)

\* Sums of shifted sets.
LEMMA ShiftSums ==
    /\ \A x, y \in SUBSET Nat, d \in Nat : Shift(Plus(x, y), d) = Plus(Shift(x, d), Shift(y, d))
    /\ \A x \in SUBSET Nat, d \in Nat : Shift(x, d) \in SUBSET Nat /\ Shift(Shift(x, d), 1) = Shift(Shift(x, 1), d)
<1>1. ASSUME NEW z \in SUBSET Nat, NEW d \in Nat
      PROVE  \A b : b \in Shift(z, d) <=> b \in Nat /\ b >= d /\ b - d \in z
  <2>1. \A b \in z : b + d \in Nat /\ b + d >= d /\ (b + d) - d = b
    OBVIOUS
  <2>2. \A b \in Nat : (b - d) + d = b
    OBVIOUS
  <2>. QED  BY <2>1, <2>2 DEF Shift
<1>2. ASSUME NEW x \in SUBSET Nat, NEW y \in SUBSET Nat, NEW d \in Nat
      PROVE  Shift(Plus(x, y), d) = Plus(Shift(x, d), Shift(y, d))
  <2>1. Plus(x, y) \in SUBSET Nat
    BY Moves
  <2>2. \A b : b \in Shift(Plus(x, y), d) <=> b \in Nat /\ b >= d /\ b - d \in Plus(x, y)
    BY <1>1, <2>1
  <2>3. \A b : b \in Plus(Shift(x, d), Shift(y, d)) <=> (b \in Shift(x, d) /\ b \notin Shift(y, d))
                                                        \/ (b \in Shift(y, d) /\ b \notin Shift(x, d))
    BY DEF Plus, SymDiff
  <2>4. \A b : b \in Plus(x, y) <=> (b \in x /\ b \notin y) \/ (b \in y /\ b \notin x)
    BY DEF Plus, SymDiff
  <2>5. \A b : b \in Shift(Plus(x, y), d) <=> b \in Plus(Shift(x, d), Shift(y, d))
    BY <1>1, <2>2, <2>3, <2>4
  <2>. QED  BY <2>5
<1>3. ASSUME NEW x \in SUBSET Nat, NEW d \in Nat
      PROVE  Shift(x, d) \in SUBSET Nat /\ Shift(Shift(x, d), 1) = Shift(Shift(x, 1), d)
  <2>1. Shift(x, d) \in SUBSET Nat /\ Shift(x, 1) \in SUBSET Nat
    BY <1>1
  <2>2. \A b : b \in Shift(Shift(x, d), 1) <=> b \in Nat /\ b >= 1 /\ b - 1 >= d /\ (b - 1) - d \in x
    BY <1>1, <2>1
  <2>3. \A b : b \in Shift(Shift(x, 1), d) <=> b \in Nat /\ b >= d /\ b - d >= 1 /\ (b - d) - 1 \in x
    BY <1>1, <2>1
  <2>4. \A b \in Nat : (b - 1) - d = (b - d) - 1 /\ (b >= 1 /\ b - 1 >= d <=> b >= d /\ b - d >= 1)
    OBVIOUS
  <2>. QED  BY <2>1, <2>2, <2>3, <2>4
<1>. QED  BY <1>2, <1>3

\* A row's bits turned, ...
LEMMA RowTurned ==
    ASSUME NEW h \in Nat, h >= 2, NEW r \in LabelsOf(h)
    PROVE  /\ Plus(Shift(r, 1), IF h - 1 \in r THEN {0, h} ELSE {}) = RotL(r, 1, h)
           /\ Plus(RotL(r, 1, h), {1}) = RotL(Plus(r, {0}), 1, h)
           /\ RotL(r, 1, h) \in LabelsOf(h) /\ RotL(Plus(r, {0}), 1, h) \in LabelsOf(h)
<1>1. \A b \in 0..h - 1 : b \in Nat /\ (b + 1) % h = IF b = h - 1 THEN 0 ELSE b + 1
  <2>. SUFFICES ASSUME NEW b \in 0..h - 1 PROVE b \in Nat /\ (b + 1) % h = IF b = h - 1 THEN 0 ELSE b + 1
    OBVIOUS
  <2>1. CASE b = h - 1
    <3>1. b + 1 = h /\ h % h = 0
      BY <2>1
    <3>. QED  BY <3>1, <2>1
  <2>2. CASE b # h - 1
    <3>1. b + 1 \in 0..h - 1
      BY <2>2
    <3>2. \A a \in 0..h - 1 : a % h = a
      OBVIOUS
    <3>. QED  BY <3>1, <3>2, <2>2
  <2>. QED  BY <2>1, <2>2
<1>2. \A b \in r : b \in 0..h - 1
  BY DEF LabelsOf
<1>3. ASSUME NEW z \in LabelsOf(h), NEW b
      PROVE  b \in RotL(z, 1, h) <=> b \in 0..h - 1 /\ IF b = 0 THEN h - 1 \in z ELSE b - 1 \in z
  <2>1. \A a \in z : a \in 0..h - 1 /\ (a + 1) % h = IF a = h - 1 THEN 0 ELSE a + 1
    BY <1>1 DEF LabelsOf
  <2>2. ASSUME b \in RotL(z, 1, h) PROVE b \in 0..h - 1 /\ IF b = 0 THEN h - 1 \in z ELSE b - 1 \in z
    <3>1. PICK a \in z : b = (a + 1) % h
      BY <2>2 DEF RotL
    <3>2. a \in 0..h - 1 /\ b = IF a = h - 1 THEN 0 ELSE a + 1
      BY <2>1, <3>1
    <3>3. CASE a = h - 1
      BY <3>1, <3>2, <3>3
    <3>4. CASE a # h - 1
      <4>1. b = a + 1 /\ b # 0 /\ b - 1 = a /\ b \in 0..h - 1
        BY <3>2, <3>4
      <4>. QED  BY <4>1, <3>1
    <3>. QED  BY <3>3, <3>4
  <2>3. ASSUME b \in 0..h - 1, IF b = 0 THEN h - 1 \in z ELSE b - 1 \in z PROVE b \in RotL(z, 1, h)
    <3>1. CASE b = 0
      <4>1. h - 1 \in z /\ ((h - 1) + 1) % h = 0
        BY <2>1, <2>3, <3>1
      <4>. QED  BY <4>1, <3>1 DEF RotL
    <3>2. CASE b # 0
      <4>1. b - 1 \in z /\ b - 1 # h - 1 /\ (b - 1) + 1 = b
        BY <2>3, <3>2
      <4>2. ((b - 1) + 1) % h = b
        BY <2>1, <4>1
      <4>. QED  BY <4>1, <4>2 DEF RotL
    <3>. QED  BY <3>1, <3>2
  <2>. QED  BY <2>2, <2>3
<1>4. \A z \in LabelsOf(h) : RotL(z, 1, h) \in LabelsOf(h)
  <2>1. \A z \in LabelsOf(h) : \A b \in RotL(z, 1, h) : b \in 0..h - 1
    BY <1>3
  <2>. QED  BY <2>1 DEF LabelsOf
<1>5. Plus(r, {0}) \in LabelsOf(h) /\ \A b : b \in Plus(r, {0}) <=> IF b = 0 THEN 0 \notin r ELSE b \in r
  <2>1. \A b : b \in Plus(r, {0}) <=> IF b = 0 THEN 0 \notin r ELSE b \in r
    BY DEF Plus, SymDiff
  <2>2. 0 \in 0..h - 1
    OBVIOUS
  <2>. QED  BY <2>1, <2>2, <1>2 DEF LabelsOf
<1>6. \A b : b \in Shift(r, 1) <=> b \in 1..h /\ b - 1 \in r
  <2>1. \A b \in r : b + 1 \in 1..h /\ (b + 1) - 1 = b
    BY <1>2
  <2>2. \A b \in 1..h : (b - 1) + 1 = b
    OBVIOUS
  <2>. QED  BY <2>1, <2>2 DEF Shift
<1>7. Plus(Shift(r, 1), IF h - 1 \in r THEN {0, h} ELSE {}) = RotL(r, 1, h)
  <2>1. ASSUME NEW b
        PROVE  b \in Plus(Shift(r, 1), IF h - 1 \in r THEN {0, h} ELSE {}) <=> b \in RotL(r, 1, h)
    <3>. DEFINE F == IF h - 1 \in r THEN {0, h} ELSE {}
    <3>1. b \in F <=> h - 1 \in r /\ (b = 0 \/ b = h)
      OBVIOUS
    <3>2. b \in Plus(Shift(r, 1), F) <=> (b \in Shift(r, 1) /\ b \notin F) \/ (b \in F /\ b \notin Shift(r, 1))
      BY DEF Plus, SymDiff
    <3>. HIDE DEF F
    <3>3. CASE b = 0
      <4>1. b \notin 1..h /\ b \in 0..h - 1
        BY <3>3
      <4>. QED  BY <4>1, <3>1, <3>2, <3>3, <1>3, <1>6 DEF F
    <3>4. CASE b = h
      <4>1. b \in 1..h /\ b \notin 0..h - 1 /\ b # 0 /\ b - 1 = h - 1
        BY <3>4
      <4>. QED  BY <4>1, <3>1, <3>2, <3>4, <1>3, <1>6 DEF F
    <3>5. CASE b # 0 /\ b # h
      <4>1. b \in 1..h <=> b \in 0..h - 1
        BY <3>5
      <4>. QED  BY <4>1, <3>1, <3>2, <3>5, <1>3, <1>6 DEF F
    <3>. QED  BY <3>3, <3>4, <3>5
  <2>. QED  BY <2>1
<1>8. Plus(RotL(r, 1, h), {1}) = RotL(Plus(r, {0}), 1, h)
  <2>1. ASSUME NEW b
        PROVE  b \in Plus(RotL(r, 1, h), {1}) <=> b \in RotL(Plus(r, {0}), 1, h)
    <3>1. b \in Plus(RotL(r, 1, h), {1}) <=> IF b = 1 THEN b \notin RotL(r, 1, h) ELSE b \in RotL(r, 1, h)
      BY DEF Plus, SymDiff
    <3>2. b \in RotL(Plus(r, {0}), 1, h) <=>
            b \in 0..h - 1 /\ IF b = 0 THEN h - 1 \in Plus(r, {0}) ELSE b - 1 \in Plus(r, {0})
      BY <1>3, <1>5
    <3>3. CASE b = 1
      <4>1. 1 \in 0..h - 1 /\ 1 - 1 = 0 /\ 1 # 0
        OBVIOUS
      <4>. QED  BY <4>1, <3>1, <3>2, <3>3, <1>3, <1>5
    <3>4. CASE b # 1
      <4>1. h - 1 # 0 /\ (b \in 0..h - 1 /\ b # 0 => b - 1 # 0)
        BY <3>4
      <4>. QED  BY <4>1, <3>1, <3>2, <3>4, <1>3, <1>5
    <3>. QED  BY <3>3, <3>4
  <2>. QED  BY <2>1
<1>. QED  BY <1>4, <1>5, <1>7, <1>8

\* ... and a column to the next one.
LEMMA ColumnTurned ==
    ASSUME NEW w \in Nat, NEW c \in SUBSET Nat, NEW M, Max(M) = w, w > 0
    PROVE  Plus(Shift(c, 1), IF w - 1 \in c THEN M ELSE {}) = TimesX(c, M)
<1>1. w \in Shift(c, 1) <=> w - 1 \in c
  <2>1. \A b \in c : b + 1 = w <=> b = w - 1
    OBVIOUS
  <2>. QED  BY <2>1 DEF Shift
<1>2. Plus(Shift(c, 1), {}) = Shift(c, 1)
  BY DEF Plus, SymDiff
<1>. QED  BY <1>1, <1>2 DEF TimesX

\* The label a packet of row r goes to along edge n.
EdgeEnd(n, r) == IF n = 0 THEN Neighbor0(r) ELSE Neighbor1(r)
EdgeBit(n) == IF n = 0 THEN {} ELSE {1}

\* The polynomial of an edge, written out.
LEMMA EdgePoly ==
    ASSUME NEW n \in {0, 1}, NEW coset \in 0..3, NEW l \in NetworkLayers_, NEW x,
           mapPermutationLayerId(l) \in SUBSET Nat
    PROVE  /\ DeBruijn(n, coset, l).layer = Bits(l)
           /\ Apply(DeBruijn(n, coset, l).poly, x)
                = Plus(Shift(x, 1), Plus(getFixByCoset(coset), Plus(EdgeBit(n), Shift(mapPermutationLayerId(l), 1))))
<1>. DEFINE fix == getFixByCoset(coset)
<1>0. \A y : Plus({}, y) = y
  BY DEF Plus, SymDiff
<1>1. LinearDeBruijn(n) = Poly(1, EdgeBit(n))
  <2>1. CASE n = 0
    BY <2>1 DEF LinearDeBruijn, EdgeBit
  <2>2. CASE n = 1
    <3>1. Shift({0}, 1) = {1}
      BY DEF Shift
    <3>2. LinearDeBruijn(n) = Compose(Poly(1, {}), Poly(0, {0})) /\ EdgeBit(n) = {1}
      BY <2>2 DEF LinearDeBruijn, EdgeBit
    <3>3. Compose(Poly(1, {}), Poly(0, {0})) = Poly(1 + 0, Plus({}, Shift({0}, 1)))
      BY DEF Compose, Poly
    <3>. QED  BY <1>0, <3>1, <3>2, <3>3
  <2>. QED  BY <2>1, <2>2
<1>2. Compose(LinearDeBruijn(n), moveToZeroLayer(l)) = Poly(1 + 0, Plus(EdgeBit(n), Shift(mapPermutationLayerId(l), 1)))
  BY <1>1 DEF Compose, Poly, moveToZeroLayer
<1>3. EdgeBit(n) \in SUBSET Nat /\ Shift(mapPermutationLayerId(l), 1) \in SUBSET Nat
  BY Moves DEF EdgeBit
<1>. DEFINE c == Plus(EdgeBit(n), Shift(mapPermutationLayerId(l), 1))
<1>4. c \in SUBSET Nat /\ Shift(c, 0) = c
  BY <1>3, Moves
<1>. HIDE DEF c, fix
<1>5. Compose(Poly(0, fix), Poly(1 + 0, c)) = Poly(0 + (1 + 0), Plus(fix, Shift(c, 0)))
  BY DEF Compose, Poly
<1>6. DeBruijn(n, coset, l).layer = Bits(l) /\ DeBruijn(n, coset, l).poly = Poly(1, Plus(fix, c))
  BY <1>2, <1>4, <1>5 DEF DeBruijn, Neighbor, c, fix
<1>. QED  BY <1>6 DEF Apply, Poly, c, fix

\* Rearranging a sum of seven.
LEMMA SevenSums ==
    ASSUME NEW a, NEW b, NEW l, NEW f, NEW g, NEW p
    PROVE  Plus(Plus(Plus(a, b), l), Plus(Plus(f, g), Plus(p, l))) = Plus(Plus(Plus(a, g), p), Plus(b, f))
<1>1. ASSUME NEW x
      PROVE  x \in Plus(Plus(Plus(a, b), l), Plus(Plus(f, g), Plus(p, l)))
               <=> x \in Plus(Plus(Plus(a, g), p), Plus(b, f))
  BY DEF Plus, SymDiff
<1>. QED  BY <1>1

\* It leads to the node the edge does, if the coset says which carries there are.
LEMMA EdgePoint ==
    ASSUME Common, hasRoutingNetwork, NEW l \in NetworkLayers_, NEW n \in {0, 1}, NEW coset \in 0..3,
           NEW r \in Labels, NEW column \in 0..wingWidth - 2,
           width - 1 \in PowerOfX(column, columnsModulus) <=> coset \in {1, 3},
           height - 1 \in r <=> coset \in {2, 3}
    PROVE  /\ Apply(DeBruijn(n, coset, l).poly, At(r, PowerOfX(column, columnsModulus), Bits(l)))
                = PointAt(EdgeEnd(n, r), PowerOfX(column + 1, columnsModulus))
           /\ EdgeEnd(n, r) \in Labels
<1>. DEFINE c == PowerOfX(column, columnsModulus)
            d == PowerOfX(column + 1, columnsModulus)
            L == At({}, {}, Bits(l))
            M == columnsModulus
            x == At(r, c, Bits(l))
            F == IF coset \in {1, 3} THEN Shift(M, height) ELSE {}
            G == IF coset \in {2, 3} THEN {0, height} ELSE {}
<1>1. /\ height = k /\ k \in Nat /\ k >= 2 /\ width \in Nat /\ width > 0 /\ M \in SUBSET Nat
      /\ Max(M) = width /\ wingWidth \in Nat
  <2>1. Dimensions
    BY Dimensioned
  <2>2. /\ height = k /\ k \in {2, 3, 4} /\ width \in {2, 3} /\ M \in SUBSET Nat /\ Max(M) = width
        /\ wingWidth \in {3, 7}
    BY <2>1 DEF Dimensions
  <2>. QED  BY <2>2
<1>2. /\ column \in 0..wingWidth - 1 /\ column + 1 \in 0..wingWidth - 1 /\ column \in Nat
  BY <1>1
<1>3. c \in LabelsOf(width) /\ d \in LabelsOf(width) /\ d = TimesX(c, M) /\ Labels = LabelsOf(k)
  BY <1>2, ColumnsOneWay, Powers, FirstColumn
<1>4. mapPermutationLayerId(l) = L /\ L \in SUBSET Nat /\ x = Plus(L, PointAt(r, c)) /\ x \in SUBSET Nat
  <2>1. \A a, b, e : At(a, b, e) \in SUBSET Nat
    BY DEF At, Spot
  <2>2. mapPermutationLayerId(l) = At({}, {}, Bits(l))
    BY LayerId
  <2>3. At(r, c, Bits(l)) = Plus(At({}, {}, Bits(l)), PointAt(r, c))
    BY LayerId
  <2>. QED  BY <2>1, <2>2, <2>3
<1>5. r \in SUBSET Nat /\ c \in SUBSET Nat
  BY <1>1, <1>3 DEF LabelsOf
<1>. HIDE DEF L, M
<1>6. getFixByCoset(coset) = Plus(F, G)
  BY DEF getFixByCoset, fixRowIdCarry, fixColumnIdCarry, M
<1>7. \A a \in LabelsOf(k), b \in LabelsOf(width) : PointAt(a, b) = Plus(a, Shift(b, height))
  <2>. SUFFICES ASSUME NEW a \in LabelsOf(k), NEW b \in LabelsOf(width) PROVE PointAt(a, b) = Plus(a, Shift(b, height))
    OBVIOUS
  <2>1. At(a, {}, {}) = a
    BY RowSpots
  <2>2. At({}, b, {}) = Shift(b, height)
    BY <1>1, SpotParts DEF At
  <2>3. Plus(At(a, {}, {}), At({}, b, {})) = At(Plus(a, {}), Plus({}, b), Plus({}, {}))
    BY RowSpots
  <2>4. \A y : Plus({}, y) = y /\ Plus(y, {}) = y
    BY RowSpots
  <2>. QED  BY <2>1, <2>2, <2>3, <2>4 DEF PointAt
<1>8. Shift(x, 1) = Plus(Plus(Shift(r, 1), Shift(Shift(c, 1), height)), Shift(L, 1))
  <2>1. PointAt(r, c) = Plus(r, Shift(c, height))
    BY <1>3, <1>7
  <2>2. Shift(c, height) \in SUBSET Nat /\ Shift(Shift(c, height), 1) = Shift(Shift(c, 1), height)
    BY <1>1, <1>5, ShiftSums
  <2>3. Plus(r, Shift(c, height)) \in SUBSET Nat
    BY <1>5, <2>2, Moves
  <2>4. Shift(Plus(r, Shift(c, height)), 1) = Plus(Shift(r, 1), Shift(Shift(c, 1), height))
    BY <1>5, <2>2, Moves
  <2>5. Shift(Plus(L, Plus(r, Shift(c, height))), 1) = Plus(Shift(L, 1), Shift(Plus(r, Shift(c, height)), 1))
    BY <1>4, <2>3, Moves
  <2>6. \A y, z : Plus(y, z) = Plus(z, y)
    BY RowSpots
  <2>. QED  BY <1>4, <2>1, <2>4, <2>5, <2>6
<1>9. Plus(Shift(Shift(c, 1), height), F) = Shift(d, height)
  <2>1. Plus(Shift(c, 1), IF coset \in {1, 3} THEN M ELSE {}) = d
    BY <1>1, <1>3, <1>5, ColumnTurned
  <2>2. Shift({}, height) = {}
    BY DEF Shift
  <2>3. F = Shift(IF coset \in {1, 3} THEN M ELSE {}, height)
    BY <2>2
  <2>4. Shift(c, 1) \in SUBSET Nat /\ (IF coset \in {1, 3} THEN M ELSE {}) \in SUBSET Nat
    BY <1>1, <1>5, Moves
  <2>. QED  BY <1>1, <2>1, <2>3, <2>4, ShiftSums
<1>10. Plus(Plus(Shift(r, 1), G), EdgeBit(n)) = EdgeEnd(n, r) /\ EdgeEnd(n, r) \in LabelsOf(k)
  <2>1. /\ Plus(Shift(r, 1), G) = RotL(r, 1, k)
        /\ Plus(RotL(r, 1, k), {1}) = RotL(Plus(r, {0}), 1, k)
        /\ RotL(r, 1, k) \in LabelsOf(k) /\ RotL(Plus(r, {0}), 1, k) \in LabelsOf(k)
    BY <1>1, <1>3, RowTurned
  <2>2. Plus(RotL(r, 1, k), {}) = RotL(r, 1, k)
    BY RowSpots
  <2>. QED  BY <2>1, <2>2 DEF EdgeEnd, EdgeBit, Neighbor0, Neighbor1
<1>11. Apply(DeBruijn(n, coset, l).poly, x) = Plus(Shift(x, 1), Plus(Plus(F, G), Plus(EdgeBit(n), Shift(L, 1))))
  <2>. HIDE DEF x, F, G
  <2>2. Apply(DeBruijn(n, coset, l).poly, x)
          = Plus(Shift(x, 1), Plus(getFixByCoset(coset), Plus(EdgeBit(n), Shift(L, 1))))
    BY <1>4, EdgePoly
  <2>. QED  BY <2>2, <1>6
<1>. HIDE DEF x, c, d, F, G
<1>12. Apply(DeBruijn(n, coset, l).poly, x)
         = Plus(Plus(Plus(Shift(r, 1), G), EdgeBit(n)), Plus(Shift(Shift(c, 1), height), F))
  BY <1>8, <1>11, SevenSums
<1>13. Apply(DeBruijn(n, coset, l).poly, x) = PointAt(EdgeEnd(n, r), d)
  BY <1>3, <1>7, <1>9, <1>10, <1>12
<1>. QED  BY <1>3, <1>10, <1>13 DEF x, c, d

\* The coset a node of a layer is in tells its carries.
LEMMA CosetCarries ==
    ASSUME Common, hasRoutingNetwork, NEW l \in NetworkLayers_, NEW coset \in 0..3,
           NEW e \in SUBSET neighborsPairBasis, NEW x,
           x = Plus(Plus(DeBruijnCoset(coset), mapPermutationLayerId(l)), e)
    PROVE  /\ \E f \in SUBSET layersBasis : x = Plus(mapPermutationLayerId(l), f)
           /\ \A r, c : x = At(r, c, Bits(l)) => /\ height - 1 \in r <=> coset \in {2, 3}
                                                 /\ width - 1 \in c <=> coset \in {1, 3}
<1>. DEFINE D == DeBruijnCoset(coset)
            L == mapPermutationLayerId(l)
            a == height + width - 1
            b == height - 1
<1>1. height \in Nat /\ height >= 2 /\ width \in Nat /\ width > 0
  <2>1. Dimensions
    BY Dimensioned
  <2>2. height = k /\ k \in {2, 3, 4} /\ width \in {2, 3}
    BY <2>1 DEF Dimensions
  <2>. QED  BY <2>2
<1>2. /\ a \in Nat /\ b \in Nat /\ a # b /\ a \in 0..height + width - 1 /\ b \in 0..height + width - 1
      /\ b < height /\ ~(a < height) /\ a < height + width /\ a - height = width - 1
  BY <1>1
<1>3. indicatorBits[1] = a /\ indicatorBits[2] = b
  BY DEF indicatorBits
<1>4. L = At({}, {}, Bits(l))
  BY LayerId
<1>5. a \notin L /\ b \notin L
  BY <1>2, <1>4 DEF At, Spot
<1>. HIDE DEF a, b, L
<1>6. \A y : y \in D <=> (coset \in {1, 3} /\ y = a) \/ (coset \in {2, 3} /\ y = b)
  BY <1>3 DEF DeBruijnCoset
<1>7. a \notin e /\ b \notin e /\ e \subseteq layersBasis
  BY <1>3 DEF neighborsPairBasis
<1>. HIDE DEF D
<1>8. \A y : y \in x <=> y \in Plus(Plus(D, L), e)
  BY DEF D, L
<1>9. (a \in x <=> coset \in {1, 3}) /\ (b \in x <=> coset \in {2, 3})
  <2>1. (a \in D <=> coset \in {1, 3}) /\ (b \in D <=> coset \in {2, 3})
    BY <1>2, <1>6
  <2>2. (a \in Plus(Plus(D, L), e) <=> a \in D) /\ (b \in Plus(Plus(D, L), e) <=> b \in D)
    BY <1>5, <1>7 DEF Plus, SymDiff
  <2>. QED  BY <2>1, <2>2, <1>8
<1>10. \E f \in SUBSET layersBasis : x = Plus(L, f)
  <2>1. D \subseteq layersBasis
    BY <1>2, <1>6 DEF layersBasis
  <2>2. \A y \in Plus(D, e) : y \in D \/ y \in e
    BY DEF Plus, SymDiff
  <2>3. Plus(D, e) \in SUBSET layersBasis
    BY <2>1, <2>2, <1>7
  <2>4. Plus(Plus(D, L), e) = Plus(L, Plus(D, e))
    <3>1. \A y : y \in Plus(Plus(D, L), e) <=> y \in Plus(L, Plus(D, e))
      BY DEF Plus, SymDiff
    <3>. QED  BY <3>1
  <2>5. x = Plus(L, Plus(D, e))
    BY <2>4 DEF D, L
  <2>. QED  BY <2>3, <2>5
<1>11. ASSUME NEW r, NEW c, x = At(r, c, Bits(l)) PROVE (b \in x <=> b \in r) /\ (a \in x <=> a - height \in c)
  BY <1>2, <1>11 DEF At, Spot
<1>12. \A r, c : x = At(r, c, Bits(l)) => (b \in r <=> coset \in {2, 3}) /\ (a - height \in c <=> coset \in {1, 3})
  BY <1>9, <1>11
<1>13. a - height = width - 1
  BY <1>2
<1>. QED  BY <1>10, <1>12, <1>13 DEF L, b

\* Every node holds what the node of the previous column sends it.
LEMMA DeBruijnHolds ==
    ASSUME Common, Laid, Carried, hasRoutingNetwork, NEW s \in DeBruijnChecks, NEW x \in Tested(s)
    PROVE  Holds(s, x)
<1>1. PICK l \in 0..2 * Len(variablesPerm) - 1, coset \in 0..3 :
         /\ s.space = neighborsPairBasis /\ s.shift = Plus(DeBruijnCoset(coset), mapPermutationLayerId(l))
         /\ s.aux = noNextColumn(l) /\ s.kind = "DeBruijn"
         /\ s.of = <<Id(l), DeBruijn(0, coset, l), DeBruijn(1, coset, l), RoutingBit(l)>>
  BY DEF DeBruijnChecks
<1>. DEFINE wing == l % 2
            m == 2 * Len(variablesPerm) + (l % 2)
            v == variablesPerm[l \div 2 + 1]
<1>2. l \in NetworkLayers_ /\ wing \in {0, 1} /\ m \in NetworkLayers_
  BY PacketLayer
<1>3. PICK e \in SUBSET neighborsPairBasis : x = Plus(Plus(DeBruijnCoset(coset), mapPermutationLayerId(l)), e)
  BY <1>1 DEF Tested, Coset
<1>4. \A a \in noNextColumn(l) : ~ InCoset(x, a[1], a[2])
  BY <1>1 DEF Tested
<1>5. PICK f \in SUBSET layersBasis : x = Plus(mapPermutationLayerId(l), f)
  BY <1>2, <1>3, CosetCarries
<1>6. PICK r \in Labels, column \in 0..wingWidth - 2 : x = At(r, PowerOfX(column, columnsModulus), Bits(l))
  BY <1>2, <1>4, <1>5, NodePoint
<1>7. /\ height - 1 \in r <=> coset \in {2, 3}
      /\ width - 1 \in PowerOfX(column, columnsModulus) <=> coset \in {1, 3}
  <2>. DEFINE c == PowerOfX(column, columnsModulus)
  <2>1. x = At(r, c, Bits(l))
    BY <1>6
  <2>. HIDE DEF c
  <2>2. (height - 1 \in r <=> coset \in {2, 3}) /\ (width - 1 \in c <=> coset \in {1, 3})
    <3>1. \A a, b : x = At(a, b, Bits(l)) => /\ height - 1 \in a <=> coset \in {2, 3}
                                             /\ width - 1 \in b <=> coset \in {1, 3}
      BY <1>2, <1>3, CosetCarries
    <3>. QED  BY <2>1, <3>1
  <2>. QED  BY <2>2 DEF c
<1>8. column \in 0..wingWidth - 1 /\ column + 1 \in 0..wingWidth - 1
  BY Sizes
<1>. DEFINE c == PowerOfX(column, columnsModulus)
            next == PowerOfX(column + 1, columnsModulus)
            here == getDataID(wing, column, r)
            there0 == getDataID(wing, column + 1, Neighbor0(r))
            there1 == getDataID(wing, column + 1, Neighbor1(r))
            bit == routingBit(wing, column, r)
<1>9. /\ DeBruijn(0, coset, l).layer = Bits(l) /\ DeBruijn(1, coset, l).layer = Bits(l)
      /\ Apply(DeBruijn(0, coset, l).poly, x) = PointAt(Neighbor0(r), next) /\ Neighbor0(r) \in Labels
      /\ Apply(DeBruijn(1, coset, l).poly, x) = PointAt(Neighbor1(r), next) /\ Neighbor1(r) \in Labels
  <2>1. DeBruijn(0, coset, l).layer = Bits(l) /\ DeBruijn(1, coset, l).layer = Bits(l)
    BY DEF DeBruijn, Neighbor
  <2>2. \A n \in {0, 1} : /\ Apply(DeBruijn(n, coset, l).poly, At(r, c, Bits(l))) = PointAt(EdgeEnd(n, r), next)
                          /\ EdgeEnd(n, r) \in Labels
    BY <1>2, <1>7, EdgePoint
  <2>3. EdgeEnd(0, r) = Neighbor0(r) /\ EdgeEnd(1, r) = Neighbor1(r)
    BY DEF EdgeEnd
  <2>4. x = At(r, c, Bits(l))
    BY <1>6
  <2>. HIDE DEF next, c
  <2>5. \A n \in {0, 1} : Apply(DeBruijn(n, coset, l).poly, x) = PointAt(EdgeEnd(n, r), next) /\ EdgeEnd(n, r) \in Labels
    BY <2>2, <2>4
  <2>6. /\ Apply(DeBruijn(0, coset, l).poly, x) = PointAt(EdgeEnd(0, r), next) /\ EdgeEnd(0, r) \in Labels
        /\ Apply(DeBruijn(1, coset, l).poly, x) = PointAt(EdgeEnd(1, r), next) /\ EdgeEnd(1, r) \in Labels
    BY <2>5
  <2>. QED  BY <2>1, <2>3, <2>6
<1>10. /\ Holding(mapping, Bits(l), PointAt(r, c), PacketValue(here, v))
       /\ Holding(mapping, Bits(l), PointAt(Neighbor0(r), next), PacketValue(there0, v))
       /\ Holding(mapping, Bits(l), PointAt(Neighbor1(r), next), PacketValue(there1, v))
  BY <1>8, <1>9, PacketRead
<1>11. Holding(mapping, Bits(m), PointAt(r, c), <<"bit", bit>>)
  BY <1>2, BitRead
<1>12. here = IF bit = 1 THEN there1 ELSE there0
  <2>. DEFINE held == [g \in {0, 1} |-> [d \in 0..wingWidth - 1 |-> [w \in Labels |-> getDataID(g, d, w)]]]
  <2>1. held[wing][column][r] = held[wing][column + 1][IF bit = 1 THEN Neighbor1(r) ELSE Neighbor0(r)]
    BY <1>2 DEF Carried, Delivers
  <2>2. /\ held[wing][column][r] = here /\ held[wing][column + 1][Neighbor1(r)] = there1
        /\ held[wing][column + 1][Neighbor0(r)] = there0
    BY <1>2, <1>8, <1>9
  <2>. HIDE DEF held, here, there0, there1, bit
  <2>. QED  BY <2>1, <2>2
<1>13. RoutingBit(l) = Neighbor(Bits(m), moveToZeroLayer(l))
  BY DEF RoutingBit
<1>. HIDE DEF c, next, here, there0, there1, bit, v, m, wing
<1>14. /\ Read(Id(l), x) = PacketValue(here, v)
       /\ Read(RoutingBit(l), x) = <<"bit", bit>>
  <2>1. x = At(r, c, Bits(l))
    BY <1>6 DEF c
  <2>. QED  BY <2>1, <1>2, <1>10, <1>11, <1>13, NodeRead DEF Id
<1>15. Read(DeBruijn(0, coset, l), x) = PacketValue(there0, v)
  BY <1>9, <1>10, HoldingRead
<1>16. Read(DeBruijn(1, coset, l), x) = PacketValue(there1, v)
  BY <1>9, <1>10, HoldingRead
<1>. DEFINE got == [i \in DOMAIN s.of |-> Read(s.of[i], x)]
<1>17. got[1] = PacketValue(here, v) /\ got[2] = PacketValue(there0, v) /\ got[3] = PacketValue(there1, v) /\ got[4] = <<"bit", bit>>
  BY <1>1, <1>14, <1>15, <1>16
<1>18. <<"bit", bit>> = <<"bit", 1>> <=> bit = 1
  OBVIOUS
<1>. HIDE DEF got
<1>19. got[1] = IF got[4] = <<"bit", 1>> THEN got[3] ELSE got[2]
  BY <1>12, <1>17, <1>18
<1>. QED  BY <1>1, <1>19 DEF Holds, got

\* Together: a network laid out as above passes every test.
LEMMA RoutingFromLaid ==
    ASSUME Common, Laid, Carried
    PROVE  RoutingHolds
<1>. SUFFICES ASSUME NEW s \in RoutingChecks, NEW x \in Tested(s) PROVE Holds(s, x)
  BY DEF RoutingHolds
<1>1. hasRoutingNetwork /\ s \in BitChecks \cup LastColumnChecks \cup PaddingChecks \cup DeBruijnChecks
  BY DEF RoutingChecks
<1>2. CASE s \in BitChecks
  BY <1>1, <1>2, BitsHold
<1>3. CASE s \in LastColumnChecks
  BY <1>1, <1>3, LastColumnHolds
<1>4. CASE s \in PaddingChecks
  BY <1>1, <1>4, PaddingHolds
<1>5. CASE s \in DeBruijnChecks
  BY <1>1, <1>5, DeBruijnHolds
<1>. QED  BY <1>1, <1>2, <1>3, <1>4, <1>5

\* Completeness of the routing tests: the network mapNetwork writes for any permutation
\* passes every test constraints.cpp makes of it, in all four cosets of carries.
THEOREM RoutingTested == Spec => []RoutingHolds
<1>1. ReductionInv /\ Delivers => RoutingHolds
  <2>. SUFFICES ASSUME ReductionInv, Delivers PROVE RoutingHolds
    OBVIOUS
  <2>1. CASE stage = "done"
    BY <2>1, DoneFacts, RoutingFromLaid
  <2>2. CASE stage # "done"
    BY <2>2 DEF RoutingHolds
  <2>. QED  BY <2>1, <2>2
<1>. QED  BY <1>1, ReductionInvariant, Delivery, PTL

-----------------------------------------------------------------------------
(* The space everything is in. *)

\* A number has a logarithm, ...
LEMMA CeilLog2Bounds ==
    ASSUME NEW n \in Nat
    PROVE  CeilLog2(n) \in Nat /\ 2^CeilLog2(n) >= n
<1>. DEFINE S == {d \in Nat : 2^d >= n}
<1>1. n \in S
  BY BelowPower, PowerPositive
<1>2. PICK d \in S : \A e \in S : d <= e
  BY <1>1, LeastNatural
<1>3. d \in 0..n /\ 2^d >= n
  BY <1>1, <1>2
<1>4. d = 0 \/ 2^(d - 1) < n
  <2>. SUFFICES ASSUME d # 0, ~(2^(d - 1) < n) PROVE FALSE
    OBVIOUS
  <2>1. d - 1 \in Nat /\ 2^(d - 1) \in Nat
    BY PowerPositive
  <2>2. d - 1 \in S
    BY <2>1, <1>3
  <2>3. d \in Nat
    BY <1>3
  <2>. HIDE DEF S
  <2>4. d <= d - 1
    BY <1>2, <2>2
  <2>. QED  BY <2>3, <2>4
<1>. HIDE DEF S
<1>5. \E e \in 0..n : 2^e >= n /\ (e = 0 \/ 2^(e - 1) < n)
  BY <1>3, <1>4
<1>6. CeilLog2(n) \in 0..n /\ 2^CeilLog2(n) >= n
  BY <1>5 DEF CeilLog2
<1>. QED  BY <1>6

\* ... and a number below 2^d no bit from d on.
LEMMA FewBits ==
    ASSUME NEW d \in Nat, NEW j \in Nat, j < 2^d
    PROVE  Bits(j) \subseteq 0..d - 1
<1>. SUFFICES ASSUME NEW b \in Bits(j) PROVE b \in 0..d - 1
  OBVIOUS
<1>1. b \in Nat /\ (j \div 2^b) % 2 = 1
  BY DEF Bits
<1>. SUFFICES ASSUME b >= d PROVE FALSE
  BY <1>1
<1>2. 2^d <= 2^b /\ 2^d \in Nat /\ 2^b \in Nat /\ 2^b > 0
  BY <1>1, PowerMonotone, PowerPositive
<1>3. j = 2^b * 0 + j /\ j \in 0..2^b - 1
  BY <1>2
<1>4. j \div 2^b = 0
  BY <1>2, <1>3, QuotientUnique
<1>5. 0 % 2 = 1
  BY <1>1, <1>4
<1>. QED  BY <1>5

\* Layers of the network and of the tests are below 2^vanishingLayers.
LEMMA LayersFit ==
    ASSUME Common
    PROVE  /\ vanishingLayers \in Nat
           /\ \A l \in NetworkLayers_ : Bits(l) \subseteq 0..vanishingLayers - 1
           /\ \A test \in {0, 1} : LayerOf(test) \subseteq 0..vanishingLayers - 1
<1>. DEFINE a == amountOfPermutationLayers
            i == imageWidth
            n == a + CeilDiv(2, i)
<1>1. Dimensions
  BY Dimensioned
<1>2. width \in {0, 2, 3} /\ i = 2^width /\ (width = 0 => a = 0) /\ a \in Nat
  <2>1. width \in {0, 2, 3} /\ i = 2^width /\ a \in 0..2 * (1 + 2^20)
    BY <1>1 DEF Dimensions
  <2>2. width = 0 => a = 0
    BY <1>1 DEF Dimensions
  <2>3. 2^20 \in Nat
    OBVIOUS
  <2>4. a \in Nat
    BY <2>1, <2>3
  <2>. QED  BY <2>1, <2>2, <2>4
<1>3. 2^0 = 1 /\ 2^2 = 4 /\ 2^3 = 8
  OBVIOUS
<1>. HIDE DEF a, i
<1>4. n \in Nat /\ a < n /\ \A test \in {0, 1} : a + (test \div i) < n
  <2>1. CASE width = 0
    <3>1. i = 1 /\ a = 0
      BY <1>2, <1>3, <2>1
    <3>2. CeilDiv(2, i) = 2
      BY <3>1 DEF CeilDiv
    <3>. QED  BY <3>1, <3>2
  <2>2. CASE width = 2
    <3>1. i = 4
      BY <1>2, <1>3, <2>2
    <3>2. CeilDiv(2, i) = 1
      BY <3>1 DEF CeilDiv
    <3>3. 0 \div 4 = 0 /\ 1 \div 4 = 0
      OBVIOUS
    <3>. QED  BY <1>2, <3>1, <3>2, <3>3
  <2>3. CASE width = 3
    <3>1. i = 8
      BY <1>2, <1>3, <2>3
    <3>2. CeilDiv(2, i) = 1
      BY <3>1 DEF CeilDiv
    <3>3. 0 \div 8 = 0 /\ 1 \div 8 = 0
      OBVIOUS
    <3>. QED  BY <1>2, <3>1, <3>2, <3>3
  <2>. QED  BY <1>2, <2>1, <2>2, <2>3
<1>5. vanishingLayers = CeilLog2(n)
  BY DEF vanishingLayers, a, i
<1>. HIDE DEF n
<1>6. vanishingLayers \in Nat /\ 2^vanishingLayers >= n /\ 2^vanishingLayers \in Nat
  BY <1>4, <1>5, CeilLog2Bounds, PowerPositive
<1>7. ASSUME NEW l \in NetworkLayers_ PROVE Bits(l) \subseteq 0..vanishingLayers - 1
  <2>1. l \in Nat /\ l < a
    BY <1>2 DEF NetworkLayers_, a
  <2>2. l < 2^vanishingLayers
    BY <2>1, <1>2, <1>4, <1>6
  <2>. QED  BY <2>1, <2>2, <1>6, FewBits
<1>8. ASSUME NEW test \in {0, 1} PROVE LayerOf(test) \subseteq 0..vanishingLayers - 1
  <2>1. Number(test) = i * a + test
    BY DEF Number, a, i
  <2>2. i \in Nat /\ i > 0 /\ test \in Nat
    <3>1. CASE width = 0
      BY <1>2, <1>3, <3>1
    <3>2. CASE width = 2
      BY <1>2, <1>3, <3>2
    <3>3. CASE width = 3
      BY <1>2, <1>3, <3>3
    <3>. QED  BY <1>2, <3>1, <3>2, <3>3
  <2>3. Number(test) \div 2^width = a + (test \div i) /\ test \div i \in Nat
    BY <1>2, <2>1, <2>2, QuotientOfSum, Quotient
  <2>. DEFINE j == Number(test) \div 2^width
  <2>4. j \in Nat /\ j < 2^vanishingLayers
    BY <1>2, <1>4, <1>6, <2>3
  <2>. HIDE DEF j
  <2>5. Bits(j) \subseteq 0..vanishingLayers - 1
    BY <2>4, <1>6, FewBits
  <2>. QED  BY <2>5 DEF LayerOf, j
<1>. QED  BY <1>6, <1>7, <1>8

\* A place with such a layer is in the space.
LEMMA SpotFits ==
    ASSUME Common, NEW r, NEW c, NEW l \in SUBSET (0..vanishingLayers - 1)
    PROVE  At(r, c, l) \subseteq vanishingSpace
<1>1. height \in Nat /\ width \in Nat /\ vanishingLayers \in Nat
  BY Sizes, LayersFit
<1>2. ASSUME NEW b \in At(r, c, l) PROVE b \in vanishingSpace
  <2>1. b \in Nat /\ (~(b < height) /\ ~(b < height + width) => b - (height + width) \in l)
    BY DEF At, Spot
  <2>2. ~(b < height) /\ ~(b < height + width) => b - (height + width) \in 0..vanishingLayers - 1
    BY <2>1
  <2>. QED  BY <1>1, <2>1, <2>2 DEF vanishingSpace
<1>. QED  BY <1>2

-----------------------------------------------------------------------------
(* The last row is the one before x^0. *)
lastPlace == {b - 1 : b \in rowsModulus \ {0}}

\* ... as the label that carries to x^0.
LEMMA LastPlace ==
    ASSUME Common
    PROVE  /\ lastPlace = exponents[domainSize - 1] /\ lastPlace \in LabelsOf(k) /\ k - 1 \in lastPlace
           /\ domainSize - 1 \in VectorIds /\ domainSize \in Nat /\ domainSize > 2
<1>1. /\ k \in {2, 3, 4} /\ domainSize \in {3, 7, 15} /\ Max(rowsModulus) = k
  <2>1. Dimensions
    BY Dimensioned
  <2>. QED  BY <2>1 DEF Dimensions
<1>2. 0 \in rowsModulus /\ k \in rowsModulus /\ rowsModulus \subseteq 0..k
  <2>1. rowsModulus = findPrimitive(k)
    BY Sizes DEF rowsModulus
  <2>2. CASE k = 2
    <3>1. rowsModulus = {0, 1, 2}
      BY <2>1, <2>2 DEF findPrimitive
    <3>. QED  BY <3>1, <2>2
  <2>3. CASE k = 3
    <3>1. rowsModulus = {0, 1, 3}
      BY <2>1, <2>3 DEF findPrimitive
    <3>. QED  BY <3>1, <2>3
  <2>4. CASE k = 4
    <3>1. rowsModulus = {0, 1, 4}
      BY <2>1, <2>4 DEF findPrimitive
    <3>. QED  BY <3>1, <2>4
  <2>. QED  BY <1>1, <2>2, <2>3, <2>4
<1>3. lastPlace \in LabelsOf(k) /\ k - 1 \in lastPlace
  <2>1. \A b \in rowsModulus \ {0} : b - 1 \in 0..k - 1
    BY <1>1, <1>2
  <2>2. k \in rowsModulus \ {0}
    BY <1>1, <1>2
  <2>. QED  BY <2>1, <2>2 DEF lastPlace, LabelsOf
<1>4. TimesX(lastPlace, rowsModulus) = {0}
  <2>1. Shift(lastPlace, 1) = rowsModulus \ {0}
    <3>1. \A b \in rowsModulus \ {0} : (b - 1) + 1 = b
      BY <1>1, <1>2
    <3>2. \A y : y \in Shift(lastPlace, 1) <=> \E b \in rowsModulus \ {0} : y = (b - 1) + 1
      BY DEF Shift, lastPlace
    <3>. QED  BY <3>1, <3>2
  <2>2. k \in Shift(lastPlace, 1)
    BY <1>1, <1>2, <2>1
  <2>3. Plus(rowsModulus \ {0}, rowsModulus) = {0}
    BY <1>2 DEF Plus, SymDiff
  <2>. QED  BY <1>1, <2>1, <2>2, <2>3 DEF TimesX
<1>5. PICK m \in 0..domainSize : exponents[m] = lastPlace
  BY <1>3, RowPlaces
<1>6. m # domainSize
  BY <1>3, <1>5, RowPlaces
<1>7. ~(m < domainSize - 1)
  <2>. SUFFICES ASSUME m < domainSize - 1 PROVE FALSE
    OBVIOUS
  <2>1. m \in VectorIds /\ m + 1 \in VectorIds /\ 0 \in VectorIds /\ m \in Nat /\ m + 1 \in 0..domainSize /\ 0 \in 0..domainSize
    BY <1>1 DEF VectorIds
  <2>2. exponents[m] = PowerOfX(m, rowsModulus) /\ exponents[m + 1] = PowerOfX(m + 1, rowsModulus)
        /\ exponents[0] = PowerOfX(0, rowsModulus)
    BY <2>1, RowPlaces
  <2>3. PowerOfX(m + 1, rowsModulus) = TimesX(PowerOfX(m, rowsModulus), rowsModulus)
        /\ PowerOfX(0, rowsModulus) = {0}
    BY <2>1, Powers
  <2>5. exponents[m + 1] = exponents[0]
    BY <2>2, <2>3, <1>4, <1>5
  <2>6. m + 1 = 0
    BY <2>1, <2>5, RowPlaces
  <2>. QED  BY <2>1, <2>6
<1>8. m = domainSize - 1
  BY <1>1, <1>6, <1>7
<1>9. domainSize - 1 \in VectorIds
  BY <1>1 DEF VectorIds
<1>. QED  BY <1>1, <1>3, <1>5, <1>8, <1>9

\* A label that is neither no row nor the last one is a row that is tested.
LEMMA TestedRow ==
    ASSUME Common
    PROVE  /\ \A r \in LabelsOf(k) : r # {} /\ r # lastPlace => \E n \in TestedRows : r = exponents[n]
           /\ \A n \in TestedRows : /\ n \in VectorIds /\ exponents[n] \in LabelsOf(k)
                                    /\ exponents[n] # {} /\ exponents[n] # lastPlace
<1>1. domainSize \in Nat /\ domainSize > 2 /\ VectorIds = 0..domainSize - 1
  BY LastPlace, RowPlaces
<1>2. ASSUME NEW r \in LabelsOf(k), r # {}, r # lastPlace PROVE \E n \in TestedRows : r = exponents[n]
  <2>1. logarithm(r) \in 0..domainSize /\ exponents[logarithm(r)] = r
    BY RowPlaces
  <2>2. logarithm(r) # domainSize /\ logarithm(r) # domainSize - 1
    BY <2>1, <1>2, RowPlaces, LastPlace
  <2>3. logarithm(r) \in 0..domainSize - 2
    BY <1>1, <2>1, <2>2
  <2>. QED  BY <2>1, <2>3 DEF TestedRows
<1>3. ASSUME NEW n \in TestedRows
      PROVE  n \in VectorIds /\ exponents[n] \in LabelsOf(k) /\ exponents[n] # {} /\ exponents[n] # lastPlace
  <2>1. n \in VectorIds /\ n \in 0..domainSize /\ n # domainSize /\ n # domainSize - 1
        /\ domainSize \in 0..domainSize /\ domainSize - 1 \in 0..domainSize
    BY <1>1 DEF TestedRows
  <2>. QED  BY <2>1, RowPlaces, LastPlace
<1>. QED  BY <1>2, <1>3

\* Where the test of a kind is made for the row at r.
PlaceOfRow(r, test) == At(r, ColumnOf(test), LayerOf(test))

\* Moving a test to a row, and what is left of two of them.
LEMMA RowAts ==
    ASSUME Common, NEW test \in {0, 1}
    PROVE  /\ \A r \in LabelsOf(k) : Plus(r, TestPlace(test)) = PlaceOfRow(r, test)
           /\ \A r, q : Plus(PlaceOfRow(r, test), PlaceOfRow(q, test)) = At(Plus(r, q), {}, {})
           /\ \A n \in VectorIds : RowPoint(n, test) = PlaceOfRow(exponents[n], test)
           /\ TestPlace(test) = PlaceOfRow({}, test)
<1>1. TestPlace(test) = PlaceOfRow({}, test)
  BY TestPlaces DEF PlaceOfRow
<1>2. ASSUME NEW r \in LabelsOf(k) PROVE Plus(r, TestPlace(test)) = PlaceOfRow(r, test)
  <2>1. r = At(r, {}, {}) /\ \A x : Plus({}, x) = x /\ Plus(x, {}) = x
    BY RowSpots
  <2>2. Plus(At(r, {}, {}), PlaceOfRow({}, test)) = At(Plus(r, {}), Plus({}, ColumnOf(test)), Plus({}, LayerOf(test)))
    BY RowSpots DEF PlaceOfRow
  <2>. QED  BY <1>1, <2>1, <2>2 DEF PlaceOfRow
<1>3. ASSUME NEW r, NEW q PROVE Plus(PlaceOfRow(r, test), PlaceOfRow(q, test)) = At(Plus(r, q), {}, {})
  <2>1. \A x : Plus(x, x) = {}
    BY RowSpots
  <2>2. Plus(PlaceOfRow(r, test), PlaceOfRow(q, test))
          = At(Plus(r, q), Plus(ColumnOf(test), ColumnOf(test)), Plus(LayerOf(test), LayerOf(test)))
    BY RowSpots DEF PlaceOfRow
  <2>. QED  BY <2>1, <2>2
<1>4. ASSUME NEW n \in VectorIds PROVE RowPoint(n, test) = PlaceOfRow(exponents[n], test)
  BY <1>2, RowFacts DEF RowPoint, TestPlace
<1>. QED  BY <1>1, <1>2, <1>3, <1>4

\* Two rows' places differ by a label; the differences that decide what is tested.
LEMMA RowDifferences ==
    ASSUME Common, NEW test \in {0, 1}, NEW r \in LabelsOf(k), NEW q \in LabelsOf(k)
    PROVE  /\ Plus(r, q) \in LabelsOf(k)
           /\ Plus(PlaceOfRow(r, test), PlaceOfRow(q, test)) = Plus(r, q)
           /\ InCoset(PlaceOfRow(r, test), {}, PlaceOfRow(q, test)) <=> r = q
<1>1. Plus(r, q) \in LabelsOf(k)
  BY DEF LabelsOf, Plus, SymDiff
<1>2. At(Plus(r, q), {}, {}) = Plus(r, q)
  BY <1>1, RowSpots
<1>3. Plus(PlaceOfRow(r, test), PlaceOfRow(q, test)) = At(Plus(r, q), {}, {})
  BY RowAts
<1>4. Plus(PlaceOfRow(r, test), PlaceOfRow(q, test)) = Plus(r, q)
  BY <1>2, <1>3
<1>5. Plus(r, q) \subseteq {} <=> r = q
  <2>1. Plus(r, q) \subseteq {} => r = q
    <3>. SUFFICES ASSUME Plus(r, q) \subseteq {} PROVE \A b : b \in r <=> b \in q
      OBVIOUS
    <3>. QED  BY DEF Plus, SymDiff
  <2>2. r = q => Plus(r, q) = {}
    BY RowSpots
  <2>. QED  BY <2>1, <2>2
<1>. QED  BY <1>1, <1>4, <1>5 DEF InCoset

\* The rows the aux vanishing polynomials of the system's tests leave out.
LEMMA LeftOut ==
    ASSUME Common, NEW test \in {0, 1}, NEW r \in LabelsOf(k)
    PROVE  /\ InCoset(PlaceOfRow(r, test), zeroRow(test)[1], zeroRow(test)[2]) <=> r = {}
           /\ InCoset(PlaceOfRow(r, test), lastRow(test)[1], lastRow(test)[2]) <=> r = lastPlace
           /\ zeroRow(test)[1] = {} /\ zeroRow(test)[2] = PlaceOfRow({}, test)
           /\ lastRow(test)[1] = {} /\ lastRow(test)[2] = PlaceOfRow(lastPlace, test)
<1>1. {} \in LabelsOf(k) /\ lastPlace \in LabelsOf(k)
  BY LastPlace DEF LabelsOf
<1>2. zeroRow(test)[1] = {} /\ zeroRow(test)[2] = PlaceOfRow({}, test)
  BY RowAts DEF zeroRow, TestPlace
<1>3. lastRow(test)[1] = {} /\ lastRow(test)[2] = PlaceOfRow(lastPlace, test)
  <2>1. lastRow(test)[2] = Plus(TestPlace(test), lastPlace)
    BY DEF lastRow, mapNonPermutation_lastRow, TestPlace, lastPlace
  <2>2. Plus(TestPlace(test), lastPlace) = Plus(lastPlace, TestPlace(test))
    BY RowSpots
  <2>3. Plus(lastPlace, TestPlace(test)) = PlaceOfRow(lastPlace, test)
    BY <1>1, RowAts
  <2>. QED  BY <2>1, <2>2, <2>3 DEF lastRow
<1>4. \A q \in LabelsOf(k) : InCoset(PlaceOfRow(r, test), {}, PlaceOfRow(q, test)) <=> r = q
  BY RowDifferences
<1>5. /\ InCoset(PlaceOfRow(r, test), {}, PlaceOfRow({}, test)) <=> r = {}
      /\ InCoset(PlaceOfRow(r, test), {}, PlaceOfRow(lastPlace, test)) <=> r = lastPlace
  BY <1>1, <1>4
<1>. QED  BY <1>2, <1>3, <1>5

-----------------------------------------------------------------------------
(* What the permutation's test and the halves of the assignment's test. *)
carryShift(withCarry) == IF withCarry THEN {height - 1} ELSE {}

\* Of the rows' places, those in the coset of a half.
LEMMA HalfCoset ==
    ASSUME Common, NEW withCarry \in BOOLEAN
    PROVE  /\ carryShift(withCarry) \in LabelsOf(k)
           /\ Plus(carryShift(withCarry), TestPlace(1)) = PlaceOfRow(carryShift(withCarry), 1)
           /\ \A r \in LabelsOf(k) :
                 Plus(r, carryShift(withCarry)) \subseteq noCarryBasis <=> (withCarry <=> k - 1 \in r)
<1>. DEFINE c == carryShift(withCarry)
<1>1. height = k /\ k \in {2, 3, 4}
  <2>1. Dimensions
    BY Dimensioned
  <2>. QED  BY <2>1 DEF Dimensions
<1>2. c = IF withCarry THEN {k - 1} ELSE {}
  BY <1>1 DEF carryShift
<1>3. c \in LabelsOf(k)
  BY <1>1, <1>2 DEF LabelsOf
<1>4. noCarryBasis = 0..k - 2
  BY <1>1 DEF noCarryBasis
<1>. HIDE DEF c
<1>5. ASSUME NEW r \in LabelsOf(k) PROVE Plus(r, c) \subseteq 0..k - 2 <=> (withCarry <=> k - 1 \in r)
  <2>1. k - 1 \in Plus(r, c) <=> ~(withCarry <=> k - 1 \in r)
    BY <1>2 DEF Plus, SymDiff
  <2>2. \A b \in Plus(r, c) : b \in 0..k - 1
    BY <1>3 DEF Plus, SymDiff, LabelsOf
  <2>3. k - 1 \notin Plus(r, c) => Plus(r, c) \subseteq 0..k - 2
    BY <1>1, <2>2
  <2>4. k - 1 \in Plus(r, c) => ~(Plus(r, c) \subseteq 0..k - 2)
    BY <1>1
  <2>. QED  BY <2>1, <2>3, <2>4
<1>6. Plus(c, TestPlace(1)) = PlaceOfRow(c, 1)
  BY <1>3, RowAts
<1>. QED  BY <1>3, <1>4, <1>5, <1>6 DEF c

\* A test made over a coset, of the rows' places.
LEMMA CosetOfRows ==
    ASSUME Common, NEW test \in {0, 1}, NEW q \in LabelsOf(k), NEW space \in SUBSET (0..k - 1)
    PROVE  Coset(space, PlaceOfRow(q, test)) = {PlaceOfRow(r, test) : r \in {r \in LabelsOf(k) : Plus(r, q) \subseteq space}}
<1>. DEFINE C == {PlaceOfRow(r, test) : r \in {r \in LabelsOf(k) : Plus(r, q) \subseteq space}}
<1>1. \A e \in SUBSET space : /\ e \in LabelsOf(k) /\ Plus(q, e) \in LabelsOf(k)
                              /\ Plus(Plus(q, e), q) = e
                              /\ Plus(PlaceOfRow(q, test), e) = PlaceOfRow(Plus(q, e), test)
  <2>. TAKE e \in SUBSET space
  <2>1. e \in LabelsOf(k)
    BY DEF LabelsOf
  <2>2. Plus(q, e) \in LabelsOf(k)
    BY <2>1, RowDifferences
  <2>3. Plus(Plus(q, e), q) = e
    <3>1. Plus(Plus(q, e), q) = Plus(q, Plus(q, e)) /\ Plus(q, Plus(q, e)) = e
      BY RowSpots
    <3>. QED  BY <3>1
  <2>4. e = At(e, {}, {})
    BY <2>1, RowSpots
  <2>5. Plus(PlaceOfRow(q, test), At(e, {}, {})) = At(Plus(q, e), Plus(ColumnOf(test), {}), Plus(LayerOf(test), {}))
    BY RowSpots DEF PlaceOfRow
  <2>6. Plus(ColumnOf(test), {}) = ColumnOf(test) /\ Plus(LayerOf(test), {}) = LayerOf(test)
    BY RowSpots
  <2>. QED  BY <2>1, <2>2, <2>3, <2>4, <2>5, <2>6 DEF PlaceOfRow
<1>2. ASSUME NEW x \in Coset(space, PlaceOfRow(q, test)) PROVE x \in C
  <2>1. PICK e \in SUBSET space : x = Plus(PlaceOfRow(q, test), e)
    BY DEF Coset
  <2>2. Plus(q, e) \in LabelsOf(k) /\ Plus(Plus(q, e), q) = e /\ x = PlaceOfRow(Plus(q, e), test)
    BY <1>1, <2>1
  <2>. QED  BY <2>2
<1>3. ASSUME NEW x \in C PROVE x \in Coset(space, PlaceOfRow(q, test))
  <2>1. PICK r \in LabelsOf(k) : Plus(r, q) \subseteq space /\ x = PlaceOfRow(r, test)
    OBVIOUS
  <2>. DEFINE e == Plus(r, q)
  <2>2. e \in SUBSET space /\ Plus(q, e) = r
    <3>1. Plus(r, q) = Plus(q, r) /\ Plus(q, Plus(q, r)) = r
      BY RowSpots
    <3>. QED  BY <2>1, <3>1
  <2>. HIDE DEF e
  <2>3. x = Plus(PlaceOfRow(q, test), e)
    BY <1>1, <2>1, <2>2
  <2>. QED  BY <2>2, <2>3 DEF Coset
<1>. QED  BY <1>2, <1>3

PermutationCheck ==
    [space |-> columnBasis, shift |-> mapNonPermutationElement(permutationTest),
     aux |-> {zeroRow(permutationTest), lastRow(permutationTest)}, kind |-> "permutation",
     current |-> [v \in inst.permCurrent |->
                     moveFromPointToVarId(mapNonPermutationElement(permutationTest), v)],
     next |-> [v \in inst.permNext |-> PermutedVar(v)]]

\* If a variable above 0 of the next row is in use, there are both halves.
LEMMA SystemOf ==
    ASSUME usesVarFromNextLine
    PROVE  SystemChecks = {PermutationCheck, AssignmentHalf(FALSE), AssignmentHalf(TRUE)}
<1>1. PermutationChecks = {PermutationCheck}
  BY DEF PermutationChecks, PermutationCheck
<1>2. AssignmentChecks = {AssignmentHalf(FALSE), AssignmentHalf(TRUE)}
  BY DEF AssignmentChecks, AssignmentHalf
<1>. QED  BY <1>1, <1>2 DEF SystemChecks

\* The rows a test of the system is made for.
LEMMA PermutationTested ==
    ASSUME Common
    PROVE  Tested(PermutationCheck) = {RowPoint(n, permutationTest) : n \in TestedRows}
<1>0. permutationTest = 0 /\ height = k /\ k \in Nat
  BY Sizes DEF permutationTest
<1>1. /\ PermutationCheck.space = 0..k - 1
      /\ PermutationCheck.shift = PlaceOfRow({}, 0)
      /\ PermutationCheck.aux = {zeroRow(0), lastRow(0)}
  BY <1>0, RowAts DEF PermutationCheck, columnBasis, TestPlace
<1>2. {} \in LabelsOf(k) /\ \A r \in LabelsOf(k) : r \subseteq 0..k - 1
  BY DEF LabelsOf
<1>3. Coset(0..k - 1, PlaceOfRow({}, 0)) = {PlaceOfRow(r, 0) : r \in LabelsOf(k)}
  <2>1. Coset(0..k - 1, PlaceOfRow({}, 0)) = {PlaceOfRow(r, 0) : r \in {r \in LabelsOf(k) : Plus(r, {}) \subseteq 0..k - 1}}
    BY <1>2, CosetOfRows
  <2>2. {r \in LabelsOf(k) : Plus(r, {}) \subseteq 0..k - 1} = LabelsOf(k)
    BY <1>2, RowSpots
  <2>. QED  BY <2>1, <2>2
<1>4. ASSUME NEW r \in LabelsOf(k)
      PROVE  (\A a \in PermutationCheck.aux : ~InCoset(PlaceOfRow(r, 0), a[1], a[2])) <=> r # {} /\ r # lastPlace
  <2>1. (\A a \in {zeroRow(0), lastRow(0)} : ~InCoset(PlaceOfRow(r, 0), a[1], a[2]))
          <=> /\ ~InCoset(PlaceOfRow(r, 0), zeroRow(0)[1], zeroRow(0)[2])
              /\ ~InCoset(PlaceOfRow(r, 0), lastRow(0)[1], lastRow(0)[2])
    OBVIOUS
  <2>. QED  BY <1>1, <2>1, LeftOut
<1>5. ASSUME NEW x \in Tested(PermutationCheck) PROVE \E n \in TestedRows : x = RowPoint(n, permutationTest)
  <2>1. x \in Coset(PermutationCheck.space, PermutationCheck.shift)
        /\ \A a \in PermutationCheck.aux : ~InCoset(x, a[1], a[2])
    BY DEF Tested
  <2>2. PICK r \in LabelsOf(k) : x = PlaceOfRow(r, 0)
    BY <2>1, <1>1, <1>3
  <2>3. r # {} /\ r # lastPlace
    BY <2>1, <2>2, <1>4
  <2>4. PICK n \in TestedRows : r = exponents[n]
    BY <2>3, TestedRow
  <2>5. n \in VectorIds
    BY TestedRow
  <2>. QED  BY <1>0, <2>2, <2>4, <2>5, RowAts
<1>6. ASSUME NEW n \in TestedRows PROVE RowPoint(n, permutationTest) \in Tested(PermutationCheck)
  <2>1. n \in VectorIds /\ exponents[n] \in LabelsOf(k) /\ exponents[n] # {} /\ exponents[n] # lastPlace
    BY TestedRow
  <2>2. RowPoint(n, permutationTest) = PlaceOfRow(exponents[n], 0)
    BY <1>0, <2>1, RowAts
  <2>3. RowPoint(n, permutationTest) \in Coset(PermutationCheck.space, PermutationCheck.shift)
    BY <1>1, <1>3, <2>1, <2>2
  <2>4. \A a \in PermutationCheck.aux : ~InCoset(RowPoint(n, permutationTest), a[1], a[2])
    BY <1>4, <2>1, <2>2
  <2>. QED  BY <2>3, <2>4 DEF Tested
<1>. QED  BY <1>5, <1>6

\* ... and a half for those whose multiplication carries, or does not.
LEMMA HalfTested ==
    ASSUME Common, NEW withCarry \in BOOLEAN
    PROVE  Tested(AssignmentHalf(withCarry))
             = {RowPoint(n, assignmentTest) : n \in {n \in TestedRows : withCarry <=> k - 1 \in exponents[n]}}
<1>. DEFINE c == carryShift(withCarry)
            S == AssignmentHalf(withCarry)
            left == IF withCarry THEN lastRow(1) ELSE zeroRow(1)
<1>0. assignmentTest = 1 /\ height = k /\ k \in Nat /\ k > 1
  <2>1. Dimensions
    BY Dimensioned
  <2>. QED  BY <2>1 DEF Dimensions, assignmentTest
<1>1. S.space = noCarryBasis /\ S.aux = {left} /\ S.shift = Plus(c, TestPlace(1))
  BY <1>0 DEF AssignmentHalf, TestPlace, carryShift
<1>2. noCarryBasis \in SUBSET (0..k - 1)
  BY <1>0 DEF noCarryBasis
<1>3. c \in LabelsOf(k) /\ S.shift = PlaceOfRow(c, 1)
      /\ \A r \in LabelsOf(k) : Plus(r, c) \subseteq noCarryBasis <=> (withCarry <=> k - 1 \in r)
  BY <1>1, HalfCoset
<1>. HIDE DEF c, S
<1>4. Coset(noCarryBasis, PlaceOfRow(c, 1)) = {PlaceOfRow(r, 1) : r \in {r \in LabelsOf(k) : Plus(r, c) \subseteq noCarryBasis}}
  BY <1>2, <1>3, CosetOfRows
<1>5. ASSUME NEW r \in LabelsOf(k), withCarry <=> k - 1 \in r
      PROVE  (\A a \in S.aux : ~InCoset(PlaceOfRow(r, 1), a[1], a[2])) <=> r # {} /\ r # lastPlace
  <2>1. (\A a \in S.aux : ~InCoset(PlaceOfRow(r, 1), a[1], a[2])) <=> ~InCoset(PlaceOfRow(r, 1), left[1], left[2])
    BY <1>1
  <2>2. CASE withCarry
    <3>1. ~InCoset(PlaceOfRow(r, 1), left[1], left[2]) <=> r # lastPlace
      BY <2>2, LeftOut
    <3>2. r # {}
      BY <1>5, <2>2
    <3>. QED  BY <2>1, <3>1, <3>2
  <2>3. CASE ~withCarry
    <3>1. ~InCoset(PlaceOfRow(r, 1), left[1], left[2]) <=> r # {}
      BY <2>3, LeftOut
    <3>2. r # lastPlace
      BY <1>5, <2>3, LastPlace
    <3>. QED  BY <2>1, <3>1, <3>2
  <2>. QED  BY <2>2, <2>3
<1>. HIDE DEF left
<1>6. ASSUME NEW x \in Tested(S)
      PROVE  \E n \in TestedRows : (withCarry <=> k - 1 \in exponents[n]) /\ x = RowPoint(n, assignmentTest)
  <2>1. x \in Coset(S.space, S.shift) /\ \A a \in S.aux : ~InCoset(x, a[1], a[2])
    BY DEF Tested
  <2>2. PICK r \in LabelsOf(k) : x = PlaceOfRow(r, 1) /\ Plus(r, c) \subseteq noCarryBasis
    BY <2>1, <1>1, <1>3, <1>4
  <2>3. withCarry <=> k - 1 \in r
    BY <2>2, <1>3
  <2>4. r # {} /\ r # lastPlace
    BY <2>1, <2>2, <2>3, <1>5
  <2>5. PICK n \in TestedRows : r = exponents[n]
    BY <2>4, TestedRow
  <2>6. n \in VectorIds
    BY TestedRow
  <2>7. RowPoint(n, assignmentTest) = PlaceOfRow(exponents[n], 1)
    BY <1>0, <2>6, RowAts
  <2>. QED  BY <2>2, <2>3, <2>5, <2>7
<1>7. ASSUME NEW n \in TestedRows, withCarry <=> k - 1 \in exponents[n]
      PROVE  RowPoint(n, assignmentTest) \in Tested(S)
  <2>1. n \in VectorIds /\ exponents[n] \in LabelsOf(k) /\ exponents[n] # {} /\ exponents[n] # lastPlace
    BY TestedRow
  <2>2. RowPoint(n, assignmentTest) = PlaceOfRow(exponents[n], 1)
    BY <1>0, <2>1, RowAts
  <2>3. Plus(exponents[n], c) \subseteq noCarryBasis
    BY <1>3, <1>7, <2>1
  <2>4. RowPoint(n, assignmentTest) \in Coset(S.space, S.shift)
    BY <1>1, <1>3, <1>4, <2>1, <2>2, <2>3
  <2>5. \A a \in S.aux : ~InCoset(RowPoint(n, assignmentTest), a[1], a[2])
    BY <1>5, <1>7, <2>1, <2>2
  <2>. QED  BY <2>4, <2>5 DEF Tested
<1>8. \A x : x \in Tested(S)
               <=> \E n \in TestedRows : (withCarry <=> k - 1 \in exponents[n]) /\ x = RowPoint(n, assignmentTest)
  BY <1>6, <1>7
<1>9. Tested(S) = {RowPoint(n, assignmentTest) : n \in {n \in TestedRows : withCarry <=> k - 1 \in exponents[n]}}
  BY <1>8
<1>. QED  BY <1>9 DEF S

systemPlaces == {RowPoint(n, permutationTest) : n \in TestedRows}
                    \cup {RowPoint(n, assignmentTest) : n \in TestedRows}

\* Together they are all rows but the last.
LEMMA AllRowsTested ==
    ASSUME Common, usesVarFromNextLine
    PROVE  UNION {Tested(s) : s \in SystemChecks} = systemPlaces
<1>. DEFINE P == PermutationCheck
            F == AssignmentHalf(FALSE)
            T == AssignmentHalf(TRUE)
<1>1. SystemChecks = {P, F, T}
  BY SystemOf
<1>2. Tested(P) = {RowPoint(n, permutationTest) : n \in TestedRows}
  BY PermutationTested
<1>3. /\ Tested(F) = {RowPoint(n, assignmentTest) : n \in {n \in TestedRows : FALSE <=> k - 1 \in exponents[n]}}
      /\ Tested(T) = {RowPoint(n, assignmentTest) : n \in {n \in TestedRows : TRUE <=> k - 1 \in exponents[n]}}
  BY HalfTested
<1>. HIDE DEF P, F, T
<1>4. UNION {Tested(s) : s \in SystemChecks} = Tested(P) \cup Tested(F) \cup Tested(T)
  BY <1>1
<1>5. Tested(F) \cup Tested(T) = {RowPoint(n, assignmentTest) : n \in TestedRows}
  <2>1. ASSUME NEW n \in TestedRows PROVE RowPoint(n, assignmentTest) \in Tested(F) \cup Tested(T)
    BY <1>3
  <2>2. ASSUME NEW x \in Tested(F) \cup Tested(T) PROVE \E n \in TestedRows : x = RowPoint(n, assignmentTest)
    BY <1>3
  <2>. QED  BY <2>1, <2>2
<1>. QED  BY <1>2, <1>4, <1>5 DEF systemPlaces

\* A place inside the rows, or inside the rows and columns, is on layer zero.
LEMMA LowSpots ==
    ASSUME Common, NEW r, NEW c \in LabelsOf(width), NEW l \in SUBSET Nat
    PROVE  /\ At(r, c, l) \subseteq layersBasis => l = {}
           /\ At(r, c, l) \subseteq columnBasis => c = {} /\ l = {}
<1>1. height \in Nat /\ width \in Nat /\ layersBasis = 0..height + width - 1 /\ columnBasis = 0..height - 1
  BY Sizes DEF layersBasis, columnBasis
<1>2. ASSUME NEW b \in l PROVE b + (height + width) \in At(r, c, l) /\ b + (height + width) \notin layersBasis
                               /\ b + (height + width) \notin columnBasis
  <2>1. b \in Nat
    OBVIOUS
  <2>. QED  BY <1>1, <2>1 DEF At, Spot
<1>3. ASSUME NEW b \in c PROVE b + height \in At(r, c, l) /\ b + height \notin columnBasis
  <2>1. b \in Nat /\ b < width
    BY <1>1 DEF LabelsOf
  <2>. QED  BY <1>1, <2>1 DEF At, Spot
<1>. QED  BY <1>2, <1>3

\* A place below the layers.
LEMMA NoLayer ==
    ASSUME Common, NEW m \in SUBSET layersBasis
    PROVE  \E c : m = At(m, c, {})
<1>1. height \in Nat /\ width \in Nat /\ \A b \in m : b \in Nat /\ b < height + width
  BY Sizes DEF layersBasis
<1>. DEFINE c == {b - height : b \in {x \in m : x >= height}}
<1>2. ASSUME NEW b \in Nat, b >= height PROVE b \in m <=> b - height \in c
  <2>1. ASSUME b - height \in c PROVE b \in m
    <3>1. PICK y \in m : y >= height /\ b - height = y - height
      BY <2>1
    <3>2. y = b
      BY <1>1, <1>2, <3>1
    <3>. QED  BY <3>2
  <2>. QED  BY <1>2, <2>1
<1>. HIDE DEF c
<1>3. m = At(m, c, {})
  BY <1>1, <1>2 DEF At, Spot
<1>. QED  BY <1>3

\* What a test of the network is about: places of one layer of the network.
OnLayer(s, l) ==
    /\ s.space \subseteq layersBasis /\ \E r, c : s.shift = At(r, c, Bits(l))
    /\ \A a \in s.aux : a[1] \subseteq layersBasis /\ \E r, c : a[2] = At(r, c, Bits(l))

\* A test of the network is on a layer of the network.
LEMMA RoutingLayers ==
    ASSUME Common, hasRoutingNetwork, NEW s \in RoutingChecks
    PROVE  \E l \in NetworkLayers_ : OnLayer(s, l)
<1>1. height \in Nat /\ width \in Nat
  BY Sizes
<1>2. columnBasis \subseteq layersBasis
  BY <1>1 DEF columnBasis, layersBasis
<1>3. ASSUME NEW l \in NetworkLayers_
      PROVE  /\ mapPermutationLayerId(l) = At({}, {}, Bits(l))
             /\ \E c : Plus(lastColShift, mapPermutationLayerId(l)) = At({}, c, Bits(l))
             /\ \E c : mapPermutationElement(0, l) = At({}, c, Bits(l))
             /\ \A m \in SUBSET layersBasis : \E c : Plus(m, mapPermutationLayerId(l)) = At(m, c, Bits(l))
  <2>1. mapPermutationLayerId(l) = At({}, {}, Bits(l))
        /\ lastColShift = At({}, PowerOfX(wingWidth - 1, columnsModulus), {})
    BY LayerId
  <2>2. \A r, c : Plus(At(r, c, {}), At({}, {}, Bits(l))) = At(r, c, Bits(l))
    <3>1. \A r, c : Plus(At(r, c, {}), At({}, {}, Bits(l))) = At(Plus(r, {}), Plus(c, {}), Plus({}, Bits(l)))
      BY RowSpots
    <3>2. \A x : Plus({}, x) = x /\ Plus(x, {}) = x
      BY RowSpots
    <3>. QED  BY <3>1, <3>2
  <2>3. mapPermutationElement(0, l) = At({}, PowerOfX(0, columnsModulus), Bits(l))
    <3>1. wingWidth \in Nat /\ wingWidth > 2
      BY Sizes
    <3>2. 0 \in 0..wingWidth - 1
      BY <3>1
    <3>. QED  BY <3>2, NetworkSpots DEF NetworkLayers_
  <2>. QED  BY <2>1, <2>2, <2>3, NoLayer
<1>4. ASSUME NEW l \in NetworkLayers_, NEW a \in noNextColumn(l)
      PROVE  a[1] \subseteq layersBasis /\ \E r, c : a[2] = At(r, c, Bits(l))
  <2>1. a = <<columnBasis, mapPermutationLayerId(l)>>
        \/ a = <<columnBasis, Plus(lastColShift, mapPermutationLayerId(l))>>
    BY DEF noNextColumn
  <2>2. a[1] = columnBasis /\ (a[2] = mapPermutationLayerId(l) \/ a[2] = Plus(lastColShift, mapPermutationLayerId(l)))
    BY <2>1
  <2>3. (\E c : a[2] = At({}, c, Bits(l)))
    BY <1>3, <2>2
  <2>. QED  BY <1>2, <2>2, <2>3
<1>5. Len(variablesPerm) \in Nat /\ NetworkLayers_ = 0..2 * Len(variablesPerm) + 1
  <2>1. Len(variablesPerm) \in Nat /\ amountOfPermutationLayers = 2 * (1 + Len(variablesPerm))
    BY CommonLists DEF amountOfPermutationLayers
  <2>. QED  BY <2>1 DEF NetworkLayers_
<1>6. CASE s \in BitChecks
  <2>1. PICK l \in {2 * Len(variablesPerm), 2 * Len(variablesPerm) + 1} :
             s = [space |-> layersBasis, shift |-> mapPermutationLayerId(l),
                  aux |-> noNextColumn(l), kind |-> "boolean", of |-> <<Id(l)>>]
    BY <1>6 DEF BitChecks
  <2>2. l \in NetworkLayers_
    BY <1>5
  <2>3. s.space = layersBasis /\ s.shift = mapPermutationLayerId(l) /\ s.aux = noNextColumn(l)
    BY <2>1
  <2>. QED  BY <1>3, <1>4, <2>2, <2>3 DEF OnLayer
<1>7. CASE s \in LastColumnChecks
  <2>1. PICK i \in 0..Len(variablesPerm) - 1 :
             s = [space |-> columnBasis, shift |-> Plus(lastColShift, mapPermutationLayerId(2 * i)),
                  aux |-> {}, kind |-> "equal", of |-> <<Id(2 * i), TwinLayer(2 * i)>>]
    BY <1>7 DEF LastColumnChecks
  <2>. DEFINE l == 2 * i
  <2>2. l \in NetworkLayers_
    BY <1>5
  <2>3. s.space = columnBasis /\ s.shift = Plus(lastColShift, mapPermutationLayerId(l)) /\ s.aux = {}
    BY <2>1
  <2>. HIDE DEF l
  <2>. QED  BY <1>2, <1>3, <2>2, <2>3 DEF OnLayer
<1>8. CASE s \in PaddingChecks
  <2>1. PICK l \in 0..2 * Len(variablesPerm) - 1 :
             s = [space |-> {}, shift |-> mapPermutationElement(0, l), aux |-> {},
                  kind |-> "padding", of |-> <<Id(l)>>,
                  value |-> <<"padding", variablesPerm[l \div 2 + 1]>>]
    BY <1>8 DEF PaddingChecks
  <2>2. l \in NetworkLayers_
    BY <1>5
  <2>3. s.space = {} /\ s.shift = mapPermutationElement(0, l) /\ s.aux = {}
    BY <2>1
  <2>. QED  BY <1>3, <2>2, <2>3 DEF OnLayer
<1>9. CASE s \in DeBruijnChecks
  <2>1. PICK l \in 0..2 * Len(variablesPerm) - 1, coset \in 0..3 :
             s = [space |-> neighborsPairBasis,
                  shift |-> Plus(DeBruijnCoset(coset), mapPermutationLayerId(l)),
                  aux |-> noNextColumn(l), kind |-> "DeBruijn",
                  of |-> <<Id(l), DeBruijn(0, coset, l), DeBruijn(1, coset, l), RoutingBit(l)>>]
    BY <1>9 DEF DeBruijnChecks
  <2>2. l \in NetworkLayers_
    BY <1>5
  <2>3. s.space = neighborsPairBasis /\ s.shift = Plus(DeBruijnCoset(coset), mapPermutationLayerId(l))
        /\ s.aux = noNextColumn(l)
    BY <2>1
  <2>4. DeBruijnCoset(coset) \in SUBSET layersBasis
    <3>1. Dimensions
      BY Dimensioned
    <3>2. height \in {2, 3, 4} /\ width \in {2, 3}
      BY <3>1 DEF Dimensions
    <3>3. height + width - 1 \in layersBasis /\ height - 1 \in layersBasis
      BY <3>2 DEF layersBasis
    <3>4. indicatorBits[1] = height + width - 1 /\ indicatorBits[2] = height - 1
      BY DEF indicatorBits
    <3>. QED  BY <3>3, <3>4 DEF DeBruijnCoset
  <2>5. neighborsPairBasis \subseteq layersBasis
    BY DEF neighborsPairBasis
  <2>. QED  BY <1>3, <1>4, <2>2, <2>3, <2>4, <2>5 DEF OnLayer
<1>. QED  BY <1>6, <1>7, <1>8, <1>9 DEF RoutingChecks

-----------------------------------------------------------------------------
(* Which tests are made at the place of a row's test. *)

\* Not those of the other kind, ...
LEMMA OtherKind ==
    ASSUME Common, NEW test \in {0, 1}, NEW other \in {0, 1}, test # other,
           NEW r \in LabelsOf(k), NEW q \in LabelsOf(k)
    PROVE  ~(Plus(PlaceOfRow(r, test), PlaceOfRow(q, other)) \subseteq columnBasis)
<1>1. /\ ColumnOf(test) \in LabelsOf(width) /\ ColumnOf(other) \in LabelsOf(width)
      /\ test \in 0..inst.vectorsLen + 1 /\ other \in 0..inst.vectorsLen + 1
      /\ LayerOf(test) \in SUBSET Nat /\ LayerOf(other) \in SUBSET Nat
  BY TestPlaces, OutsideSpots
<1>. DEFINE c == Plus(ColumnOf(test), ColumnOf(other))
            l == Plus(LayerOf(test), LayerOf(other))
<1>2. Plus(PlaceOfRow(r, test), PlaceOfRow(q, other)) = At(Plus(r, q), c, l)
  BY RowSpots DEF PlaceOfRow
<1>3. c \in LabelsOf(width) /\ l \in SUBSET Nat
  BY <1>1 DEF Plus, SymDiff, LabelsOf
<1>4. ~(c = {} /\ l = {})
  <2>. SUFFICES ASSUME c = {}, l = {} PROVE FALSE
    OBVIOUS
  <2>1. ColumnOf(test) = ColumnOf(other)
    <3>1. \A b : b \in ColumnOf(test) <=> b \in ColumnOf(other)
      BY DEF Plus, SymDiff
    <3>. QED  BY <3>1
  <2>2. LayerOf(test) = LayerOf(other)
    <3>1. \A b : b \in LayerOf(test) <=> b \in LayerOf(other)
      BY DEF Plus, SymDiff
    <3>. QED  BY <3>1
  <2>3. test = other
    BY <1>1, <2>1, <2>2, OutsideOneWay
  <2>. QED  BY <2>3
<1>. HIDE DEF c, l
<1>. QED  BY <1>2, <1>3, <1>4, LowSpots

\* ... nor those of the network, ...
LEMMA NotRouting ==
    ASSUME Common, hasRoutingNetwork, NEW test \in {0, 1}, NEW r \in LabelsOf(k), NEW s \in RoutingChecks
    PROVE  ~InCoset(PlaceOfRow(r, test), s.space, s.shift)
<1>1. PICK j \in NetworkLayers_ : OnLayer(s, j)
  BY RoutingLayers
<1>2. PICK q, d : s.shift = At(q, d, Bits(j))
  BY <1>1 DEF OnLayer
<1>3. /\ ColumnOf(test) \in LabelsOf(width) /\ LayerOf(test) \in SUBSET Nat
      /\ LayerOf(test) # Bits(j) /\ Bits(j) \in SUBSET Nat
  <2>1. test \in 0..inst.vectorsLen + 1 /\ j \in 0..amountOfPermutationLayers - 1
    BY TestPlaces DEF NetworkLayers_
  <2>. QED  BY <2>1, TestPlaces, OutsideSpots, LayerId
<1>. DEFINE l == Plus(LayerOf(test), Bits(j))
            c == Plus(ColumnOf(test), d)
<1>4. Plus(PlaceOfRow(r, test), s.shift) = At(Plus(r, q), c, l)
  BY <1>2, RowSpots DEF PlaceOfRow
<1>5. l \in SUBSET Nat /\ l # {}
  <2>1. l \in SUBSET Nat
    BY <1>3 DEF Plus, SymDiff
  <2>2. l = {} => \A b : b \in LayerOf(test) <=> b \in Bits(j)
    BY DEF Plus, SymDiff
  <2>. QED  BY <1>3, <2>1, <2>2
<1>. HIDE DEF l, c
<1>6. PICK b \in l : b \in Nat
  BY <1>5
<1>7. height \in Nat /\ width \in Nat /\ layersBasis = 0..height + width - 1
  BY Sizes DEF layersBasis
<1>8. b + (height + width) \in At(Plus(r, q), c, l) /\ b + (height + width) \notin layersBasis
  BY <1>6, <1>7 DEF At, Spot
<1>9. s.space \subseteq layersBasis
  BY <1>1 DEF OnLayer
<1>. QED  BY <1>4, <1>8, <1>9 DEF InCoset

\* ... and of its own kind one.
LEMMA OwnTest ==
    ASSUME Common, usesVarFromNextLine, NEW x \in systemPlaces
    PROVE  \E s \in SystemChecks : {u \in SystemChecks \cup RoutingChecks : InCoset(x, u.space, u.shift)} = {s}
<1>. DEFINE P == PermutationCheck
            H(c) == AssignmentHalf(c)
            In(s) == InCoset(x, s.space, s.shift)
<1>1. permutationTest = 0 /\ assignmentTest = 1 /\ height = k /\ k \in Nat /\ k > 1
  <2>1. Dimensions
    BY Dimensioned
  <2>. QED  BY <2>1 DEF Dimensions, assignmentTest, permutationTest
<1>2. PICK test \in {0, 1}, r \in LabelsOf(k) : x = PlaceOfRow(r, test)
  <2>1. PICK test \in {0, 1}, n \in TestedRows : x = RowPoint(n, test)
    BY <1>1 DEF systemPlaces
  <2>2. n \in VectorIds /\ exponents[n] \in LabelsOf(k)
    BY TestedRow
  <2>. QED  BY <2>1, <2>2, RowAts
<1>3. columnBasis = 0..k - 1 /\ noCarryBasis \subseteq columnBasis
  BY <1>1 DEF columnBasis, noCarryBasis
<1>4. {} \in LabelsOf(k) /\ r \subseteq 0..k - 1
  BY DEF LabelsOf
<1>5. P.space = columnBasis /\ P.shift = PlaceOfRow({}, 0)
  BY <1>1, RowAts DEF PermutationCheck, TestPlace
<1>6. In(P) <=> test = 0
  <2>1. CASE test = 0
    <3>1. Plus(x, P.shift) = Plus(r, {})
      BY <1>2, <1>4, <1>5, <2>1, RowDifferences
    <3>2. Plus(r, {}) = r
      BY RowSpots
    <3>. QED  BY <1>3, <1>4, <1>5, <2>1, <3>1, <3>2 DEF InCoset
  <2>2. CASE test = 1
    <3>1. ~(Plus(x, P.shift) \subseteq columnBasis)
      BY <1>2, <1>4, <1>5, <2>2, OtherKind
    <3>. QED  BY <1>5, <2>2, <3>1 DEF InCoset
  <2>. QED  BY <2>1, <2>2
<1>7. ASSUME NEW withCarry \in BOOLEAN
      PROVE  In(H(withCarry)) <=> test = 1 /\ (withCarry <=> k - 1 \in r)
  <2>. DEFINE c == carryShift(withCarry)
  <2>1. H(withCarry).space = noCarryBasis /\ H(withCarry).shift = PlaceOfRow(c, 1) /\ c \in LabelsOf(k)
    BY <1>1, HalfCoset DEF AssignmentHalf, TestPlace, carryShift
  <2>2. Plus(r, c) \subseteq noCarryBasis <=> (withCarry <=> k - 1 \in r)
    BY HalfCoset
  <2>. HIDE DEF c, H
  <2>3. CASE test = 0
    <3>1. ~(Plus(x, H(withCarry).shift) \subseteq columnBasis)
      BY <1>2, <2>1, <2>3, OtherKind
    <3>2. ~(Plus(x, H(withCarry).shift) \subseteq H(withCarry).space)
      BY <1>3, <2>1, <3>1
    <3>3. ~In(H(withCarry))
      BY <3>2 DEF InCoset
    <3>. QED  BY <2>3, <3>3
  <2>4. CASE test = 1
    <3>1. Plus(x, H(withCarry).shift) = Plus(r, c)
      BY <1>2, <2>1, <2>4, RowDifferences
    <3>. QED  BY <2>1, <2>2, <2>4, <3>1 DEF InCoset
  <2>. QED  BY <2>3, <2>4
<1>8. SystemChecks = {P, H(FALSE), H(TRUE)}
  BY SystemOf
<1>9. \A s \in RoutingChecks : ~In(s)
  <2>1. CASE hasRoutingNetwork
    BY <1>2, <2>1, NotRouting
  <2>2. CASE ~hasRoutingNetwork
    BY <2>2 DEF RoutingChecks
  <2>. QED  BY <2>1, <2>2
<1>10. (In(H(FALSE)) <=> test = 1 /\ k - 1 \notin r) /\ (In(H(TRUE)) <=> test = 1 /\ k - 1 \in r)
  BY <1>7
<1>. DEFINE F == H(FALSE)
            T == H(TRUE)
            S == {u \in SystemChecks \cup RoutingChecks : In(u)}
<1>11. /\ P \in SystemChecks /\ F \in SystemChecks /\ T \in SystemChecks
       /\ \A u \in S : In(u) /\ (u = P \/ u = F \/ u = T)
       /\ \A u \in SystemChecks : In(u) => u \in S
       /\ (In(F) <=> test = 1 /\ k - 1 \notin r) /\ (In(T) <=> test = 1 /\ k - 1 \in r)
  BY <1>8, <1>9, <1>10
<1>. HIDE DEF P, F, T, In, S
<1>12. CASE test = 0
  <2>1. P \in S /\ \A u \in S : u = P
    BY <1>6, <1>11, <1>12
  <2>2. S = {P}
    BY <2>1
  <2>. QED  BY <1>11, <2>2 DEF S, In
<1>13. CASE test = 1 /\ k - 1 \in r
  <2>1. T \in S /\ \A u \in S : u = T
    BY <1>6, <1>11, <1>13
  <2>2. S = {T}
    BY <2>1
  <2>. QED  BY <1>11, <2>2 DEF S, In
<1>14. CASE test = 1 /\ k - 1 \notin r
  <2>1. F \in S /\ \A u \in S : u = F
    BY <1>6, <1>11, <1>14
  <2>2. S = {F}
    BY <2>1
  <2>. QED  BY <1>11, <2>2 DEF S, In
<1>. QED  BY <1>12, <1>13, <1>14

-----------------------------------------------------------------------------
(* All of it is where the sum vanishes. *)
Fits(c) == c[1] \cup c[2] \subseteq vanishingSpace

\* The tests of the system and what they leave out fit, ...
LEMMA SystemFits ==
    ASSUME Common, usesVarFromNextLine, NEW s \in SystemChecks, NEW c \in s.aux \cup {<<s.space, s.shift>>}
    PROVE  Fits(c)
<1>1. permutationTest = 0 /\ assignmentTest = 1 /\ height = k /\ k \in Nat /\ width \in Nat /\ vanishingLayers \in Nat
  BY Sizes, LayersFit DEF permutationTest, assignmentTest
<1>2. \A test \in {0, 1} : \A r : PlaceOfRow(r, test) \subseteq vanishingSpace
  BY LayersFit, SpotFits DEF PlaceOfRow
<1>3. columnBasis \subseteq vanishingSpace /\ noCarryBasis \subseteq vanishingSpace
  BY <1>1 DEF columnBasis, noCarryBasis, vanishingSpace
<1>4. {} \in LabelsOf(k)
  BY DEF LabelsOf
<1>5. \A test \in {0, 1} : /\ zeroRow(test)[1] = {} /\ zeroRow(test)[2] = PlaceOfRow({}, test)
                           /\ lastRow(test)[1] = {} /\ lastRow(test)[2] = PlaceOfRow(lastPlace, test)
  BY <1>4, LeftOut
<1>6. \A test \in {0, 1} : Fits(zeroRow(test)) /\ Fits(lastRow(test))
  BY <1>2, <1>5 DEF Fits
<1>7. CASE s = PermutationCheck
  <2>1. s.space = columnBasis /\ s.shift = PlaceOfRow({}, 0) /\ s.aux = {zeroRow(0), lastRow(0)}
    BY <1>1, <1>7, RowAts DEF PermutationCheck, TestPlace
  <2>2. Fits(<<s.space, s.shift>>)
    BY <1>2, <1>3, <2>1 DEF Fits
  <2>3. c = <<s.space, s.shift>> \/ c = zeroRow(0) \/ c = lastRow(0)
    BY <2>1
  <2>. QED  BY <1>6, <2>2, <2>3
<1>8. ASSUME NEW withCarry \in BOOLEAN, s = AssignmentHalf(withCarry) PROVE Fits(c)
  <2>1. /\ s.space = noCarryBasis /\ s.shift = PlaceOfRow(carryShift(withCarry), 1)
        /\ s.aux = {IF withCarry THEN lastRow(1) ELSE zeroRow(1)}
    BY <1>1, <1>8, HalfCoset DEF AssignmentHalf, TestPlace, carryShift
  <2>2. Fits(<<s.space, s.shift>>)
    BY <1>2, <1>3, <2>1 DEF Fits
  <2>3. c = <<s.space, s.shift>> \/ c = zeroRow(1) \/ c = lastRow(1)
    BY <2>1
  <2>. QED  BY <1>6, <2>2, <2>3
<1>9. s \in {PermutationCheck, AssignmentHalf(FALSE), AssignmentHalf(TRUE)}
  BY SystemOf
<1>. QED  BY <1>7, <1>8, <1>9

\* ... and so do those of the network.
LEMMA RoutingFits ==
    ASSUME Common, NEW s \in RoutingChecks, NEW c \in s.aux \cup {<<s.space, s.shift>>}
    PROVE  Fits(c)
<1>1. hasRoutingNetwork
  BY DEF RoutingChecks
<1>2. PICK l \in NetworkLayers_ : OnLayer(s, l)
  BY <1>1, RoutingLayers
<1>3. height \in Nat /\ width \in Nat /\ vanishingLayers \in Nat /\ Bits(l) \in SUBSET (0..vanishingLayers - 1)
  BY Sizes, LayersFit
<1>4. layersBasis \subseteq vanishingSpace
  BY <1>3 DEF layersBasis, vanishingSpace
<1>5. c[1] \subseteq layersBasis /\ \E q, d : c[2] = At(q, d, Bits(l))
  BY <1>2 DEF OnLayer
<1>. QED  BY <1>3, <1>4, <1>5, SpotFits DEF Fits

\* With both halves of the assignment's tests, the tests are as EveryRowTested says.
LEMMA TestedAtFirst ==
    ASSUME Common, usesVarFromNextLine
    PROVE  EveryRowTested
<1>. DEFINE checks == SystemChecks \cup RoutingChecks
<1>1. UNION {Tested(s) : s \in SystemChecks} = systemPlaces
  BY AllRowsTested
<1>2. \A x \in systemPlaces : Cardinality({s \in checks : InCoset(x, s.space, s.shift)}) = 1
  <2>. TAKE x \in systemPlaces
  <2>1. PICK s \in SystemChecks : {u \in checks : InCoset(x, u.space, u.shift)} = {s}
    BY OwnTest
  <2>. QED  BY <2>1, FS_Singleton
<1>3. \A s \in checks : \A c \in s.aux \cup {<<s.space, s.shift>>} : Fits(c)
  BY SystemFits, RoutingFits
<1>. QED  BY <1>1, <1>2, <1>3 DEF EveryRowTested, systemPlaces, Fits

\* The tests of the instance: if the assignment constraints use a variable above 0 of
\* the next row (as addAssignmentCS_checks requires before it adds the tests of the rows
\* whose multiplication carries), every row but the last is tested, once per kind, the
\* places are no other test's, and all of it is inside the space the sum vanishes on.
\* Without such a variable the tests with carry are not there, and the rest is half.
THEOREM RowsTested == Spec => [](usesVarFromNextLine => EveryRowTested)
<1>1. ReductionInv => (usesVarFromNextLine => EveryRowTested)
  BY TestedAtFirst DEF ReductionInv
<1>. QED  BY <1>1, ReductionInvariant, PTL
=============================================================================

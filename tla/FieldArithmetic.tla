-------------------------- MODULE FieldArithmetic --------------------------
(***************************************************************************)
(* The field GF(2)[x] modulo 1 + x + x^3 + x^4 + x^Ord, where Ord is 64 in *)
(* the code; with 8 bits the polynomial is irreducible as well, and every  *)
(* step below has the same form.  An element is the set of the exponents   *)
(* of its polynomial, which are the bits of its word.                      *)
(*                                                                         *)
(* The product is reduced in two carries: what is above the word is moved  *)
(* down by the four low terms of the modulus, and the three bits that      *)
(* leave the word again are looked up in a table.                          *)
(***************************************************************************)
EXTENDS BitSets, SequencesExt

CONSTANT Ord     \* Element::ord

ASSUME OrdAssumption == Ord \in Nat /\ Ord > 6

irr_poly_index == {0, 1, 3, 4, Ord}
Field == SUBSET (0..Ord - 1)
zero  == {}
one   == {0}

Low(x)      == {i \in x : i < Ord}
High(x, n)  == {i - n : i \in {j \in x : j >= n}}

clmul(a, b) == {k \in 0..2 * Ord - 2 : Cardinality({i \in a : k - i \in b}) % 2 = 1}

lookupTable1 == <<\h0, \h1b, \h2d, \h36, \h5a, \h41, \h77, \h6c>>

\* The product reduced; the low word of the shifted carry is xored with the
\* entry of the carry's own carry.
Folded(carry) == Low(Plus(Plus(carry, Shift(carry, 1)), Plus(Shift(carry, 3), Shift(carry, 4))))
Reduce(product) ==
    LET carry0 == High(product, Ord)
        carry1 == High(carry0, Ord - 4)
    IN  Plus(Plus(Low(product), Folded(carry0)),
             Bits(lookupTable1[1 + MapThenSumSet(LAMBDA i : 2^i, carry1)]))

c_mul(a, b) == Reduce(clmul(a, b))
c_sqr(a)    == c_mul(a, a)
c_mulXor(a, b, c) == Plus(c_mul(a, b), c)

\* Square and multiply, from the least bit of the exponent.
c_exp(a, exp) ==
    FoldLeft(LAMBDA s, i : [res  |-> IF i \in Bits(exp) THEN c_mul(s.res, s.base) ELSE s.res,
                            base |-> c_sqr(s.base)],
             [res |-> one, base |-> a],
             [i \in 1..(IF exp = 0 THEN 0 ELSE Max(Bits(exp)) + 1) |-> i - 1]).res

-----------------------------------------------------------------------------
(* The inverse, by Euclid's algorithm on cells one longer than an element. *)

deg(p) == Max(p)
left_shift(v, k) == {i \in Shift(v, k) : i < 2 * Ord}

EgcdStep(s) ==
    LET swapped == deg(s.u) < deg(s.v)
        u  == IF swapped THEN s.v ELSE s.u      v  == IF swapped THEN s.u ELSE s.v
        g1 == IF swapped THEN s.g2 ELSE s.g1    g2 == IF swapped THEN s.g1 ELSE s.g2
        j  == deg(u) - deg(v)
    IN  [u |-> Plus(u, left_shift(v, j)), v |-> v,
         g1 |-> Plus(g1, left_shift(g2, j)), g2 |-> g2]

\* Every step lowers the sum of the degrees.
egcd(a, b) ==
    FoldLeft(LAMBDA s, n : IF s.u = one THEN s ELSE EgcdStep(s),
             [u |-> a, v |-> b, g1 |-> one, g2 |-> zero], [n \in 1..2 * Ord + 2 |-> n]).g1

c_inv(a)      == Low(egcd(a, irr_poly_index))
Quotient(a, b) == c_mul(a, c_inv(b))

-----------------------------------------------------------------------------
(* Vectors of elements, indexed from 0, and affine spaces over a basis.    *)

PlusOver(S, Term(_)) == {i \in 0..Ord - 1 : Cardinality({s \in S : i \in Term(s)}) % 2 = 1}

getSpaceElementByIndex(orderedBasis, affineShift, index) ==
    Plus(affineShift, PlusOver({b \in Bits(index) : b < Len(orderedBasis)},
                               LAMBDA b : orderedBasis[b + 1]))

getStandartOrderedBasis(basisSize) == [i \in 1..basisSize |-> {i - 1}]

-----------------------------------------------------------------------------
(* The reference: multiplication as the remainder of the product by the    *)
(* modulus, and the value of a polynomial.                                 *)
Remainders == [n \in 0..2 * Ord - 2 |-> PowerOfX(n, irr_poly_index)]
Product(a, b) == PlusOver(clmul(a, b), LAMBDA n : Remainders[n])

\* Horner's rule on coefficients indexed from 0.
Value(coefficients, x) ==
    FoldLeft(LAMBDA value, k : Plus(Product(value, x), coefficients[k]),
             zero, Reverse([k \in 1..Cardinality(DOMAIN coefficients) |-> k - 1]))
=============================================================================

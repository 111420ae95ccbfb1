---------------------------- MODULE Polynomials -----------------------------
(***************************************************************************)
(* Univariate polynomials (UnivariatePolynomialGeneral) as functions from  *)
(* exponents to coefficients, 0 to the size of the vector less one, and    *)
(* the linearised polynomials of subspaces (SubspacePolynomial), whose     *)
(* coefficient j belongs to x^(2^j).                                       *)
(***************************************************************************)
EXTENDS FieldArithmetic

Size(p)   == Cardinality(DOMAIN p)

\* The same function: TLC computes its values once.
Tabulated(p) == p @@ <<>>
Constant(c) == [i \in {0} |-> c]

\* The highest coefficient that is not zero; -1 for the zero polynomial.
getDegree(p) == Max({-1} \cup {i \in DOMAIN p : p[i] # zero})

\* Horner's rule.
polyEval(p, x) ==
    FoldLeft(LAMBDA res, k : c_mulXor(res, x, p[Size(p) - k]), zero, [k \in 1..Size(p) |-> k])

power(x, n) == c_exp(x, n)

\* In place: p multiplied by x - r.
multiplyByRootPoly(p, r) ==
    LET n == Size(p)
    IN  Tabulated([i \in 0..n |-> CASE i = 0 -> c_mul(p[0], r)
                                    [] i = n -> p[n - 1]
                                    [] OTHER -> Plus(p[i - 1], c_mul(r, p[i]))])

FromRoots(roots) == FoldSet(LAMBDA r, p : multiplyByRootPoly(p, r), Constant(one), roots)

scaled(p, factor) == Tabulated([i \in DOMAIN p |-> c_mul(p[i], factor)])
add(p, q) ==
    Tabulated([i \in 0..Max({Size(p) - 1, getDegree(q)}) |->
        Plus(IF i < Size(p) THEN p[i] ELSE zero, IF i <= getDegree(q) THEN q[i] ELSE zero)])

\* Lagrange's interpolation of a table from points to values.
FromEvaluation(table) ==
    LET lagrange(x) == scaled(FromRoots(DOMAIN table \ {x}),
                              Quotient(table[x], FoldSet(LAMBDA y, d : c_mul(d, Plus(x, y)),
                                                         one, DOMAIN table \ {x})))
    IN  FoldSet(LAMBDA x, p : add(p, lagrange(x)), <<>>, DOMAIN table)

\* Long division by d; the leading coefficient of d is taken for one.
divideByMe(d, dividend) ==
    LET m == getDegree(d)
        n == getDegree(dividend)
        Step(s, e) ==
            IF s.r[e] = zero THEN s
            ELSE [q |-> [s.q EXCEPT ![e - m] = Plus(@, s.r[e])],
                  r |-> Tabulated([i \in DOMAIN s.r |->
                            IF i >= e - m /\ i < e THEN Plus(s.r[i], c_mul(s.r[e], d[i - (e - m)]))
                            ELSE s.r[i]])]
    IN  IF n < m THEN <<>>
        ELSE FoldLeft(Step, [q |-> [i \in 0..n - m |-> zero], r |-> dividend],
                      [k \in 1..n - m + 1 |-> n - k + 1]).q

\* The interpolant of values given on a space, in the order of its elements.
OnSpace(values, basis, shift) ==
    FromEvaluation([x \in {getSpaceElementByIndex(basis, shift, i) : i \in DOMAIN values} |->
                       values[CHOOSE i \in DOMAIN values :
                                  getSpaceElementByIndex(basis, shift, i) = x]])

-----------------------------------------------------------------------------
(* Subspace polynomials. *)

LinearizedValue(coefficients, x) ==
    LET powers[j \in DOMAIN coefficients] == IF j = 0 THEN x ELSE c_sqr(powers[j - 1])
    IN  PlusOver(DOMAIN coefficients, LAMBDA j : c_mul(coefficients[j], powers[j]))

\* The polynomial of a space and one more vector e; e may lie in the space.
computeVanishingPoly(spanSet) ==
    FoldLeft(LAMBDA p, e :
                 LET c == LinearizedValue(p, e)
                     i == Cardinality(DOMAIN p)
                 IN  IF c = zero THEN p
                     ELSE Tabulated([j \in 0..i |-> IF j = i THEN one
                                                    ELSE IF j = 0 THEN c_mul(c, p[0])
                                                    ELSE Plus(c_mul(c, p[j]), c_sqr(p[j - 1]))]),
             [j \in {0} |-> one], spanSet)

\* The index bits are read off the coordinate bits where the basis is standard.
mapFieldElementToInteger(firstBit, numBits, e) ==
    MapThenSumSet(LAMBDA i : 2^(i - firstBit), {i \in e : i >= firstBit /\ i < firstBit + numBits})

-----------------------------------------------------------------------------
(* invertPointwise: one inversion for many elements.  Each layer holds the *)
(* products of the pairs of the layer below, an odd element goes up alone; *)
(* on the way down the inverse of a child is that of its parent times its  *)
(* brother.                                                                *)

invertPointwise(elems) ==
    LET depth == CHOOSE d \in 1..Len(elems) + 1 : 2^d >= Len(elems) /\ (d = 1 \/ 2^(d - 1) < Len(elems))
        Alone(layer, i) == i = Len(layer) /\ i % 2 = 1
        tree[l \in 0..depth] ==
            IF l = 0 THEN elems
            ELSE LET below == tree[l - 1]
                 IN  [i \in 1..(Len(below) + 1) \div 2 |->
                         IF Alone(below, 2 * i - 1) THEN below[2 * i - 1]
                         ELSE c_mul(below[2 * i - 1], below[2 * i])]
        Brother(i) == IF i % 2 = 1 THEN i + 1 ELSE i - 1
        inverses[l \in 0..depth] ==
            IF l = depth THEN <<c_inv(tree[depth][1])>>
            ELSE [i \in DOMAIN tree[l] |->
                     IF Alone(tree[l], i) THEN inverses[l + 1][(i + 1) \div 2]
                     ELSE c_mul(inverses[l + 1][(i + 1) \div 2], tree[l][Brother(i)])]
    IN  IF elems = <<>> THEN <<>> ELSE inverses[0]
=============================================================================

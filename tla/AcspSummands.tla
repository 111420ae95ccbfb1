---------------------------- MODULE AcspSummands ----------------------------
(***************************************************************************)
(* The constraint polynomial of an ACSP instance (AcspSummandsPolynomial): *)
(* Z_H(x) times a sum of tests.  A test P, a polynomial in the values of   *)
(* the witness at the neighbours of x, runs over a coset of a subspace of  *)
(* H: it is divided by the polynomial of the coset, and multiplied by      *)
(* auxiliary ones that vanish where the test is not meant.  The sum is a   *)
(* polynomial only when every test vanishes where it runs.                 *)
(*                                                                         *)
(* An assignment a is a function from 0: a[0] is the point itself, the     *)
(* others are the values of the witness there.                             *)
(***************************************************************************)
EXTENDS Polynomials

-----------------------------------------------------------------------------
(* The tests: constraints of the BAIR instance on translated inputs, and   *)
(* those of the routing network.                                           *)

PlusAll(S, Term(_)) == FoldSet(LAMBDA s, sum : Plus(sum, Term(s)), zero, S)

\* A constraint of the instance: a sum of monomials, each with a factor.
Monomials(monomials, x) ==
    PlusAll(DOMAIN monomials,
            LAMBDA m : FoldLeft(LAMBDA value, v : c_mul(value, x[v]),
                                monomials[m].factor, monomials[m].vars))

\* All constraints of the instance are tested at once, by their combination
\* with given coefficients; its degree bound does not depend on them.
getLinearComb(P, x) ==
    PlusAll(DOMAIN P.constraints, LAMBDA i : c_mul(P.coeffs[i], Monomials(P.constraints[i], x)))
combDegreeBound(P, d) ==
    Max({FoldLeft(LAMBDA sum, v : sum + d[v], 0, m.vars) : m \in UNION {Range(c) : c \in Range(P.constraints)}})

\* DeBruijnRoutingTestPoly: b * (n0 + n1) + v + n0.
DeBruijnRoutingTest(v, n0, n1, b) == Plus(c_mulXor(b, Plus(n0, n1), v), n0)

TestEval(P, a) ==
    CASE P.test = "sparceInputs" ->
             getLinearComb(P, [v \in DOMAIN P.varsTranslation |-> a[P.varsTranslation[v]]])
      [] P.test = "booleanity"  -> c_mul(a[P.vars[1]], Plus(a[P.vars[1]], one))
      [] P.test = "equivalence" -> Plus(a[P.vars[1]], a[P.vars[2]])
      [] P.test = "constVal"    -> Plus(a[P.vars[1]], P.val)
      [] P.test = "DeBruijn"    ->
             DeBruijnRoutingTest(a[P.vars[1]], a[P.vars[2]], a[P.vars[3]], a[P.vars[4]])

\* Degree bounds; inputs have degrees d, none of them -infinity.
TestDegree(P, d) ==
    CASE P.test = "sparceInputs" ->
             combDegreeBound(P, [v \in DOMAIN P.varsTranslation |-> d[P.varsTranslation[v]]])
      [] P.test = "booleanity"  -> 2 * d[P.vars[1]]
      [] P.test = "equivalence" -> Max({d[P.vars[1]], d[P.vars[2]]})
      [] P.test = "constVal"    -> d[P.vars[1]]
      [] P.test = "DeBruijn"    -> d[P.vars[4]] + Max({d[P.vars[i]] : i \in 1..3})

-----------------------------------------------------------------------------
(* Construction.  fatal stands for a call of _COMMON_FATAL. *)

AcspSummandsPolynomial(spanSetH) ==
    [Z_H |-> computeVanishingPoly(spanSetH), subspacePolys |-> <<>>, denomsVec |-> <<>>,
     summands |-> <<>>, fatal |-> FALSE]

In_H(p, x) == LinearizedValue(p.Z_H, x) = zero

\* The id of the new polynomial is its position.
addSubspacePoly(p, T) ==
    [p EXCEPT !.subspacePolys = Append(@, computeVanishingPoly(T)),
              !.fatal = @ \/ \E t \in Range(T) : ~In_H(p, t)]

addSummand(p, Z_S, shift, P, auxVec) ==
    LET value(id, x) == LinearizedValue(p.subspacePolys[id], x)
    IN  [p EXCEPT !.summands  = Append(@, [denominator |-> Len(p.denomsVec) + 1, P |-> P,
                                           auxPolys |-> [i \in DOMAIN auxVec |-> auxVec[i].id],
                                           shifts |-> [i \in DOMAIN auxVec |->
                                                          value(auxVec[i].id, auxVec[i].shift)]]),
                  !.denomsVec = Append(@, [id |-> Z_S, c |-> value(Z_S, shift)]),
                  !.fatal = @ \/ ~In_H(p, shift) \/ \E i \in DOMAIN auxVec : ~In_H(p, auxVec[i].shift)]

-----------------------------------------------------------------------------
(* Evaluation. *)

subspaceValues(p, a) ==
    [id \in DOMAIN p.subspacePolys |-> LinearizedValue(p.subspacePolys[id], a[0])]
Denominators(p, a) ==
    LET values == subspaceValues(p, a)
    IN  [i \in DOMAIN p.denomsVec |-> Plus(values[p.denomsVec[i].id], p.denomsVec[i].c)]

\* All denominators are inverted together; one that is zero is left out of the
\* product, and its inverse is put to zero afterwards.
denomsVals(p, a) ==
    LET d == Denominators(p, a)
        inverses == invertPointwise([i \in DOMAIN d |-> IF d[i] = zero THEN one ELSE d[i]])
    IN  [i \in DOMAIN d |-> IF d[i] = zero THEN zero ELSE inverses[i]]

\* A summand without its denominator.
Numerator(p, s, a) ==
    LET values == subspaceValues(p, a)
    IN  FoldLeft(LAMBDA res, i : c_mul(res, Plus(values[s.auxPolys[i]], s.shifts[i])),
                 TestEval(s.P, a), [i \in DOMAIN s.auxPolys |-> i])

\* not_a_polynomial_exeption: where the test runs and does not vanish.
NotAPolynomial(p, a) ==
    \E i \in DOMAIN p.summands :
        /\ Denominators(p, a)[p.summands[i].denominator] = zero
        /\ Numerator(p, p.summands[i], a) # zero

evalDividedByZH(p, a) ==
    LET inverses == denomsVals(p, a)
    IN  PlusAll(DOMAIN p.summands,
                LAMBDA i : c_mul(Numerator(p, p.summands[i], a),
                                 inverses[p.summands[i].denominator]))

SummandsEval(p, a) == c_mul(evalDividedByZH(p, a), LinearizedValue(p.Z_H, a[0]))

isRoot(p, a) ==
    ~NotAPolynomial(p, a) /\ (evalDividedByZH(p, a) = zero \/ In_H(p, a[0]))

getDegreeBound_DividedByZH(p, degrees) ==
    Max({TestDegree(p.summands[i].P, degrees) : i \in DOMAIN p.summands})
getDegreeBound(p, degrees) ==
    2^(Size(p.Z_H) - 1) + getDegreeBound_DividedByZH(p, degrees)
=============================================================================

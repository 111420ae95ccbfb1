---------------------------- MODULE AliQueriesMC ----------------------------
(***************************************************************************)
(* Instances over a vanishing set of four points, with one to three        *)
(* witnesses, two constraints tested together, tests on cosets with an     *)
(* auxiliary polynomial, and a boundary constraint; their witnesses, and   *)
(* three that break them.                                                  *)
(***************************************************************************)
EXTENDS AliQueries

MCCoin(s, place) ==
    Bits((197 * s + 73 * place[1] + 311 * place[2] + 59 * place[3] * place[3] + 101 * place[3]) % 512)

Same      == [c0 |-> zero, c1 |-> one]
Next1     == [c0 |-> zero, c1 |-> xFE]
Carried   == [c0 |-> {0, 2}, c1 |-> xFE]
H         == Standard(0, 2)

\* Spaces: 1 is the coset of two points, 2 is a single point.
Bare == addSubspacePoly(addSubspacePoly(AcspSummandsPolynomial(H), <<one>>), <<>>)
Mono(inputs) == [factor |-> one, vars |-> inputs]

\* The inputs are 1, 2: the first witness here and at the next point, 3: the second.
Product12 == [test |-> "sparceInputs", coeffs |-> <<one, one>>,
              constraints |-> <<<<Mono(<<1, 2>>), Mono(<<3>>)>>, <<Mono(<<3, 3>>), Mono(<<3>>)>>>>,
              varsTranslation |-> [v \in 1..3 |-> v]]
Pair == addSummand(addSummand(Bare, 1, zero, Product12, <<>>),
                   1, xFE, [test |-> "booleanity", vars |-> <<3>>], <<[id |-> 2, shift |-> xFE]>>)
Triple == addSummand(Pair, 1, xFE, [test |-> "equivalence", vars |-> <<1, 4>>], <<>>)
Single == addSummand(Bare, 1, xFE, [test |-> "constVal", vars |-> <<1>>, val |-> {3}], <<>>)

NoBoundary == <<>>
Acsp(polys, p, boundary) ==
    [H |-> H, neighborPolys |-> polys, constraintPoly |-> p, witnessDegreeBound |-> 3,
     boundaryConstraints |-> boundary]
AtX(v) == [x \in {xFE} |-> v]

OnH(at0, at1, atX, atX1) ==
    FromEvaluation([h \in {{}, {0}, {1}, {0, 1}} |->
        CASE h = {} -> at0 [] h = {0} -> at1 [] h = {1} -> atX [] OTHER -> atX1])

e == {1, 4, 5}
W0 == OnH(one, e, c_inv(e), {7})
W1 == OnH(one, one, {2, 3}, one)
W2 == OnH({6}, c_inv(e), {5}, {7})

PairAcsp   == Acsp(<<<<Same, Next1>>, <<Same>>>>, Pair, <<NoBoundary, AtX({2, 3})>>)
TripleAcsp == Acsp(<<<<Same, Next1>>, <<Same>>, <<Carried>>>>, Triple,
                   <<NoBoundary, AtX({2, 3}), NoBoundary>>)
SingleAcsp == Acsp(<<<<Same>>>>, Single, <<NoBoundary>>)

Job(acsp, witness, security) == [acsp |-> acsp, witness |-> witness, securityParameter |-> security]

Broken == {<<W0, OnH(one, {3}, {2, 3}, one)>>,                \* a constraint
           <<W0, OnH(one, one, {4}, one)>>,                   \* the boundary
           <<W0, FromEvaluation([x \in {{}, {0}, {1}, {0, 1}, {2}} |->
                                    IF x = {1} THEN {2, 3} ELSE IF x = {2} THEN {8} ELSE one])>>}  \* the degree

PassJobs == {Job(PairAcsp, <<W0, W1>>, 8), Job(PairAcsp, <<W0, W1>>, 9),
             Job(TripleAcsp, <<W0, W1, W2>>, 8), Job(SingleAcsp, <<OnH({2}, {6}, {3}, {3})>>, 5)}
            \cup {Job(PairAcsp, w, 8) : w \in Broken}
MaskJobs == {Job(TripleAcsp, <<W0, W1, W2>>, 9)}

MCPlaces == {[witness |-> {0, 77, 255}, composition |-> {38}], [witness |-> {130}, composition |-> {5, 63}]}
=============================================================================

-------------------------- MODULE AcspComposition ---------------------------
(***************************************************************************)
(* ACSP instances and witnesses, the spaces the low degree tests run over, *)
(* the composition of an instance with a witness (compositionAlg of the    *)
(* BAIR reduction), and the deterministic checker.                         *)
(*                                                                         *)
(* An instance is a record:                                                *)
(*   H                   basis of the vanishing set                        *)
(*   neighborPolys       per witness, linear polynomials [c0, c1]          *)
(*   constraintPoly      see AcspSummands                                  *)
(*   witnessDegreeBound  the same for every witness, one less than a power *)
(*                       of two                                            *)
(*   boundaryConstraints per witness, a table of values it must take       *)
(* and a witness is a sequence of polynomials.                             *)
(***************************************************************************)
EXTENDS AcspSummands

CONSTANT Eta      \* SoundnessParameters::Eta, 3 in the code

POW2(n)     == 2^n
ceilLog2(n) == CHOOSE log \in 0..n : POW2(log) >= n /\ (log = 0 \/ POW2(log - 1) < n)
xFE         == {1}
Standard(first, n) == [i \in 1..n |-> {first + i - 1}]

NumWitnesses(acsp) == Len(acsp.neighborPolys)
NeighborEval(n, x) == c_mulXor(n.c1, x, n.c0)

\* The inputs of the constraint polynomial that read witnesses, in order.
Reads(acsp) == FlattenSeq([w \in 1..NumWitnesses(acsp) |->
                   [n \in DOMAIN acsp.neighborPolys[w] |-> <<w, n>>]])
Neighbor(acsp, read) == acsp.neighborPolys[read[1]][read[2]]

\* The assignment at x, when WitnessAt(read, y) is what a read finds for y.
Assignment(acsp, x, WitnessAt(_, _)) ==
    LET reads == Reads(acsp)
    IN  [i \in 0..Len(reads) |->
            IF i = 0 THEN x ELSE WitnessAt(reads[i], NeighborEval(Neighbor(acsp, reads[i]), x))]

-----------------------------------------------------------------------------
(* Degrees and spaces (PCP_common). *)

InputDegrees(acsp, witnessDegrees) ==
    LET reads == Reads(acsp)
    IN  [i \in 0..Len(reads) |-> IF i = 0 THEN 1
                                 ELSE IF Neighbor(acsp, reads[i]).c1 = zero THEN 0
                                 ELSE witnessDegrees[reads[i][1]]]

composition_div_ZH_degreeBound(acsp) ==
    getDegreeBound(acsp.constraintPoly, InputDegrees(acsp, [w \in 1..NumWitnesses(acsp) |-> acsp.witnessDegreeBound]))
    - POW2(Len(acsp.H))

witness_div_Z_Boundery_degreeBound(acsp) ==
    [w \in 1..NumWitnesses(acsp) |->
        acsp.witnessDegreeBound - Cardinality(DOMAIN acsp.boundaryConstraints[w])]

maximalPolyDegSupported_Witness(acsp) == Max(Range(witness_div_Z_Boundery_degreeBound(acsp)))

\* The standard basis, its last element moved up by one power: the shift is
\* the element it would have been.
basisForWitness(acsp) ==
    LET maxDegree == Max({composition_div_ZH_degreeBound(acsp), 2}
                         \cup Range(witness_div_Z_Boundery_degreeBound(acsp)))
        rank      == ceilLog2(maxDegree) + Eta + 2
    IN  [basis |-> [Standard(0, rank) EXCEPT ![rank] = Plus(@, {rank})], shift |-> {rank - 1}]

basisForConsistency(acsp) ==
    LET space == basisForWitness(acsp)
    IN  [space EXCEPT !.basis = SubSeq(@, 1, Len(@) - 2)]

boundaryPolysMatrix_logWidth(acsp, numZkMasks) == ceilLog2(NumWitnesses(acsp) + numZkMasks)

PointOf(space, i) == getSpaceElementByIndex(space.basis, space.shift, i)

-----------------------------------------------------------------------------
(* compositionAlg. *)

\* Log of the degree bound of the composition of this witness.
degBoundLog(acsp, witness) ==
    LET degBound == getDegreeBound_DividedByZH(acsp.constraintPoly,
                        InputDegrees(acsp, [w \in DOMAIN witness |-> getDegree(witness[w])]))
    IN  ceilLog2(Max({degBound + 1, 2}))

wDim(acsp) == ceilLog2(acsp.witnessDegreeBound + 1)

\* Where the witness is not kept it is evaluated on three cosets per offset,
\* and a neighbour is looked up by two of its bits and its place in the coset.
nOffsetIdx(log, dim, y) ==
    LET found == mapFieldElementToInteger(log + 2, 1, y) + 2 * mapFieldElementToInteger(dim, 1, y)
    IN  CASE found = 2 -> 0 [] found = 3 -> 2 [] OTHER -> found
witnessOffsets(genElem, carryOut) ==
    <<genElem, c_mul(genElem, xFE), Plus(c_mul(genElem, xFE), carryOut)>>
LookedUp(dim, log, genElem, y) ==
    Plus(y \cap 0..dim - 1, witnessOffsets(genElem, {dim})[nOffsetIdx(log, dim, y) + 1])

\* Evaluated where its degree needs, on the kept witness (keptAt[w, y]) or on
\* the witness itself, then extended to the space: the polynomial is moved so
\* that it was evaluated on a space without shift.
compositionAlg(acsp, witness, kept, keptAt) ==
    LET log    == degBoundLog(acsp, witness)
        dim    == wDim(acsp)
        space  == basisForConsistency(acsp)
        basis  == Standard(0, log)
        shift  == IF kept THEN space.shift ELSE {log + 1}
        genElem(i) == getSpaceElementByIndex(SubSeq(basis, dim + 1, log), shift, i \div POW2(dim))
        WitnessAt(i, read, y) ==
            IF kept THEN keptAt[read[1], y]
            ELSE polyEval(witness[read[1]], LookedUp(dim, log, genElem(i), y))
        evaluation == [i \in 0..POW2(log) - 1 |->
            evalDividedByZH(acsp.constraintPoly,
                Assignment(acsp, getSpaceElementByIndex(basis, shift, i),
                           LAMBDA read, y : WitnessAt(i, read, y)))]
    IN  [poly |-> OnSpace(evaluation, basis, zero), moved |-> shift]

\* The element of the extension at a point of the space.
CompositionAt(composition, x) == polyEval(composition.poly, Plus(x, composition.moved))

-----------------------------------------------------------------------------
(* AcspWitnessChecker. *)

\* evaluatedUniPoly: a witness is evaluated on a space once, and directly
\* outside of it, which is the same value.
VanishesAt(acsp, witness, x) ==
    isRoot(acsp.constraintPoly, Assignment(acsp, x, LAMBDA read, y : polyEval(witness[read[1]], y)))

verify_vanishing(acsp, witness) ==
    \A i \in 0..POW2(Len(acsp.H)) - 1 :
        VanishesAt(acsp, witness, getSpaceElementByIndex(acsp.H, zero, i))

verify_witness_degree(acsp, witness) ==
    \A w \in DOMAIN witness : acsp.witnessDegreeBound >= getDegree(witness[w])

verify_boundary(acsp, witness) ==
    \A w \in DOMAIN witness : \A x \in DOMAIN acsp.boundaryConstraints[w] :
        polyEval(witness[w], x) = acsp.boundaryConstraints[w][x]

AcspWitnessChecker(acsp, witness) ==
    /\ verify_vanishing(acsp, witness)
    /\ verify_witness_degree(acsp, witness)
    /\ verify_boundary(acsp, witness)
=============================================================================

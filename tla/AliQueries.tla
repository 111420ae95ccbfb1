----------------------------- MODULE AliQueries -----------------------------
(***************************************************************************)
(* What the ALI prover commits to, and what the verifier reads of it.      *)
(*                                                                         *)
(* The prover commits to a matrix: a row per point of the witness space,   *)
(* a column per witness, divided by its boundary constraints, and one per  *)
(* mask.  From it and from the verifier's coefficients it computes, per    *)
(* repetition, one table for the FRI run on the witness and one for the    *)
(* run on the composition.  The verifier holds neither table: for each     *)
(* place FRI asks about it computes the value itself, from entries of the  *)
(* matrix and of the composition masks, which it requests in pairs of      *)
(* blocks.  The two parties find the entries by different ways, and the    *)
(* prover keeps the matrix or computes cosets of it again.                 *)
(*                                                                         *)
(* Random elements are Coin(seed, place).                                  *)
(***************************************************************************)
EXTENDS AcspComposition

CONSTANTS Jobs,      \* [acsp, witness, securityParameter]
          Seeds, Coin(_, _),
          Places,    \* what FRI may ask about: [witness, composition], sets of indexes
          MaxParallel \* cosets computed at once, a power of two

\* 32 bytes hold four elements; blocks are read in pairs.
getBlockSize          == 4
getBlockIndex(i)      == i \div getBlockSize
getOffsetInBlock(i)   == i % getBlockSize
getElementIndex(b)    == b * getBlockSize
PairSize              == 2 * getBlockSize

VARIABLES job, phase,
          seed,       \* of the verifier's coefficients
          kept,       \* entireWitnessKept_
          columns,    \* coefficients of the columns of the matrix, from 0
          zkMasks,    \* of the masks of the composition, per repetition
          tables,     \* the tables given to FRI, per repetition
          asked,      \* the places FRI asks about, per repetition
          answers,    \* of the matrix: pair index -> its elements
          evaluated   \* cosets whose queries are answered
vars == <<job, phase, seed, kept, columns, zkMasks, tables, asked, answers, evaluated>>

-----------------------------------------------------------------------------
(* Instances.  Each side reduces the BAIR instance with coefficients for   *)
(* its constraints: the check takes ones, the prover zeros until it knows  *)
(* the verifier's.                                                         *)

maxSoundnessPerComb == Ord - 1
Repetitions == (job.securityParameter + maxSoundnessPerComb - 1) \div maxSoundnessPerComb

\* All tests of constraints get the coefficients, those of routing have none.
reduceInstance(acsp, coeffs) ==
    [acsp EXCEPT !.constraintPoly.summands =
        [i \in DOMAIN @ |-> IF @[i].P.test # "sparceInputs" THEN @[i]
                            ELSE [@[i] EXCEPT !.P.coeffs = [c \in DOMAIN @ |-> coeffs[c]]]]]

checkedInstance == reduceInstance(job.acsp, [c \in Nat |-> one])
firstInstance   == reduceInstance(job.acsp, [c \in Nat |-> zero])
instance(rep)   == reduceInstance(job.acsp, [c \in Nat |-> Coin(seed, <<1, rep, c>>)])

numWitnesses == NumWitnesses(job.acsp)
Witnesses    == 1..numWitnesses
Reps         == 1..Repetitions

-----------------------------------------------------------------------------
(* The matrix. *)

Z_X(acsp, w) == FromRoots(DOMAIN acsp.boundaryConstraints[w])
Ax(acsp, w)  == FromEvaluation(acsp.boundaryConstraints[w])

getWitnessesCoefficients(acsp, w) ==
    IF DOMAIN acsp.boundaryConstraints[w] = {} THEN job.witness[w]
    ELSE divideByMe(Z_X(acsp, w), add(Ax(acsp, w), job.witness[w]))

witnessDegLog(acsp)  == ceilLog2(acsp.witnessDegreeBound)
initWitness_ZkMask_coeffs(s, rep) ==
    [i \in 0..POW2(witnessDegLog(firstInstance)) - 1 |-> Coin(s, <<2, rep, i>>)]
ZK_Composition_mask(s, rep) ==
    [i \in 0..composition_div_ZH_degreeBound(firstInstance) |-> Coin(s, <<3, rep, i>>)]

witnessCoeffs(s) ==
    [c \in 0..numWitnesses + Repetitions - 1 |->
        IF c < numWitnesses THEN getWitnessesCoefficients(firstInstance, c + 1)
        ELSE initWitness_ZkMask_coeffs(s, c - numWitnesses + 1)]

\* The columns after the masks, up to a power of two, are zero.
matrixWidth == POW2(boundaryPolysMatrix_logWidth(firstInstance, Repetitions))
ColumnAt(c, x) == IF c \in DOMAIN columns THEN polyEval(columns[c], x) ELSE zero

cosetSize   == POW2(witnessDegLog(firstInstance))
shiftsBasis(space) == SubSeq(space.basis, witnessDegLog(firstInstance) + 1, Len(space.basis))

\* One coset of the matrix, as the transform lays it out.
CosetEval(affineShift, i) ==
    ColumnAt(i % matrixWidth,
             getSpaceElementByIndex(getStandartOrderedBasis(witnessDegLog(firstInstance)),
                                    affineShift, i \div matrixWidth))

\* An element of the matrix that is kept.
getElement(i) ==
    LET space == basisForWitness(firstInstance)
    IN  ColumnAt(i % matrixWidth, PointOf(space, i \div matrixWidth))

\* cachedPoly_t: a witness read back from the kept matrix.
cachedEval(acsp, w, x) ==
    LET space == basisForWitness(acsp)
        index == mapFieldElementToInteger(0, Len(space.basis), Plus(x, space.shift))
        value == getElement(index * POW2(boundaryPolysMatrix_logWidth(acsp, Repetitions)) + w - 1)
    IN  IF DOMAIN acsp.boundaryConstraints[w] = {} THEN value
        ELSE Plus(c_mul(value, polyEval(Z_X(acsp, w), x)), polyEval(Ax(acsp, w), x))

-----------------------------------------------------------------------------
(* The coefficients of the verifier, and the tables for FRI. *)

degShift(w) ==
    LET first == instance(1)
    IN  maximalPolyDegSupported_Witness(first) - witness_div_Z_Boundery_degreeBound(first)[w]
coeffUnshifted(w, rep) == Coin(seed, <<4, rep, w>>)
coeffShifted(w, rep)   == Coin(seed, <<5, rep, w>>)
ZK_mask_composition(rep) == Coin(seed, <<6, rep, 1>>)

\* The columns are combined on the coset without shift, and the combination is
\* extended to the space.  The rows are read with the width of a matrix that
\* has one mask.
numColumns == POW2(ceilLog2(1 + numWitnesses))
computeUnivariateForPCPP_Witness(rep) ==
    LET basis     == getStandartOrderedBasis(witnessDegLog(instance(1)))
        zkMaskIdx == numWitnesses + rep - 1
        evaluation(i) == CosetEval(zero, i)
        cosetVal(xIdx) ==
            LET x == getSpaceElementByIndex(basis, zero, xIdx)
            IN  Plus(evaluation(xIdx * numColumns + zkMaskIdx),
                     PlusAll(Witnesses, LAMBDA w :
                         c_mul(evaluation(xIdx * numColumns + w - 1),
                               c_mulXor(coeffShifted(w, rep), power(x, degShift(w)),
                                        coeffUnshifted(w, rep)))))
    IN  OnSpace([xIdx \in 0..cosetSize - 1 |-> cosetVal(xIdx)], basis, zero)

compositionPolysEvaluation(rep) ==
    compositionAlg(instance(rep), job.witness, kept,
                   [w \in Witnesses, x \in Field |-> cachedEval(instance(rep), w, x)])
computeUnivariateForPCPP_Composition(rep) ==
    [compositionPolysEvaluation(rep) EXCEPT !.poly = scaled(@, ZK_mask_composition(rep))]

\* The elements of the tables.
WitnessTableAt(rep, x) == polyEval(tables[rep].witness, PointOf(basisForWitness(firstInstance), x))
CompositionTableAt(rep, x) ==
    LET point == PointOf(basisForConsistency(firstInstance), x)
    IN  Plus(CompositionAt(tables[rep].composition, point), polyEval(zkMasks[rep], point))

-----------------------------------------------------------------------------
(* The verifier's requests: indexes in the matrix. *)

numWitnessColumns == POW2(boundaryPolysMatrix_logWidth(instance(1), Repetitions))

mutMaskIndex(rep, x) == x * numWitnessColumns + numWitnesses
MaskIndex(rep, x)    == x * numWitnessColumns + numWitnesses + rep - 1
WitnessIndex(w, x)   == x * numWitnessColumns + w - 1

consistencyPoint(x) == PointOf(basisForConsistency(instance(1)), x)
mutNeighborIndex(read, x) ==
    LET space == basisForWitness(instance(1))
    IN  WitnessIndex(read[1], mapFieldElementToInteger(0, Len(space.basis),
                                  NeighborEval(Neighbor(instance(1), read), consistencyPoint(x))))
NeighborIndex(read, x) ==
    LET space == basisForWitness(instance(1))
        value == NeighborEval(Neighbor(instance(1), read), consistencyPoint(x))
    IN  WitnessIndex(read[1], mapFieldElementToInteger(0, Len(space.basis), Plus(value, space.shift)))

digestQueries ==
    UNION {UNION {{MaskIndex(rep, x)} \cup {WitnessIndex(w, x) : w \in Witnesses} :
                      x \in asked[rep].witness} : rep \in Reps}
    \cup UNION {{NeighborIndex(read, x) : read \in Range(Reads(job.acsp)), x \in asked[rep].composition} :
                    rep \in Reps}

getRawQuery == {getBlockIndex(i) \div 2 : i \in digestQueries}

-----------------------------------------------------------------------------
(* The prover's answers. *)

answerQueries == [pair \in getRawQuery |->
    [e \in 0..PairSize - 1 |-> getElement(getElementIndex(2 * pair) + e)]]

\* Without the matrix, the queries of each coset are answered from the coset.
cosetElements == cosetSize * matrixWidth
CosetOf(pair) == getElementIndex(2 * pair) \div cosetElements
cosetsWithQueries == {CosetOf(pair) : pair \in getRawQuery}

CosetAnswers(coset) ==
    LET space == basisForWitness(firstInstance)
        affineShift == getSpaceElementByIndex(shiftsBasis(space), space.shift, coset)
        local(pair) == getBlockIndex(getElementIndex(2 * pair) % cosetElements) \div 2
        joined(l)   == getBlockIndex(getElementIndex(2 * l) + coset * cosetElements) \div 2
        locals      == {local(pair) : pair \in {p \in getRawQuery : CosetOf(p) = coset}}
    IN  [pair \in {joined(l) : l \in locals} |->
            LET l == CHOOSE found \in locals : joined(found) = pair
            IN  [e \in 0..PairSize - 1 |-> CosetEval(affineShift, getElementIndex(2 * l) + e)]]

-----------------------------------------------------------------------------
(* The verifier's own values. *)

\* fetchResults: an element of a block that was read.
fetched(i) == answers[getBlockIndex(i) \div 2][i % PairSize]

calculate_witness(rep, x) ==
    LET point == PointOf(basisForWitness(instance(1)), x)
    IN  Plus(fetched(MaskIndex(rep, x)),
             PlusAll(Witnesses, LAMBDA w :
                 c_mul(c_mulXor(power(point, degShift(w)), coeffShifted(w, rep), coeffUnshifted(w, rep)),
                       fetched(WitnessIndex(w, x)))))

calculateCompositionValue(rep, x) ==
    LET acsp  == instance(rep)
        alpha == consistencyPoint(x)
        input(read, y) == Plus(c_mul(fetched(NeighborIndex(read, x)), polyEval(Z_X(acsp, read[1]), y)),
                               polyEval(Ax(acsp, read[1]), y))
    IN  Quotient(SummandsEval(acsp.constraintPoly, Assignment(acsp, alpha, input)),
                 LinearizedValue(acsp.constraintPoly.Z_H, alpha))

calculate(rep, x) ==
    Plus(c_mul(ZK_mask_composition(rep), calculateCompositionValue(rep, x)),
         polyEval(zkMasks[rep], consistencyPoint(x)))

-----------------------------------------------------------------------------
\* The verifier draws its coefficients and FRI's queries when it is constructed.
Init == /\ job \in Jobs
        /\ phase = "check" /\ kept = TRUE
        /\ seed \in Seeds /\ asked \in [Reps -> Places]
        /\ columns = <<>> /\ zkMasks = <<>> /\ tables = <<>>
        /\ answers = <<>> /\ evaluated = {}

\* executeProtocol with testAcsp: the witness is checked before the protocol.
Check ==
    /\ phase = "check"
    /\ phase' = IF ~AcspWitnessChecker(checkedInstance, job.witness)
                THEN "rejected" ELSE "started"
    /\ UNCHANGED <<job, seed, kept, columns, zkMasks, tables, asked, answers, evaluated>>

\* The masks are drawn; the memory of the machine decides what is kept.
EvaluateBoundaryPolys ==
    /\ phase = "started"
    /\ phase' = "committed"
    /\ \E s \in Seeds :
          /\ columns' = witnessCoeffs(s)
          /\ zkMasks' = [rep \in Reps |-> ZK_Composition_mask(s, rep)]
    /\ kept' \in BOOLEAN
    /\ UNCHANGED <<job, seed, tables, asked, answers, evaluated>>

\* The verifier's coefficients arrive; the tables are computed and given to FRI.
ReceiveRandomness ==
    /\ phase = "committed"
    /\ phase' = "answering"
    /\ tables' = [rep \in Reps |-> [witness     |-> computeUnivariateForPCPP_Witness(rep),
                                    composition |-> computeUnivariateForPCPP_Composition(rep)]]
    /\ UNCHANGED <<job, seed, kept, columns, zkMasks, asked, answers, evaluated>>

AnswerKept ==
    /\ phase = "answering" /\ kept
    /\ answers' = answerQueries
    /\ phase' = "answered"
    /\ UNCHANGED <<job, seed, kept, columns, zkMasks, tables, asked, evaluated>>

\* The cosets that are computed together, the least ones first, are answered by
\* threads in any order.
ComputedNow ==
    LET rank(c) == Cardinality({d \in cosetsWithQueries : d < c})
        least   == Min(cosetsWithQueries \ evaluated)
    IN  {c \in cosetsWithQueries \ evaluated : rank(c) \div MaxParallel = rank(least) \div MaxParallel}

AnswerCoset ==
    /\ phase = "answering" /\ ~kept
    /\ \E coset \in ComputedNow :
          /\ answers' = answers @@ CosetAnswers(coset)
          /\ evaluated' = evaluated \cup {coset}
    /\ phase' = IF evaluated' = cosetsWithQueries THEN "answered" ELSE phase
    /\ UNCHANGED <<job, seed, kept, columns, zkMasks, tables, asked>>

Done == phase \in {"rejected", "answered"} /\ UNCHANGED vars

Next == \/ Check \/ EvaluateBoundaryPolys \/ ReceiveRandomness \/ AnswerKept
        \/ AnswerCoset
        \/ Done

Spec == Init /\ [][Next]_vars

-----------------------------------------------------------------------------
(* For a witness the check accepted, the value of the witness table that   *)
(* the verifier computes at a place, from the matrix, is the one FRI's     *)
(* prover holds there (computeUnivariateForPCPP_Witness against            *)
(* calculate_witness).                                                     *)
WitnessAnswersAgree ==
    phase = "answered" =>
        \A rep \in Reps : \A x \in asked[rep].witness :
            calculate_witness(rep, x) = WitnessTableAt(rep, x)

(* And its value of the composition, by the constraints on the matrix, is  *)
(* the one of the table, which is extended from a few points               *)
(* (compositionAlg against calculateCompositionValue).                     *)
CompositionAnswersAgree ==
    phase = "answered" =>
        \A rep \in Reps : \A x \in asked[rep].composition :
            calculate(rep, x) = CompositionTableAt(rep, x)

(* verifier.cpp:228, "The zk mask of the i'th LDE is the i'th poly after   *)
(* witness": so it is where the verifier reads it; and it should be where  *)
(* the prover reads it in the rows of the coset.                           *)
MaskIsPolyAfterWitness ==
    phase = "answering" =>
        \A rep \in Reps : \A xIdx \in 0..cosetSize - 1 :
            LET column == numWitnesses + rep - 1
            IN  CosetEval(zero, xIdx * numColumns + column) =
                    polyEval(columns[column],
                             getSpaceElementByIndex(getStandartOrderedBasis(witnessDegLog(instance(1))),
                                                    zero, xIdx))
=============================================================================

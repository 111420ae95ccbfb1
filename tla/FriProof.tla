------------------------------ MODULE FriProof ------------------------------
(***************************************************************************)
(* One FRI instance between its two parties (protocols/Fri).  A polynomial *)
(* is given by its values over a space; a layer folds every row of four    *)
(* values into one value, by interpolating the row and evaluating at a     *)
(* random column; the last layer is small enough to be read whole.  The    *)
(* verifier draws all its coins when it is constructed: columns, and a row *)
(* per path to follow through the layers.  It reveals the columns layer by *)
(* layer, each after the commitments to the layer before, then the         *)
(* positions it wants to see, and answers travel through pointers to the   *)
(* tests that wait for them.                                               *)
(*                                                                         *)
(* A space is named by its basis, a sequence of labels, and an element by  *)
(* the set of labels it is the sum of.  The map that takes a space to the  *)
(* space of the next layer is linear, vanishes on the rows' directions and *)
(* is injective on the others, so a layer's basis keeps the labels of the  *)
(* directions that are left.  The value of layer p (the columns drawn on   *)
(* the way to it) at element e is <<p, e>>: values are told apart by where *)
(* they belong, and interpolation works on a row and on nothing else.      *)
(***************************************************************************)
EXTENDS Integers, FiniteSets, SequencesExt

CONSTANTS
    Instances,   \* what a verifier may be constructed with
    ColumnIds,   \* the columns it may draw
    Garbage      \* a value nobody computed

dimReduction == 2
logBlock     == 1      \* logBytesPerHash - log sizeof(FieldElement)

POW2(k) == 2 ^ k

\* basisSize and logDegBound of an instance to the number of layers below it.
calculateRecursionDepth(dim, logDegBound) ==
    Min({logDegBound \div dimReduction, (dim - (2 + logBlock)) \div dimReduction})

\* An instance without layers would compare its positions in the input with a
\* commitment nobody made.
ASSUME InstancesAssumption ==
    \A inst \in Instances :
        /\ inst.L0isMSB \in BOOLEAN
        /\ {inst.dim, inst.logDegBound} \subseteq Nat
        /\ {inst.numComitmentPaths, inst.numQueryPaths} \subseteq Nat \ {0}
        /\ calculateRecursionDepth(inst.dim, inst.logDegBound) >= 1

\* Garbage is no value of any layer.
ASSUME GarbageAssumption ==
    \A inst \in Instances : \A e \in SUBSET (1..inst.dim) :
        \A d \in 0..calculateRecursionDepth(inst.dim, inst.logDegBound) :
            \A p \in [1..d -> ColumnIds] : Garbage # <<p, e>>

VARIABLES
    inst,          \* the instance
    rsResults,     \* how many RS_results_ have been given queries
    paths,         \* Consistency_path_results_: the columns and the sigments
    univariate,    \* queries to the input, which the caller answers
    proof,         \* queries to the layers: where, and the place for the answer
    tree,          \* the layers with subproofs, as the paths to them
    requests,      \* currProofRequests_
    commitment,    \* the commitments the verifier has filed
    evaluations,   \* the layers the prover has evaluated
    message,       \* the request or the responce on its way
    answers,       \* what the places hold
    stage, accepted

drawn == <<inst, rsResults, paths, univariate, proof, tree>>
vars  == <<drawn, requests, commitment, evaluations, message, answers, stage, accepted>>

Depth == calculateRecursionDepth(inst.dim, inst.logDegBound)

-----------------------------------------------------------------------------
(* Spaces, rows and columns (Fri/common). *)

getSpaceElementByIndex(basis, idx) ==
    {basis[k] : k \in {n \in DOMAIN basis : (idx \div POW2(n - 1)) % 2 = 1}}

getL0Basis(basis) ==
    IF inst.L0isMSB THEN SubSeq(basis, Len(basis) - dimReduction + 1, Len(basis))
                    ELSE SubSeq(basis, 1, dimReduction)
getL1Basis(basis) ==
    IF inst.L0isMSB THEN SubSeq(basis, 1, Len(basis) - dimReduction)
                    ELSE SubSeq(basis, dimReduction + 1, Len(basis))

\* Element idxL0 of row idxL1.
mutBasisLIndex(basis, idxL0, idxL1) == idxL0 + idxL1 * POW2(dimReduction)
getBasisLIndex(basis, idxL0, idxL1) ==
    IF inst.L0isMSB THEN idxL1 + idxL0 * POW2(Len(basis) - dimReduction)
                    ELSE idxL0 + idxL1 * POW2(dimReduction)

BasisAt(depth) ==
    LET basis[d \in 0..depth] ==
            IF d = 0 THEN [k \in 1..inst.dim |-> k] ELSE getL1Basis(basis[d - 1])
    IN  basis[depth]

Positions(basis) == 0..POW2(Len(basis)) - 1
RowSize == POW2(dimReduction)
Rows(basis) == Positions(getL1Basis(basis))

\* The value at column of the polynomial through a row: L0 is the space of the
\* row, offset where it begins.
Interpolate(row, L0, offset, column) ==
    IF \E p \in tree \cup {<<>>} :
          \A i \in 0..RowSize - 1 :
              row[i] = <<p, offset \cup getSpaceElementByIndex(L0, i)>>
    THEN <<Append(row[0][1], column), offset>>
    ELSE Garbage

getBlockIndex(x)    == x \div POW2(logBlock)
getOffsetInBlock(x) == x % POW2(logBlock)

-----------------------------------------------------------------------------
(* The verifier's constructor. *)

Init ==
    /\ inst \in Instances
    /\ rsResults = 0 /\ paths = <<>> /\ univariate = {} /\ proof = {} /\ tree = {}
    /\ requests = <<>> /\ commitment = [p \in {<<>>} |-> Garbage]
    /\ evaluations = [p \in {<<>>} |->
           [x \in Positions(BasisAt(0)) |-> <<<<>>, getSpaceElementByIndex(BasisAt(0), x)>>]]
    /\ message = <<>> /\ answers = [place \in {} |-> Garbage]
    /\ stage = "draw" /\ accepted = FALSE

query(at, idx, place) == [at |-> at, idx |-> idx, place |-> place]

\* One column per layer, drawn afresh; all of the last layer is queried.
addRandomComitmentPath ==
    /\ stage = "draw" /\ rsResults < inst.numComitmentPaths
    /\ \E columns \in [1..Depth -> ColumnIds] :
         /\ tree'  = tree \cup {SubSeq(columns, 1, d) : d \in 1..Depth}
         /\ proof' = proof \cup {query(columns, x, <<"rs", rsResults + 1, x>>) :
                                    x \in Positions(BasisAt(Depth))}
    /\ rsResults' = rsResults + 1
    /\ UNCHANGED <<inst, paths, univariate, requests, commitment, evaluations,
                   message, answers, stage, accepted>>

mutNextSigment(sigment) == sigment
nextSigment(sigment) == sigment \div POW2(dimReduction)

\* The sigments of a path from the first one down.
Sigments(first) ==
    LET sigment[d \in 1..Depth] == IF d = 1 THEN first ELSE nextSigment(sigment[d - 1])
    IN  sigment

PointQueries(q, path) ==
    {query(SubSeq(path.columns, 1, d), path.sigments[d], <<"point", q, d>>) : d \in 1..Depth}

RowQueries(q, path, d) ==
    {query(SubSeq(path.columns, 1, d - 1),
           getBasisLIndex(BasisAt(d - 1), i, path.sigments[d]),
           <<"row", q, d, i>>) : i \in 0..RowSize - 1}

\* Columns among the committed ones, a row of the input, and for each layer a
\* row of it and the point the row folds to.
addRandomQueryPath ==
    /\ stage = "draw" /\ rsResults = inst.numComitmentPaths
    /\ Len(paths) < inst.numQueryPaths
    /\ \E columns \in {p \in tree : Len(p) = Depth} : \E first \in Rows(BasisAt(0)) :
         LET path == [columns |-> columns, sigments |-> Sigments(first)]
             q    == Len(paths) + 1
         IN  /\ paths' = Append(paths, path)
             /\ univariate' = univariate \cup RowQueries(q, path, 1)
             /\ proof' = proof \cup PointQueries(q, path)
                               \cup UNION {RowQueries(q, path, d) : d \in 2..Depth}
    /\ UNCHANGED <<inst, rsResults, tree, requests, commitment, evaluations,
                   message, answers, stage, accepted>>

\* recieveProofConstructionComitments: the requests after these.
Children(p) == {r \in tree : Len(r) = Len(p) + 1 /\ Front(r) = p}
NextRequests(reqs) == FlattenSeq([n \in DOMAIN reqs |-> SetToSeq(Children(reqs[n]))])

Constructed ==
    /\ stage = "draw" /\ Len(paths) = inst.numQueryPaths
    /\ requests' = NextRequests(<<<<>>>>)
    /\ stage' = "verifier"
    /\ UNCHANGED <<drawn, commitment, evaluations, message, answers, accepted>>

-----------------------------------------------------------------------------
(* The layers. *)

\* getRawQuery: blocks are read in pairs.
RawQueries ==
    [p \in tree |-> {getBlockIndex(q.idx) \div 2 : q \in {r \in proof : r.at = p}}]

mutRequest == [build |-> requests, data |-> RawQueries]
Request == IF requests # <<>> THEN [build |-> requests, data |-> [p \in {} |-> {}]]
                              ELSE [build |-> <<>>, data |-> RawQueries]

VerifierSends ==
    /\ stage = "verifier"
    /\ message' = Request
    /\ stage' = "prover"
    /\ UNCHANGED <<drawn, requests, commitment, evaluations, answers, accepted>>

\* addSubproof's evaluation of a column: currOffset is the element of the
\* column the value is for, BasisL0 the space of the row it interpolates.
Fold(evaluation, depth, column) ==
    LET basis == BasisAt(depth)
    IN  [g \in Rows(basis) |->
            Interpolate([j \in 0..RowSize - 1 |-> evaluation[getBasisLIndex(basis, j, g)]],
                        getL0Basis(basis),
                        getSpaceElementByIndex(getL1Basis(basis), g),
                        column)]

\* constructProofs: whatever is missing on the way to a requested layer is
\* evaluated, once.
constructProofs(build) ==
    LET wanted == UNION {{SubSeq(build[n], 1, d) : d \in 0..Len(build[n])} : n \in DOMAIN build}
        built[p \in wanted \cup DOMAIN evaluations] ==
            IF p \in DOMAIN evaluations THEN evaluations[p]
            ELSE Fold(built[Front(p)], Len(p) - 1, Last(p))
    IN  built

\* responceToDataQueries: pairs of blocks, as blocks of values.
answerQueries(evaluation, pairs) ==
    [b \in UNION {{2 * k, 2 * k + 1} : k \in pairs} |->
        [o \in 0..POW2(logBlock) - 1 |-> evaluation[b * POW2(logBlock) + o]]]

ProverAnswers ==
    /\ stage = "prover"
    /\ \E built \in {constructProofs(message.build)} :
         IF \E p \in DOMAIN message.data : p \notin DOMAIN built
         THEN stage' = "aborted" /\ UNCHANGED <<evaluations, message>>
         ELSE /\ evaluations' = built
              /\ message' = [comitments |-> [n \in DOMAIN message.build |-> built[message.build[n]]],
                             results |-> [p \in DOMAIN message.data |->
                                             answerQueries(built[p], message.data[p])]]
              /\ stage' = "receive"
    /\ UNCHANGED <<drawn, requests, commitment, answers, accepted>>

\* The answers are for the requests in order; nothing in them says so.
Filed(comitments) ==
    [p \in DOMAIN commitment \cup ToSet(requests) |->
        IF p \in ToSet(requests)
        THEN comitments[CHOOSE n \in DOMAIN requests : requests[n] = p]
        ELSE commitment[p]]

ReceiveComitments ==
    /\ stage = "receive" /\ requests # <<>>
    /\ IF Len(message.comitments) # Len(requests)
       THEN stage' = "aborted" /\ UNCHANGED <<commitment, requests>>
       ELSE /\ commitment' = Filed(message.comitments)
            /\ requests' = NextRequests(requests)
            /\ stage' = "verifier"
    /\ UNCHANGED <<drawn, evaluations, message, answers, accepted>>

\* Every place that waits for a position gets its value, the others keep theirs.
Answered(value) ==
    [place \in {q.place : q \in DOMAIN value} \cup DOMAIN answers |->
        IF \E q \in DOMAIN value : q.place = place
        THEN value[CHOOSE q \in DOMAIN value : q.place = place]
        ELSE answers[place]]

ResultOf(q) == message.results[q.at][getBlockIndex(q.idx)][getOffsetInBlock(q.idx)]

\* digestResults, fetchResults.
Digest ==
    /\ stage = "receive" /\ requests = <<>>
    /\ IF \E p \in tree : p \notin DOMAIN message.results
       THEN stage' = "aborted" /\ UNCHANGED answers
       ELSE /\ answers' = Answered([q \in proof |-> ResultOf(q)])
            /\ stage' = "input"
    /\ UNCHANGED <<drawn, requests, commitment, evaluations, message, accepted>>

InputAt(q) == <<<<>>, getSpaceElementByIndex(BasisAt(0), q.idx)>>

\* The caller computes the input at the queried positions from what its own
\* oracles hold there.
AnswerInput ==
    /\ stage = "input"
    /\ answers' = Answered([q \in univariate |-> InputAt(q)])
    /\ stage' = "verify"
    /\ UNCHANGED <<drawn, requests, commitment, evaluations, message, accepted>>

-----------------------------------------------------------------------------
(* The tests. *)

\* SparceMerkle shows what an opening that is accepted says of the commitment.
verifyComitment ==
    \A p \in tree : \A b \in DOMAIN message.results[p] :
        message.results[p][b] =
            [o \in 0..POW2(logBlock) - 1 |-> commitment[p][b * POW2(logBlock) + o]]

\* RS_result::verify: the values are a polynomial's, in the order of the basis.
verifyLowDegree ==
    \A n \in 1..inst.numComitmentPaths : \E p \in tree :
        \A x \in Positions(BasisAt(Depth)) :
            answers[<<"rs", n, x>>] = <<p, getSpaceElementByIndex(BasisAt(Depth), x)>>

\* ConsistencyPath_result: the row is over L0, evaluated at the column taken
\* relative to the offset of the sigment.
ConsistencyHolds(q, d) ==
    LET basis == BasisAt(d - 1)
    IN  answers[<<"point", q, d>>] # Garbage
        /\ answers[<<"point", q, d>>] =
              Interpolate([i \in 0..RowSize - 1 |-> answers[<<"row", q, d, i>>]],
                          getL0Basis(basis),
                          getSpaceElementByIndex(getL1Basis(basis), paths[q].sigments[d]),
                          paths[q].columns[d])

verifyConsistencyPaths == \A q \in DOMAIN paths : \A d \in 1..Depth : ConsistencyHolds(q, d)

Verify ==
    /\ stage = "verify"
    /\ accepted' = (verifyComitment /\ verifyLowDegree /\ verifyConsistencyPaths)
    /\ stage' = "decided"
    /\ UNCHANGED <<drawn, requests, commitment, evaluations, message, answers>>

Finished == stage \in {"decided", "aborted"} /\ UNCHANGED vars

Next ==
    \/ addRandomComitmentPath \/ addRandomQueryPath \/ Constructed
    \/ VerifierSends \/ ProverAnswers \/ ReceiveComitments \/ Digest
    \/ AnswerInput \/ Verify \/ Finished

Spec == Init /\ [][Next]_vars

-----------------------------------------------------------------------------
\* The prover of a low degree polynomial is accepted: both parties number the
\* positions of rows and columns in every layer the same way, every place of a
\* test is written, and with the value the test takes it for.
HonestAccepted == stage # "aborted" /\ (stage = "decided" => accepted)

\* Where a row ends in the low order bits of a position, a path stays on one
\* chain: the value a row folds to is a value of the next row that is read.
\* (Where it begins in the high order bits, the rows of a path are independent:
\* the next sigment is then not the row of the point.)
PathConnected ==
    ~inst.L0isMSB =>
        \A q \in DOMAIN paths : \A d \in 1..Depth - 1 :
            \E i \in 0..RowSize - 1 :
                query(SubSeq(paths[q].columns, 1, d), paths[q].sigments[d], <<"row", q, d + 1, i>>)
                    \in proof

\* A column is revealed when everything above it is committed to and filed, a
\* position when everything is.
CoinsProtected ==
    stage = "prover" =>
        \A p \in ToSet(message.build) \cup DOMAIN message.data :
            \A d \in 1..(IF p \in DOMAIN message.data THEN Len(p) ELSE Len(p) - 1) :
                /\ SubSeq(p, 1, d) \in DOMAIN commitment
                /\ commitment[SubSeq(p, 1, d)] = evaluations[SubSeq(p, 1, d)]
=============================================================================

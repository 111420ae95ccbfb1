----------------------------- MODULE AliParties -----------------------------
(***************************************************************************)
(* The two parties of the ALI protocol and the FRI sub-parties they own:   *)
(* the state of Ali/verifier.cpp, Ali/prover.cpp, Fri/verifier.cpp and     *)
(* Fri/prover.cpp, and their message handlers as operators.  A driver      *)
(* (AliSession: in one process; AliNetwork: over a socket) decides when a  *)
(* handler runs and which message it is given.                             *)
(*                                                                         *)
(* Data is abstracted to what an exchange can confuse.  A commitment is    *)
(* named by the evaluation, or the FRI layer, it commits to; an answer by  *)
(* the evaluation it opens.  The queries are drawn when the verifier is    *)
(* constructed, so only whether they were sent is of interest.             *)
(***************************************************************************)
EXTENDS Integers

CONSTANTS Repetitions,       \* combSoundness_.size()
          WitnessDepth,      \* depth_ of the FRI verifiers of the witness
          CompositionDepth   \* depth_ of the FRI verifiers of the composition

\* With no committed layer at all the verifier has no query on the witness
\* matrix and the prover never answers; the instances the reduction builds
\* are larger than that.
ASSUME RepetitionsAssumption == Repetitions \in Nat \ {0}
ASSUME DepthAssumption == /\ WitnessDepth \in Nat
                          /\ CompositionDepth \in Nat
                          /\ WitnessDepth + CompositionDepth > 0

VARIABLES
    vPhase,    \* phase_ of the verifier
    vCommit,   \* commitments stored in its state_
    vLayer,    \* per FRI verifier, the layer currProofRequests_ asks for
    vStored,   \* per FRI verifier, the layer whose commitments each layer got
    vGot,      \* per FRI verifier, recievedResults_
    vResults,  \* results digested into its state_
    pPhase,    \* phase_ of the prover
    pReps,     \* numRS_repetitions_
    pEpoch,    \* number of evaluations made of the witness and the masks
    pMade,     \* whether RS_prover_witness_ and RS_prover_composition_ exist
    pLayers,   \* per FRI prover, the layers of subproofs it holds
    pAlive,    \* per FRI prover, FALSE once deleteProof dropped state_
    pNext,     \* per FRI prover, nextResponce_
    pResults   \* nextResults_

verifierVars == <<vPhase, vCommit, vLayer, vStored, vGot, vResults>>
proverVars   == <<pPhase, pReps, pEpoch, pMade, pLayers, pAlive, pNext, pResults>>

-----------------------------------------------------------------------------
Phases == {"START_PROTOCOL", "UNIVARIATE_COMMITMENTS", "VERIFIER_RANDOMNESS",
           "RS_PROXIMITY", "QUERY", "RESULTS", "DONE"}

advancePhase(phase) ==
    CASE phase = "START_PROTOCOL"         -> "UNIVARIATE_COMMITMENTS"
      [] phase = "UNIVARIATE_COMMITMENTS" -> "VERIFIER_RANDOMNESS"
      [] phase = "VERIFIER_RANDOMNESS"    -> "RS_PROXIMITY"
      [] phase = "RS_PROXIMITY"           -> "QUERY"
      [] phase = "QUERY"                  -> "RESULTS"
      [] OTHER                            -> "DONE"

\* One FRI instance per repetition for the witness and for the composition.
RS == {"witness", "composition"} \X (1..Repetitions)

Depth(r) == IF r[1] = "witness" THEN WitnessDepth ELSE CompositionDepth
MaxDepth == IF WitnessDepth > CompositionDepth THEN WitnessDepth
                                               ELSE CompositionDepth

\* The layer asked for, or answered (0: none), and whether data is.
Exchanges == [layer : 0..MaxDepth, data : BOOLEAN]
Nothing   == [layer |-> 0, data |-> FALSE]

\* Commitments or openings: the evaluation they are of and the number of
\* composition masks they cover.
Openings  == [epoch : Nat, masks : Nat]
NoOpening == [epoch |-> 0, masks |-> 0]

VerifierMsgs == [reps : Nat, coeffs : Nat, rs : BOOLEAN,
                 fri : [RS -> Exchanges], queries : BOOLEAN]
ProverMsgs   == [commitments : Openings, rs : BOOLEAN,
                 fri : [RS -> Exchanges], results : Openings]

NoExchange    == [r \in RS |-> Nothing]
verifierMsg   == [reps |-> 0, coeffs |-> 0, rs |-> FALSE,
                  fri |-> NoExchange, queries |-> FALSE]
proverMsg     == [commitments |-> NoOpening, rs |-> FALSE,
                  fri |-> NoExchange, results |-> NoOpening]

VerifierTypeOK ==
    /\ vPhase \in Phases
    /\ vCommit \in Openings /\ vResults \in Openings
    /\ vLayer \in [RS -> 1..(MaxDepth + 1)]
    /\ vStored \in [RS -> [1..MaxDepth -> 0..MaxDepth]]
    /\ vGot \in [RS -> BOOLEAN]

ProverTypeOK ==
    /\ pPhase \in Phases
    /\ pReps \in Nat /\ pEpoch \in Nat /\ pMade \in BOOLEAN
    /\ pLayers \in [RS -> 0..MaxDepth]
    /\ pAlive \in [RS -> BOOLEAN]
    /\ pNext \in [RS -> Exchanges]
    /\ pResults \in Openings

-----------------------------------------------------------------------------
\* Constructors.  The FRI verifier starts past layer 0, which is its input.
VerifierInit ==
    /\ vPhase   = "START_PROTOCOL"
    /\ vCommit  = NoOpening
    /\ vLayer   = [r \in RS |-> 1]
    /\ vStored  = [r \in RS |-> [l \in 1..MaxDepth |-> 0]]
    /\ vGot     = [r \in RS |-> FALSE]
    /\ vResults = NoOpening

ProverInit ==
    /\ pPhase   = "START_PROTOCOL"
    /\ pReps    = 0
    /\ pEpoch   = 0
    /\ pMade    = FALSE
    /\ pLayers  = [r \in RS |-> 0]
    /\ pAlive   = [r \in RS |-> FALSE]
    /\ pNext    = NoExchange
    /\ pResults = NoOpening

-----------------------------------------------------------------------------
(* The verifier. *)

mutDoneEarly    == vPhase = "RESULTS"
doneInteracting == vPhase = "DONE"

mutDoneLate(r) == vLayer[r] > Depth(r) + 1
doneConstructingProof(r) == vLayer[r] > Depth(r)

\* Fri::Verifier::sendMessage
mutRequestEarly(r) == IF vLayer[r] >= Depth(r)
                      THEN [layer |-> 0, data |-> TRUE]
                      ELSE [layer |-> vLayer[r], data |-> FALSE]
FriRequest(r) == IF doneConstructingProof(r)
                 THEN [layer |-> 0, data |-> TRUE]
                 ELSE [layer |-> vLayer[r], data |-> FALSE]

\* A query on the witness matrix exists for every FRI instance with a layer.
HasQueries == WitnessDepth > 0 \/ CompositionDepth > 0

\* Ali::Verifier::sendMessage: the message, and what sending it changes.
\* The VERIFIER_RANDOMNESS case falls through to RS_PROXIMITY.
mutNoFallThrough  == vPhase = "RS_PROXIMITY"
CarriesFriRequest == vPhase \in {"VERIFIER_RANDOMNESS", "RS_PROXIMITY"}

VerifierMessage ==
    [verifierMsg EXCEPT
        !.reps    = IF vPhase = "START_PROTOCOL" THEN Repetitions ELSE 0,
        !.coeffs  = IF vPhase = "VERIFIER_RANDOMNESS" THEN Repetitions ELSE 0,
        !.rs      = CarriesFriRequest,
        !.fri     = IF CarriesFriRequest THEN [r \in RS |-> FriRequest(r)]
                                         ELSE NoExchange,
        !.queries = vPhase = "QUERY" /\ HasQueries]

VerifierSendFault ==
    vPhase \notin {"START_PROTOCOL", "VERIFIER_RANDOMNESS", "RS_PROXIMITY", "QUERY"}

VerifierSend ==
    /\ vPhase' = IF vPhase = "RS_PROXIMITY" THEN vPhase ELSE advancePhase(vPhase)
    /\ UNCHANGED <<vCommit, vLayer, vStored, vGot, vResults>>

\* Ali::Verifier::receiveMessage, one operator per phase.
KeepCommitments(m) ==
    /\ vPhase = "UNIVARIATE_COMMITMENTS"
    /\ vCommit' = m.commitments
    /\ vPhase'  = advancePhase(vPhase)
    /\ UNCHANGED <<vLayer, vStored, vGot, vResults>>

\* The phase ends with a message that found every FRI verifier done.
mutOverEarly  == \A r \in RS : vGot[r] \/ doneConstructingProof(r)
FriPhaseOver  == \A r \in RS : vGot[r]

\* The layer the pointer in currProofRequests_ leads to.
mutFiledStale(r) == IF vLayer[r] > 1 THEN vLayer[r] - 1 ELSE 1
filedLayer(r)    == vLayer[r]

\* Fri::Verifier::receiveMessage for every FRI verifier that is not done.
ReceiveRound(m) ==
    /\ vPhase  = "RS_PROXIMITY"
    /\ vStored' = [r \in RS |->
                     IF vGot[r] \/ doneConstructingProof(r) THEN vStored[r]
                     ELSE [vStored[r] EXCEPT ![filedLayer(r)] = m.fri[r].layer]]
    /\ vLayer' = [r \in RS |->
                     IF vGot[r] \/ doneConstructingProof(r) THEN vLayer[r]
                     ELSE vLayer[r] + 1]
    /\ vGot'   = [r \in RS |-> vGot[r] \/ doneConstructingProof(r)]
    /\ vPhase' = IF FriPhaseOver THEN advancePhase(vPhase) ELSE vPhase
    /\ UNCHANGED <<vCommit, vResults>>

DigestResults(m) ==
    /\ vPhase   = "RESULTS"
    /\ vResults' = m.results
    /\ vPhase'   = advancePhase(vPhase)
    /\ UNCHANGED <<vCommit, vLayer, vStored, vGot>>

VerifierReceive(m) == KeepCommitments(m) \/ ReceiveRound(m) \/ DigestResults(m)

\* What makes receiveMessage stop the process or read out of range: an
\* unexpected phase, commitments for masks it does not have, a missing FRI
\* message, a number of commitments other than the requested one (any two
\* layers may have the same number of subproofs, no layer has none), an
\* answer without the queried data, results for fewer masks than it has.
VerifierReceiveFault(m) ==
    \/ vPhase \notin {"UNIVARIATE_COMMITMENTS", "RS_PROXIMITY", "RESULTS"}
    \/ vPhase = "UNIVARIATE_COMMITMENTS" /\ m.commitments.masks > Repetitions
    \/ /\ vPhase = "RS_PROXIMITY"
       /\ \E r \in RS :
            /\ ~vGot[r]
            /\ \/ ~m.rs
               \/ ~doneConstructingProof(r) /\ m.fri[r].layer = 0
               \/ doneConstructingProof(r) /\ ~m.fri[r].data
    \/ vPhase = "RESULTS" /\ m.results.masks < Repetitions

\* The part of verify() that compares results with stored commitments.  The
\* commitment of layer 0 is a default digest: an FRI instance without layers
\* is queried on its input and compared with it.
verifyComitment ==
    /\ vCommit = vResults
    /\ vCommit.masks = Repetitions
    /\ \A r \in RS : /\ Depth(r) > 0
                     /\ \A l \in 1..Depth(r) : vStored[r][l] = l

-----------------------------------------------------------------------------
(* The prover. *)

\* Ali::Prover::receiveMessage, the START_PROTOCOL case.
ProverStart(m) ==
    /\ pPhase  = "START_PROTOCOL"
    /\ pReps'  = m.reps
    /\ pEpoch' = pEpoch + 1
    /\ pPhase' = advancePhase(pPhase)
    /\ UNCHANGED <<pMade, pLayers, pAlive, pNext, pResults>>

\* nextResponce_ of every FRI prover, which sendMessage copies.
mutResponceStale(m) == IF m.rs /\ pPhase = "VERIFIER_RANDOMNESS" THEN m.fri ELSE pNext
nextResponce(m)     == IF m.rs THEN m.fri ELSE pNext

\* What makes the prover call deleteProof on every FRI prover.
mutDropsSoon(m) == m.queries \/ \E r \in RS : m.fri[r].data
dropsProofs(m)  == m.queries

\* VERIFIER_RANDOMNESS builds the FRI provers and falls through to the
\* default case: each FRI message is answered from subproofs built on demand
\* with their ancestors; queries on the witness drop the FRI proofs, and are
\* answered.
ProverRound(m) ==
    LET fresh == pPhase = "VERIFIER_RANDOMNESS"
        built == [r \in RS |-> IF fresh THEN 0 ELSE pLayers[r]]
    IN  /\ pPhase # "START_PROTOCOL"
        /\ pPhase'  = IF fresh THEN advancePhase(pPhase) ELSE pPhase
        /\ pMade'   = (pMade \/ fresh)
        /\ pLayers' = [r \in RS |->
                         IF dropsProofs(m) THEN 0
                         ELSE IF m.rs /\ m.fri[r].layer > built[r]
                              THEN m.fri[r].layer ELSE built[r]]
        /\ pAlive'  = [r \in RS |-> ~dropsProofs(m) /\ (fresh \/ pAlive[r])]
        /\ pNext'   = nextResponce(m)
        /\ pResults' = IF m.queries THEN [epoch |-> pEpoch, masks |-> pReps]
                                    ELSE pResults
        /\ UNCHANGED <<pReps, pEpoch>>

ProverReceive(m) == ProverStart(m) \/ ProverRound(m)

\* Random coefficients, FRI provers or subproofs that are not there.
ProverReceiveFault(m) ==
    LET fresh == pPhase = "VERIFIER_RANDOMNESS"
    IN  \/ fresh /\ m.coeffs < pReps
        \/ /\ pPhase # "START_PROTOCOL"
           /\ \/ m.rs /\ (~(fresh \/ pMade) \/ pReps < Repetitions)
              \/ m.queries /\ (~(fresh \/ pMade) \/ pReps > Repetitions)
        \/ /\ pPhase # "START_PROTOCOL" /\ m.rs
           /\ \E r \in RS :
                \/ m.fri[r] # Nothing /\ ~(fresh \/ pAlive[r])
                \/ m.fri[r].data /\ (IF fresh THEN 0 ELSE pLayers[r]) < Depth(r)

\* Ali::Prover::sendMessage: nextResponce_ and nextResults_ are resent as
\* they are until another message replaces them.
ProverMessage ==
    IF pPhase = "UNIVARIATE_COMMITMENTS"
    THEN [proverMsg EXCEPT !.commitments = [epoch |-> pEpoch, masks |-> pReps]]
    ELSE [proverMsg EXCEPT !.rs = TRUE, !.fri = pNext, !.results = pResults]

ProverSendFault == pPhase # "UNIVARIATE_COMMITMENTS" /\ ~pMade

ProverSend ==
    /\ pPhase' = IF pPhase = "UNIVARIATE_COMMITMENTS" THEN advancePhase(pPhase)
                                                      ELSE pPhase
    /\ UNCHANGED <<pReps, pEpoch, pMade, pLayers, pAlive, pNext, pResults>>
=============================================================================

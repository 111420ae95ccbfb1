----------------------------- MODULE AliSession -----------------------------
(***************************************************************************)
(* One run of executeProtocolLocally (protocol.cpp): the driver alternates *)
(* the handlers of the two parties of AliParties until the verifier is     *)
(* done, then asks it for its decision.  Checked here: what the two phase  *)
(* machines, which advance on different handlers and disagree about most   *)
(* phases' names, owe each other.                                          *)
(***************************************************************************)
EXTENDS AliParties

VARIABLES
    turn,      \* the next call of the driver
    vMsg,      \* the last message of the verifier
    pMsg,      \* the last message of the prover
    algebra,   \* whether the low degree and the consistency tests pass
    verdict,   \* what verify() returned
    round      \* history: iterations of the driver's loop that were started

sessionVars == <<turn, vMsg, pMsg, algebra, verdict, round>>
vars == <<verifierVars, proverVars, sessionVars>>

Turns == {"verifier_sends", "prover_receives", "prover_sends",
          "verifier_receives", "verify", "decided", "aborted"}

Init ==
    /\ VerifierInit
    /\ ProverInit
    /\ turn    = "verifier_sends"
    /\ vMsg    = verifierMsg
    /\ pMsg    = proverMsg
    /\ algebra \in BOOLEAN
    /\ verdict = "none"
    /\ round   = 0

\* A fault stops the process where it is.
VerifierSends ==
    /\ turn  = "verifier_sends"
    /\ IF VerifierSendFault
       THEN turn' = "aborted" /\ UNCHANGED <<verifierVars, vMsg, round>>
       ELSE /\ turn'  = "prover_receives"
            /\ vMsg'  = VerifierMessage
            /\ round' = round + 1
            /\ VerifierSend
    /\ UNCHANGED <<proverVars, pMsg, algebra, verdict>>

ProverReceives ==
    /\ turn  = "prover_receives"
    /\ IF ProverReceiveFault(vMsg)
       THEN turn' = "aborted" /\ UNCHANGED proverVars
       ELSE turn' = "prover_sends" /\ ProverReceive(vMsg)
    /\ UNCHANGED <<verifierVars, vMsg, pMsg, algebra, verdict, round>>

ProverSends ==
    /\ turn  = "prover_sends"
    /\ IF ProverSendFault
       THEN turn' = "aborted" /\ UNCHANGED <<proverVars, pMsg>>
       ELSE turn' = "verifier_receives" /\ pMsg' = ProverMessage /\ ProverSend
    /\ UNCHANGED <<verifierVars, vMsg, algebra, verdict, round>>

VerifierReceives ==
    /\ turn  = "verifier_receives"
    /\ IF VerifierReceiveFault(pMsg)
       THEN turn' = "aborted" /\ UNCHANGED verifierVars
       ELSE /\ VerifierReceive(pMsg)
            /\ turn' = IF doneInteracting' THEN "verify" ELSE "verifier_sends"
    /\ UNCHANGED <<proverVars, vMsg, pMsg, algebra, verdict, round>>

mutVerifyEither ==
    /\ turn     = "verify"
    /\ turn'    = "decided"
    /\ verdict' = IF verifyComitment \/ algebra THEN "accept" ELSE "reject"
    /\ UNCHANGED <<verifierVars, proverVars, vMsg, pMsg, algebra, round>>

\* Both the commitment checks and the algebraic tests are always evaluated.
Verify ==
    /\ turn     = "verify"
    /\ turn'    = "decided"
    /\ verdict' = IF verifyComitment /\ algebra THEN "accept" ELSE "reject"
    /\ UNCHANGED <<verifierVars, proverVars, vMsg, pMsg, algebra, round>>

\* The driver returned, or the process stopped.
Finished == turn \in {"decided", "aborted"} /\ UNCHANGED vars

Next == \/ VerifierSends \/ ProverReceives \/ ProverSends
        \/ VerifierReceives \/ Verify \/ Finished

Spec == Init /\ [][Next]_vars
\* A single thread runs the loop: it takes its next step if there is one.
FairSpec == Spec /\ WF_vars(Next)

-----------------------------------------------------------------------------
\* Messages and states have the types of the code's structures.
TypeOK ==
    /\ VerifierTypeOK /\ ProverTypeOK
    /\ turn \in Turns
    /\ vMsg \in VerifierMsgs /\ pMsg \in ProverMsgs
    /\ algebra \in BOOLEAN
    /\ verdict \in {"none", "accept", "reject"}
    /\ round \in Nat

\* The parties' phase machines never meet in a combination one of them
\* treats as fatal, and no handler reads a commitment, FRI message, subproof
\* or result that is not there.
NeverAborted == turn # "aborted"

\* The commitment a FRI verifier files under a layer is the one the prover
\* made of that layer, although an answer carries no layer number and the
\* prover resends its last answer until it has a new one.
CommitmentsFiledRight ==
    \A r \in RS : \A l \in 1..Depth(r) : l < vLayer[r] => vStored[r][l] = l

\* FRI proofs are deleted only when every FRI verifier has its results.
ProofsOutliveQueries ==
    \A r \in RS : pMade /\ ~pAlive[r] => \A s \in RS : vGot[s]

\* An honest run is accepted exactly when the algebraic tests pass and every
\* FRI instance commits to at least one layer.
HonestRunAccepted ==
    turn = "decided" =>
        (verdict = "accept" <=> algebra /\ \A r \in RS : Depth(r) > 0)

\* The loop runs once to start, once per layer of the deepest FRI instance,
\* once for the data, once to find out that all are done and once for the
\* queries: instances with fewer layers ask again for data they already have.
RoundCount == turn \in {"verify", "decided"} => round = MaxDepth + 4

\* What the verifier committed to memory is final: a commitment it stored is
\* never replaced, by a repeated or late message of the prover.
StoredCommitmentsFinal ==
    [][ /\ vCommit # NoOpening => vCommit' = vCommit
        /\ \A r \in RS : \A l \in 1..Depth(r) :
             vStored[r][l] # 0 => vStored'[r][l] = vStored[r][l] ]_vars

\* The run is one of the interactive oracle proof: a coin is revealed by the
\* first message that carries it.
Transcript == INSTANCE IopTranscript WITH
    Chains <- RS,
    Layers <- [r \in RS |-> Depth(r)],
    committed  <- vCommit # NoOpening,
    challenged <- vMsg.rs \/ vMsg.queries,
    layerCommitted  <- [r \in RS |-> vLayer[r] - 1],
    layerChallenged <- [r \in RS |-> IF vMsg.fri[r].layer >= vLayer[r]
                                    THEN vMsg.fri[r].layer ELSE vLayer[r] - 1],
    queried  <- [r \in RS |-> vMsg.fri[r].data \/ vGot[r]],
    answered <- vGot,
    inputQueried  <- vMsg.queries,
    inputAnswered <- vPhase = "DONE",
    decision <- verdict

\* Every coin of the verifier is revealed after what it protects was
\* committed to.
ImplementsTranscript == Transcript!Spec

\* The run comes to a decision.
Termination == <>(turn = "decided")
=============================================================================

-------------------------- MODULE AliSession_proofs --------------------------
(***************************************************************************)
(* Proofs about AliSession for every number of repetitions and all depths. *)
(* The two phase machines name the moments of the run differently; the     *)
(* inductive invariant pins down every pair of phases that meet at a call  *)
(* of the driver, the message that is under way there, and how far each    *)
(* FRI instance has come in terms of the iterations of the loop.           *)
(***************************************************************************)
EXTENDS AliSession, TLAPS

Complete == [epoch |-> 1, masks |-> Repetitions]
Requests == [r \in RS |-> FriRequest(r)]

\* The phases of verifier and prover that meet at each call of the driver.
PhasesInStep ==
    LET pair == <<vPhase, pPhase>>
    IN  /\ turn = "verifier_sends" =>
             pair \in {<<"START_PROTOCOL", "START_PROTOCOL">>,
                       <<"VERIFIER_RANDOMNESS", "VERIFIER_RANDOMNESS">>,
                       <<"RS_PROXIMITY", "RS_PROXIMITY">>,
                       <<"QUERY", "RS_PROXIMITY">>}
        /\ turn = "prover_receives" =>
             pair \in {<<"UNIVARIATE_COMMITMENTS", "START_PROTOCOL">>,
                       <<"RS_PROXIMITY", "VERIFIER_RANDOMNESS">>,
                       <<"RS_PROXIMITY", "RS_PROXIMITY">>,
                       <<"RESULTS", "RS_PROXIMITY">>}
        /\ turn = "prover_sends" =>
             pair \in {<<"UNIVARIATE_COMMITMENTS", "UNIVARIATE_COMMITMENTS">>,
                       <<"RS_PROXIMITY", "RS_PROXIMITY">>,
                       <<"RESULTS", "RS_PROXIMITY">>}
        /\ turn = "verifier_receives" =>
             pair \in {<<"UNIVARIATE_COMMITMENTS", "VERIFIER_RANDOMNESS">>,
                       <<"RS_PROXIMITY", "RS_PROXIMITY">>,
                       <<"RESULTS", "RS_PROXIMITY">>}
        /\ turn \in {"verify", "decided"} => pair = <<"DONE", "RS_PROXIMITY">>

\* What the message under way, or kept by the prover, contains.
MessageComplete ==
    /\ turn = "prover_receives" =>
         /\ vMsg.rs <=> vPhase = "RS_PROXIMITY"
         /\ vMsg.queries <=> vPhase = "RESULTS"
         /\ vPhase = "UNIVARIATE_COMMITMENTS" => vMsg.reps = Repetitions
         /\ vPhase = "RS_PROXIMITY" => vMsg.fri = Requests
         /\ pPhase = "VERIFIER_RANDOMNESS" => vMsg.coeffs = Repetitions
    /\ turn = "prover_sends" =>
         /\ vPhase = "RS_PROXIMITY" => pNext = Requests
         /\ vPhase = "RESULTS" => pResults = Complete
    /\ turn = "verifier_receives" =>
         /\ vPhase = "UNIVARIATE_COMMITMENTS" => pMsg.commitments = Complete
         /\ vPhase = "RS_PROXIMITY" => pMsg.rs /\ pMsg.fri = Requests
         /\ vPhase = "RESULTS" => pMsg.results = Complete

\* What the prover has made by the phase it is in.
ProverReady ==
    /\ pMade <=> pPhase = "RS_PROXIMITY"
    /\ pPhase = "START_PROTOCOL" => pEpoch = 0
    /\ pPhase # "START_PROTOCOL" => pEpoch = 1 /\ pReps = Repetitions
    /\ pMade /\ vPhase \notin {"RESULTS", "DONE"} => \A r \in RS : pAlive[r]
    /\ \A r \in RS : pAlive[r] => /\ pMade
                                  /\ vLayer[r] - 1 <= pLayers[r]
    /\ turn \in {"prover_sends", "verifier_receives"} /\ vPhase = "RS_PROXIMITY" =>
         \A r \in RS : vLayer[r] <= Depth(r) => vLayer[r] <= pLayers[r]

\* The iterations of the FRI phase that are complete.
FriRounds == IF turn = "verifier_sends" THEN round - 1 ELSE round - 2

\* Every FRI verifier is as far as the iterations of the loop tell.
LayersInStep ==
    /\ vPhase = "START_PROTOCOL" => round = 0
    /\ vPhase = "UNIVARIATE_COMMITMENTS" => round = 1
    /\ vPhase = "VERIFIER_RANDOMNESS" => round = 1
    /\ vPhase \in {"START_PROTOCOL", "UNIVARIATE_COMMITMENTS"} =>
         \A r \in RS : vLayer[r] = 1 /\ ~vGot[r]
    /\ vPhase \in {"VERIFIER_RANDOMNESS", "RS_PROXIMITY"} =>
         /\ FriRounds \in 0..(MaxDepth + 1)
         /\ \A r \in RS :
              /\ vLayer[r] = IF FriRounds <= Depth(r) THEN FriRounds + 1
                                                      ELSE Depth(r) + 1
              /\ vGot[r] <=> FriRounds > Depth(r)
    /\ vPhase \in {"QUERY", "RESULTS", "DONE"} =>
         \A r \in RS : vLayer[r] = Depth(r) + 1 /\ vGot[r]
    /\ vPhase = "RS_PROXIMITY" /\ pPhase = "VERIFIER_RANDOMNESS" => round = 2
    /\ vPhase = "QUERY" => round = MaxDepth + 3
    /\ vPhase \in {"RESULTS", "DONE"} => round = MaxDepth + 4

\* What the verifier keeps.
VerifierKeeps ==
    /\ vCommit = IF vPhase \in {"START_PROTOCOL", "UNIVARIATE_COMMITMENTS"}
                 THEN NoOpening ELSE Complete
    /\ vPhase = "DONE" => vResults = Complete
    /\ CommitmentsFiledRight
    /\ \A r \in RS : \A l \in 1..Depth(r) : vLayer[r] <= l => vStored[r][l] = 0
    /\ verdict # "none" <=> turn = "decided"
    /\ turn = "decided" => HonestRunAccepted

IInv == /\ TypeOK
        /\ NeverAborted
        /\ PhasesInStep
        /\ MessageComplete
        /\ ProverReady
        /\ LayersInStep
        /\ VerifierKeeps

-----------------------------------------------------------------------------
\* The depths, and that some FRI instance has the greatest of them.
LEMMA ConstantFacts ==
    /\ MaxDepth \in Nat
    /\ Repetitions \in Nat /\ Repetitions > 0
    /\ \A r \in RS : Depth(r) \in Nat /\ Depth(r) <= MaxDepth
    /\ \E r \in RS : Depth(r) = MaxDepth
    /\ HasQueries
<1>. USE RepetitionsAssumption, DepthAssumption DEF RS, Depth, MaxDepth, HasQueries
<1>1. <<"witness", 1>> \in RS /\ <<"composition", 1>> \in RS
  OBVIOUS
<1>2. Depth(<<"witness", 1>>) = WitnessDepth
  OBVIOUS
<1>3. Depth(<<"composition", 1>>) = CompositionDepth
  OBVIOUS
<1>4. \E r \in RS : Depth(r) = MaxDepth
  BY <1>1, <1>2, <1>3
<1>. QED  BY <1>4

\* What a FRI verifier asks for is an exchange.
LEMMA RequestTyped ==
    ASSUME TypeOK
    PROVE  Requests \in [RS -> Exchanges] /\ NoExchange \in [RS -> Exchanges]
<1>. USE ConstantFacts
<1>1. \A r \in RS : vLayer[r] \in 1..(MaxDepth + 1)
  BY DEF TypeOK, VerifierTypeOK
<1>2. ASSUME NEW r \in RS PROVE FriRequest(r) \in Exchanges
  BY <1>1, <1>2 DEF FriRequest, doneConstructingProof, Exchanges
<1>3. NoExchange \in [RS -> Exchanges]
  BY DEF NoExchange, Nothing, Exchanges
<1>. QED  BY <1>2, <1>3 DEF Requests

\* The initial states have the type.
LEMMA InitTyped == Init => TypeOK
<1>. USE ConstantFacts
<1>. SUFFICES ASSUME Init PROVE TypeOK
  OBVIOUS
<1>1. NoExchange \in [RS -> Exchanges]
  BY DEF NoExchange, Nothing, Exchanges
<1>2. NoOpening \in Openings
  BY DEF NoOpening, Openings
<1>3. verifierMsg \in VerifierMsgs
  BY <1>1 DEF verifierMsg, VerifierMsgs
<1>4. proverMsg \in ProverMsgs
  BY <1>1, <1>2 DEF proverMsg, ProverMsgs
<1>5. /\ vLayer  = [r \in RS |-> 1]
      /\ vStored = [r \in RS |-> [l \in 1..MaxDepth |-> 0]]
      /\ vGot    = [r \in RS |-> FALSE]
      /\ pLayers = [r \in RS |-> 0]
      /\ pAlive  = [r \in RS |-> FALSE]
  BY DEF Init, VerifierInit, ProverInit
<1>6. vStored \in [RS -> [1..MaxDepth -> 0..MaxDepth]]
  <2>1. [l \in 1..MaxDepth |-> 0] \in [1..MaxDepth -> 0..MaxDepth]
    OBVIOUS
  <2>. QED  BY <1>5, <2>1
<1>7. /\ vLayer \in [RS -> 1..(MaxDepth + 1)] /\ vGot \in [RS -> BOOLEAN]
      /\ pLayers \in [RS -> 0..MaxDepth] /\ pAlive \in [RS -> BOOLEAN]
  BY <1>5
<1>8. /\ vPhase \in Phases /\ pPhase \in Phases /\ turn \in Turns
      /\ vCommit = NoOpening /\ vResults = NoOpening /\ pResults = NoOpening
      /\ pReps \in Nat /\ pEpoch \in Nat /\ pMade \in BOOLEAN
      /\ pNext = NoExchange /\ vMsg = verifierMsg /\ pMsg = proverMsg
      /\ algebra \in BOOLEAN /\ verdict \in {"none", "accept", "reject"}
      /\ round \in Nat
  BY DEF Init, VerifierInit, ProverInit, Phases, Turns
<1>. QED  BY <1>1, <1>2, <1>3, <1>4, <1>6, <1>7, <1>8
          DEF TypeOK, VerifierTypeOK, ProverTypeOK

\* Messages have the type of the wire structures.
LEMMA MessagesTyped ==
    ASSUME TypeOK
    PROVE  VerifierMessage \in VerifierMsgs /\ ProverMessage \in ProverMsgs
<1>. USE ConstantFacts, RequestTyped
<1>1. NoOpening \in Openings /\ [epoch |-> pEpoch, masks |-> pReps] \in Openings
  BY DEF NoOpening, Openings, TypeOK, ProverTypeOK
<1>2. verifierMsg \in VerifierMsgs /\ proverMsg \in ProverMsgs
  BY <1>1 DEF verifierMsg, VerifierMsgs, proverMsg, ProverMsgs
<1>3. VerifierMessage \in VerifierMsgs
  <2>1. \A reps, coeffs \in Nat : \A rs, queries \in BOOLEAN :
        \A fri \in [RS -> Exchanges] :
          [verifierMsg EXCEPT !.reps = reps, !.coeffs = coeffs, !.rs = rs,
             !.fri = fri, !.queries = queries] \in VerifierMsgs
    BY <1>2 DEF VerifierMsgs
  <2>2. /\ CarriesFriRequest \in BOOLEAN
        /\ (vPhase = "QUERY" /\ HasQueries) \in BOOLEAN
        /\ (IF vPhase = "START_PROTOCOL" THEN Repetitions ELSE 0) \in Nat
        /\ (IF vPhase = "VERIFIER_RANDOMNESS" THEN Repetitions ELSE 0) \in Nat
        /\ (IF CarriesFriRequest THEN [r \in RS |-> FriRequest(r)] ELSE NoExchange) \in [RS -> Exchanges]
    BY DEF Requests, CarriesFriRequest
  <2>. QED  BY ONLY <2>1, <2>2 DEF VerifierMessage
<1>4. ProverMessage \in ProverMsgs
  BY <1>1, <1>2 DEF ProverMessage, ProverMsgs, TypeOK, ProverTypeOK
<1>. QED  BY <1>3, <1>4

\* The verifier's handlers keep its types, whatever message they are given.
LEMMA VerifierTyped ==
    ASSUME TypeOK, NEW m \in ProverMsgs, VerifierSend \/ VerifierReceive(m)
    PROVE  VerifierTypeOK'
<1>. USE ConstantFacts DEF TypeOK, VerifierTypeOK
<1>1. \A phase \in Phases : advancePhase(phase) \in Phases
  BY DEF advancePhase, Phases
<1>2. CASE VerifierSend
  BY <1>1, <1>2 DEF VerifierSend
<1>3. CASE KeepCommitments(m)
  BY <1>1, <1>3 DEF KeepCommitments, ProverMsgs
<1>4. CASE DigestResults(m)
  BY <1>1, <1>4 DEF DigestResults, ProverMsgs
<1>5. CASE ReceiveRound(m)
  <2>1. \A r \in RS : m.fri[r].layer \in 0..MaxDepth
    BY DEF ProverMsgs, Exchanges
  <2>2. vLayer' \in [RS -> 1..(MaxDepth + 1)]
    <3>1. \A r \in RS : ~doneConstructingProof(r) =>
                           vLayer[r] + 1 \in 1..(MaxDepth + 1)
      BY DEF doneConstructingProof
    <3>. QED  BY <1>5, <3>1 DEF ReceiveRound, filedLayer
  <2>3. vStored' \in [RS -> [1..MaxDepth -> 0..MaxDepth]]
    <3>1. \A r \in RS : [vStored[r] EXCEPT ![vLayer[r]] = m.fri[r].layer]
                           \in [1..MaxDepth -> 0..MaxDepth]
      BY <2>1
    <3>. QED  BY <1>5, <3>1 DEF ReceiveRound, filedLayer
  <2>4. vGot' \in [RS -> BOOLEAN]
    BY <1>5 DEF ReceiveRound, filedLayer, FriPhaseOver, doneConstructingProof
  <2>5. vPhase' \in Phases /\ vCommit' \in Openings /\ vResults' \in Openings
    BY <1>1, <1>5 DEF ReceiveRound, filedLayer
  <2>. QED  BY <2>2, <2>3, <2>4, <2>5
<1>. QED  BY <1>2, <1>3, <1>4, <1>5 DEF VerifierReceive

\* So do the prover's.
LEMMA ProverTyped ==
    ASSUME TypeOK, NEW m \in VerifierMsgs, ProverSend \/ ProverReceive(m)
    PROVE  ProverTypeOK'
<1>. USE ConstantFacts DEF TypeOK, ProverTypeOK
<1>1. \A phase \in Phases : advancePhase(phase) \in Phases
  BY DEF advancePhase, Phases
<1>2. CASE ProverSend
  BY <1>1, <1>2 DEF ProverSend
<1>3. CASE ProverStart(m)
  BY <1>1, <1>3 DEF ProverStart, VerifierMsgs
<1>4. CASE ProverRound(m)
  <2>1. \A r \in RS : m.fri[r].layer \in 0..MaxDepth
    BY DEF VerifierMsgs, Exchanges
  <2>2. pLayers' \in [RS -> 0..MaxDepth]
    BY <1>4, <2>1 DEF ProverRound, nextResponce, dropsProofs, nextResponce, dropsProofs
  <2>3. pAlive' \in [RS -> BOOLEAN]
    BY <1>4 DEF ProverRound, nextResponce, dropsProofs, nextResponce, dropsProofs
  <2>4. pNext' \in [RS -> Exchanges] /\ pMade' \in BOOLEAN
    BY <1>4 DEF ProverRound, nextResponce, dropsProofs, VerifierMsgs
  <2>5. pResults' \in Openings /\ pPhase' \in Phases /\ pReps' \in Nat
        /\ pEpoch' \in Nat
    BY <1>1, <1>4 DEF ProverRound, nextResponce, dropsProofs, Openings
  <2>. QED  BY <2>2, <2>3, <2>4, <2>5
<1>. QED  BY <1>2, <1>3, <1>4 DEF ProverReceive

LEMMA NextTyped == TypeOK /\ [Next]_vars => TypeOK'
<1>. SUFFICES ASSUME TypeOK, [Next]_vars PROVE TypeOK'
  OBVIOUS
<1>. USE DEF TypeOK
<1>0. /\ VerifierMessage \in VerifierMsgs /\ ProverMessage \in ProverMsgs
      /\ vMsg \in VerifierMsgs /\ pMsg \in ProverMsgs
  BY MessagesTyped
<1>s. ASSUME UNCHANGED verifierVars PROVE VerifierTypeOK'
  BY <1>s DEF verifierVars, VerifierTypeOK
<1>t. ASSUME UNCHANGED proverVars PROVE ProverTypeOK'
  BY <1>t DEF proverVars, ProverTypeOK
<1>1. CASE VerifierSends
  <2>1. VerifierTypeOK'
    BY <1>0, <1>1, <1>s, VerifierTyped DEF VerifierSends
  <2>2. turn' \in Turns /\ round' \in Nat /\ vMsg' \in VerifierMsgs
    BY <1>0, <1>1 DEF VerifierSends, Turns
  <2>. QED  BY <1>1, <1>t, <2>1, <2>2 DEF VerifierSends
<1>2. CASE ProverReceives
  <2>1. ProverTypeOK'
    BY <1>0, <1>2, <1>t, ProverTyped DEF ProverReceives
  <2>. QED  BY <1>2, <1>s, <2>1 DEF ProverReceives, Turns
<1>3. CASE ProverSends
  <2>1. ProverTypeOK'
    BY <1>0, <1>3, <1>t, ProverTyped DEF ProverSends
  <2>. QED  BY <1>0, <1>3, <1>s, <2>1 DEF ProverSends, Turns
<1>4. CASE VerifierReceives
  <2>1. VerifierTypeOK'
    BY <1>0, <1>4, <1>s, VerifierTyped DEF VerifierReceives
  <2>. QED  BY <1>4, <1>t, <2>1 DEF VerifierReceives, Turns
<1>5. CASE Verify
  BY <1>5, <1>s, <1>t DEF Verify, Turns
<1>6. CASE UNCHANGED vars
  BY <1>6, <1>s, <1>t DEF vars, sessionVars
<1>. QED  BY <1>1, <1>2, <1>3, <1>4, <1>5, <1>6 DEF Next, Finished

\* Every message, phase and layer has its type in every state of every run.
THEOREM TypeCorrect == Spec => []TypeOK
BY InitTyped, NextTyped, PTL DEF Spec

-----------------------------------------------------------------------------
\* No handler of a state the invariant allows meets anything fatal.
LEMMA NoFaults ==
    ASSUME IInv
    PROVE  /\ turn = "verifier_sends" => ~VerifierSendFault
           /\ turn = "prover_receives" => ~ProverReceiveFault(vMsg)
           /\ turn = "prover_sends" => ~ProverSendFault
           /\ turn = "verifier_receives" => ~VerifierReceiveFault(pMsg)
<1>. USE ConstantFacts DEF IInv
<1>1. ASSUME turn = "verifier_sends" PROVE ~VerifierSendFault
  BY <1>1 DEF PhasesInStep, VerifierSendFault
<1>2. ASSUME turn = "prover_receives" PROVE ~ProverReceiveFault(vMsg)
  <2>1. CASE pPhase = "START_PROTOCOL"
    BY <2>1 DEF ProverReceiveFault
  <2>2. CASE vPhase = "RS_PROXIMITY" /\ pPhase \in {"VERIFIER_RANDOMNESS", "RS_PROXIMITY"}
    <3>1. /\ vMsg.rs /\ ~vMsg.queries /\ vMsg.fri = Requests /\ pReps = Repetitions
          /\ pPhase = "VERIFIER_RANDOMNESS" => vMsg.coeffs = Repetitions
          /\ pPhase = "RS_PROXIMITY" => pMade /\ \A r \in RS : pAlive[r]
      BY <1>2, <2>2 DEF MessageComplete, ProverReady
    <3>2. ASSUME NEW r \in RS, vMsg.fri[r].data
          PROVE  (IF pPhase = "VERIFIER_RANDOMNESS" THEN 0 ELSE pLayers[r]) >= Depth(r)
      <4>1. vLayer[r] = Depth(r) + 1 /\ vLayer[r] \in Nat
        BY <2>2, <3>1, <3>2
           DEF Requests, FriRequest, doneConstructingProof, LayersInStep
      <4>2. CASE pPhase = "RS_PROXIMITY"
        <5>1. vLayer[r] - 1 <= pLayers[r]
          BY <3>1, <4>2 DEF ProverReady
        <5>2. pLayers[r] \in Nat
          BY DEF TypeOK, ProverTypeOK
        <5>. QED  BY <4>1, <4>2, <5>1, <5>2
      <4>3. CASE pPhase = "VERIFIER_RANDOMNESS"
        <5>1. vLayer[r] = 1
          BY <1>2, <2>2, <4>3 DEF LayersInStep, FriRounds
        <5>. QED  BY <4>1, <4>3, <5>1
      <4>. QED  BY <2>2, <4>2, <4>3
    <3>3. \A r \in RS : vMsg.fri[r].data =>
            ~((IF pPhase = "VERIFIER_RANDOMNESS" THEN 0 ELSE pLayers[r]) < Depth(r))
      <4>1. \A r \in RS : pLayers[r] \in Nat
        BY DEF TypeOK, ProverTypeOK
      <4>. QED  BY <3>2, <4>1
    <3>4. CASE pPhase = "VERIFIER_RANDOMNESS"
      BY <3>1, <3>3, <3>4 DEF ProverReceiveFault
    <3>5. CASE pPhase = "RS_PROXIMITY"
      BY <3>1, <3>3, <3>5 DEF ProverReceiveFault
    <3>. QED  BY <2>2, <3>4, <3>5
  <2>3. CASE vPhase = "RESULTS" /\ pPhase = "RS_PROXIMITY"
    <3>1. ~vMsg.rs /\ vMsg.queries /\ pReps = Repetitions /\ pMade
      BY <1>2, <2>3 DEF MessageComplete, ProverReady
    <3>. QED  BY <2>3, <3>1 DEF ProverReceiveFault
  <2>. QED  BY <1>2, <2>1, <2>2, <2>3 DEF PhasesInStep
<1>3. ASSUME turn = "prover_sends" PROVE ~ProverSendFault
  BY <1>3 DEF PhasesInStep, ProverReady, ProverSendFault
<1>4. ASSUME turn = "verifier_receives" PROVE ~VerifierReceiveFault(pMsg)
  <2>1. CASE vPhase \in {"UNIVARIATE_COMMITMENTS", "RESULTS"}
    BY <1>4, <2>1 DEF MessageComplete, VerifierReceiveFault, Complete
  <2>2. CASE vPhase = "RS_PROXIMITY"
    <3>1. pMsg.rs /\ pMsg.fri = Requests
      BY <1>4, <2>2 DEF MessageComplete
    <3>2. \A r \in RS : doneConstructingProof(r) => pMsg.fri[r].data
      BY <3>1 DEF Requests, FriRequest
    <3>3. \A r \in RS : vLayer[r] \in Nat /\ vLayer[r] > 0
      BY DEF TypeOK, VerifierTypeOK
    <3>4. \A r \in RS : ~doneConstructingProof(r) => pMsg.fri[r].layer # 0
      BY <3>1, <3>3 DEF Requests, FriRequest
    <3>. QED  BY <2>2, <3>1, <3>2, <3>4 DEF VerifierReceiveFault
  <2>. QED  BY <1>4, <2>1, <2>2 DEF PhasesInStep
<1>. QED  BY <1>1, <1>2, <1>3, <1>4

\* What the fields of the two messages are.
LEMMA MessageFields ==
    /\ VerifierMessage.reps = IF vPhase = "START_PROTOCOL" THEN Repetitions ELSE 0
    /\ VerifierMessage.coeffs = IF vPhase = "VERIFIER_RANDOMNESS" THEN Repetitions ELSE 0
    /\ VerifierMessage.rs <=> vPhase \in {"VERIFIER_RANDOMNESS", "RS_PROXIMITY"}
    /\ vPhase \in {"VERIFIER_RANDOMNESS", "RS_PROXIMITY"} =>
         VerifierMessage.fri = Requests
    /\ VerifierMessage.queries <=> vPhase = "QUERY"
    /\ pPhase = "UNIVARIATE_COMMITMENTS" =>
         ProverMessage.commitments = [epoch |-> pEpoch, masks |-> pReps]
    /\ pPhase # "UNIVARIATE_COMMITMENTS" =>
         /\ ProverMessage.rs
         /\ ProverMessage.fri = pNext
         /\ ProverMessage.results = pResults
BY ConstantFacts DEF VerifierMessage, verifierMsg, CarriesFriRequest, ProverMessage, proverMsg, Requests

LEMMA VerifierSendsStep ==
    ASSUME IInv, VerifierSends
    PROVE  IInv'
<1>. USE ConstantFacts
<1>1. TypeOK'
  BY NextTyped DEF IInv, Next
<1>2. /\ turn = "verifier_sends" /\ turn' = "prover_receives"
      /\ vMsg' = VerifierMessage /\ round' = round + 1 /\ round \in Nat
      /\ VerifierSend
      /\ UNCHANGED <<proverVars, pMsg, algebra, verdict>>
  BY NoFaults DEF VerifierSends, IInv, TypeOK
<1>3. /\ UNCHANGED <<vCommit, vLayer, vStored, vGot, vResults>>
      /\ vPhase' = IF vPhase = "RS_PROXIMITY" THEN vPhase ELSE advancePhase(vPhase)
      /\ UNCHANGED <<pPhase, pReps, pEpoch, pMade, pLayers, pAlive, pNext, pResults>>
  BY <1>2 DEF VerifierSend, proverVars
<1>4. \/ /\ vPhase = "START_PROTOCOL" /\ pPhase = "START_PROTOCOL"
         /\ vPhase' = "UNIVARIATE_COMMITMENTS"
      \/ /\ vPhase = "VERIFIER_RANDOMNESS" /\ pPhase = "VERIFIER_RANDOMNESS"
         /\ vPhase' = "RS_PROXIMITY"
      \/ /\ vPhase = "RS_PROXIMITY" /\ pPhase = "RS_PROXIMITY"
         /\ vPhase' = "RS_PROXIMITY"
      \/ /\ vPhase = "QUERY" /\ pPhase = "RS_PROXIMITY" /\ vPhase' = "RESULTS"
  BY <1>2, <1>3 DEF IInv, PhasesInStep, advancePhase
<1>5. PhasesInStep' /\ NeverAborted'
  BY <1>2, <1>3, <1>4 DEF PhasesInStep, NeverAborted
<1>6. MessageComplete'
  <2>1. Requests' = Requests
    BY <1>3 DEF Requests, FriRequest, doneConstructingProof
  <2>. QED  BY <1>2, <1>3, <1>4, <2>1, MessageFields DEF MessageComplete
<1>7. ProverReady'
  BY <1>2, <1>3, <1>4 DEF IInv, ProverReady
<1>8. LayersInStep'
  BY <1>2, <1>3, <1>4 DEF IInv, LayersInStep, FriRounds
<1>9. VerifierKeeps'
  BY <1>2, <1>3, <1>4 DEF IInv, VerifierKeeps, CommitmentsFiledRight, HonestRunAccepted
<1>. QED  BY <1>1, <1>5, <1>6, <1>7, <1>8, <1>9 DEF IInv

LEMMA ProverReceivesStep ==
    ASSUME IInv, ProverReceives
    PROVE  IInv'
<1>. USE ConstantFacts
<1>1. TypeOK'
  BY NextTyped DEF IInv, Next
<1>2. /\ turn = "prover_receives" /\ turn' = "prover_sends" /\ ProverReceive(vMsg)
      /\ UNCHANGED <<verifierVars, vMsg, pMsg, algebra, verdict, round>>
  BY NoFaults DEF ProverReceives, IInv
<1>3. UNCHANGED <<vPhase, vCommit, vLayer, vStored, vGot, vResults>>
  BY <1>2 DEF verifierVars
<1>4. \/ /\ vPhase = "UNIVARIATE_COMMITMENTS" /\ pPhase = "START_PROTOCOL"
         /\ pPhase' = "UNIVARIATE_COMMITMENTS" /\ ProverStart(vMsg)
      \/ /\ vPhase = "RS_PROXIMITY"
         /\ pPhase \in {"VERIFIER_RANDOMNESS", "RS_PROXIMITY"}
         /\ pPhase' = "RS_PROXIMITY" /\ ProverRound(vMsg)
      \/ /\ vPhase = "RESULTS" /\ pPhase = "RS_PROXIMITY"
         /\ pPhase' = "RS_PROXIMITY" /\ ProverRound(vMsg)
  BY <1>2 DEF IInv, PhasesInStep, advancePhase, ProverReceive, ProverStart, ProverRound
<1>5. PhasesInStep' /\ NeverAborted'
  BY <1>2, <1>3, <1>4 DEF PhasesInStep, NeverAborted
<1>6. Requests' = Requests
  BY <1>3 DEF Requests, FriRequest, doneConstructingProof
<1>7. MessageComplete' /\ ProverReady'
  <2>1. CASE ProverStart(vMsg) /\ vPhase = "UNIVARIATE_COMMITMENTS"
    BY <1>2, <1>3, <1>4, <2>1
       DEF IInv, MessageComplete, ProverReady, ProverStart
  <2>2. CASE ProverRound(vMsg) /\ vPhase = "RS_PROXIMITY"
    <3>1. /\ vMsg.rs /\ ~vMsg.queries /\ vMsg.fri = Requests
          /\ pEpoch = 1 /\ pReps = Repetitions
      BY <1>2, <1>4, <2>2 DEF IInv, MessageComplete, ProverReady
    <3>2. /\ pNext' = Requests /\ pMade' /\ pEpoch' = 1 /\ pReps' = Repetitions
          /\ \A r \in RS : pAlive'[r]
      BY <1>4, <2>2, <3>1 DEF ProverRound, nextResponce, dropsProofs, IInv, ProverReady
    <3>3. \A r \in RS : vLayer[r] - 1 <= pLayers'[r]
                       /\ (vLayer[r] <= Depth(r) => vLayer[r] <= pLayers'[r])
      <4>. SUFFICES ASSUME NEW r \in RS
                    PROVE  /\ vLayer[r] - 1 <= pLayers'[r]
                           /\ vLayer[r] <= Depth(r) => vLayer[r] <= pLayers'[r]
        OBVIOUS
      <4>1. vLayer[r] \in Nat /\ vLayer[r] > 0 /\ pLayers[r] \in Nat /\ Depth(r) \in Nat
        BY DEF IInv, TypeOK, VerifierTypeOK, ProverTypeOK
      <4>2. vMsg.fri[r].layer = IF vLayer[r] > Depth(r) THEN 0 ELSE vLayer[r]
        BY <3>1 DEF Requests, FriRequest, doneConstructingProof
      <4>3. CASE pPhase = "VERIFIER_RANDOMNESS"
        <5>1. vLayer[r] = 1
          BY <1>2, <2>2, <4>3 DEF IInv, LayersInStep, FriRounds
        <5>2. pLayers'[r] = IF vMsg.fri[r].layer > 0 THEN vMsg.fri[r].layer ELSE 0
          BY <2>2, <3>1, <4>3 DEF ProverRound, nextResponce, dropsProofs, nextResponce, dropsProofs
        <5>. QED  BY <4>1, <4>2, <5>1, <5>2
      <4>4. CASE pPhase = "RS_PROXIMITY"
        <5>1. vLayer[r] - 1 <= pLayers[r]
          BY <2>2, <4>4 DEF IInv, ProverReady
        <5>2. pLayers'[r] = IF vMsg.fri[r].layer > pLayers[r]
                            THEN vMsg.fri[r].layer ELSE pLayers[r]
          BY <2>2, <3>1, <4>4 DEF ProverRound, nextResponce, dropsProofs, nextResponce, dropsProofs
        <5>. QED  BY <4>1, <4>2, <5>1, <5>2
      <4>. QED  BY <1>4, <2>2, <4>3, <4>4
    <3>. QED  BY <1>2, <1>3, <1>4, <1>6, <2>2, <3>2, <3>3
              DEF MessageComplete, ProverReady
  <2>3. CASE ProverRound(vMsg) /\ vPhase = "RESULTS"
    <3>1. vMsg.queries /\ pEpoch = 1 /\ pReps = Repetitions /\ pMade
      BY <1>2, <1>4, <2>3 DEF IInv, MessageComplete, ProverReady
    <3>2. /\ pResults' = Complete /\ pMade' /\ pEpoch' = 1 /\ pReps' = Repetitions
          /\ \A r \in RS : ~pAlive'[r]
      BY <2>3, <3>1 DEF ProverRound, nextResponce, dropsProofs, Complete
    <3>. QED  BY <1>2, <1>3, <1>4, <2>3, <3>2 DEF MessageComplete, ProverReady
  <2>. QED  BY <1>4, <2>1, <2>2, <2>3
<1>8. LayersInStep'
  BY <1>2, <1>3, <1>4 DEF IInv, LayersInStep, FriRounds
<1>9. VerifierKeeps'
  BY <1>2, <1>3, <1>4 DEF IInv, VerifierKeeps, CommitmentsFiledRight, HonestRunAccepted
<1>. QED  BY <1>1, <1>5, <1>7, <1>8, <1>9 DEF IInv

LEMMA ProverSendsStep ==
    ASSUME IInv, ProverSends
    PROVE  IInv'
<1>. USE ConstantFacts
<1>1. TypeOK'
  BY NextTyped DEF IInv, Next
<1>2. /\ turn = "prover_sends" /\ turn' = "verifier_receives"
      /\ pMsg' = ProverMessage /\ ProverSend
      /\ UNCHANGED <<verifierVars, vMsg, algebra, verdict, round>>
  BY NoFaults DEF ProverSends, IInv
<1>3. /\ UNCHANGED <<vPhase, vCommit, vLayer, vStored, vGot, vResults>>
      /\ UNCHANGED <<pReps, pEpoch, pMade, pLayers, pAlive, pNext, pResults>>
  BY <1>2 DEF ProverSend, verifierVars
<1>4. \/ /\ vPhase = "UNIVARIATE_COMMITMENTS" /\ pPhase = "UNIVARIATE_COMMITMENTS"
         /\ pPhase' = "VERIFIER_RANDOMNESS"
      \/ /\ vPhase \in {"RS_PROXIMITY", "RESULTS"} /\ pPhase = "RS_PROXIMITY"
         /\ pPhase' = "RS_PROXIMITY"
  BY <1>2 DEF IInv, PhasesInStep, advancePhase, ProverSend
<1>5. PhasesInStep' /\ NeverAborted'
  BY <1>2, <1>3, <1>4 DEF PhasesInStep, NeverAborted
<1>6. MessageComplete'
  <2>1. Requests' = Requests
    BY <1>3 DEF Requests, FriRequest, doneConstructingProof
  <2>2. pPhase = "UNIVARIATE_COMMITMENTS" => pEpoch = 1 /\ pReps = Repetitions
    BY DEF IInv, ProverReady
  <2>3. /\ vPhase = "RS_PROXIMITY" => pNext = Requests
        /\ vPhase = "RESULTS" => pResults = Complete
    BY <1>2 DEF IInv, MessageComplete
  <2>. QED  BY <1>2, <1>3, <1>4, <2>1, <2>2, <2>3, MessageFields
            DEF MessageComplete, Complete
<1>7. ProverReady'
  BY <1>2, <1>3, <1>4 DEF IInv, ProverReady
<1>8. LayersInStep'
  BY <1>2, <1>3, <1>4 DEF IInv, LayersInStep, FriRounds
<1>9. VerifierKeeps'
  BY <1>2, <1>3, <1>4 DEF IInv, VerifierKeeps, CommitmentsFiledRight, HonestRunAccepted
<1>. QED  BY <1>1, <1>5, <1>6, <1>7, <1>8, <1>9 DEF IInv

LEMMA VerifyStep ==
    ASSUME IInv, Verify
    PROVE  IInv'
<1>. USE ConstantFacts
<1>1. TypeOK'
  BY NextTyped DEF IInv, Next
<1>2. /\ turn = "verify" /\ turn' = "decided"
      /\ verdict' = IF verifyComitment /\ algebra THEN "accept" ELSE "reject"
      /\ UNCHANGED <<verifierVars, proverVars, vMsg, pMsg, algebra, round>>
  BY DEF Verify
<1>3. /\ UNCHANGED <<vPhase, vCommit, vLayer, vStored, vGot, vResults>>
      /\ UNCHANGED <<pPhase, pReps, pEpoch, pMade, pLayers, pAlive, pNext, pResults>>
  BY <1>2 DEF verifierVars, proverVars
<1>4. vPhase = "DONE" /\ pPhase = "RS_PROXIMITY"
  BY <1>2 DEF IInv, PhasesInStep
<1>5. PhasesInStep' /\ NeverAborted' /\ MessageComplete'
  BY <1>2, <1>3, <1>4 DEF PhasesInStep, NeverAborted, MessageComplete
<1>6. ProverReady'
  BY <1>2, <1>3, <1>4 DEF IInv, ProverReady
<1>7. LayersInStep'
  BY <1>2, <1>3, <1>4 DEF IInv, LayersInStep, FriRounds
<1>8. verifyComitment <=> \A r \in RS : Depth(r) > 0
  <2>1. vCommit = Complete /\ vResults = Complete
    BY <1>4 DEF IInv, VerifierKeeps
  <2>2. \A r \in RS : \A l \in 1..Depth(r) : vStored[r][l] = l
    BY <1>4 DEF IInv, VerifierKeeps, CommitmentsFiledRight, LayersInStep
  <2>. QED  BY <2>1, <2>2 DEF verifyComitment, Complete
<1>9. VerifierKeeps'
  <2>1. HonestRunAccepted'
    BY <1>2, <1>8 DEF HonestRunAccepted
  <2>. QED  BY <1>2, <1>3, <1>4, <2>1 DEF IInv, VerifierKeeps, CommitmentsFiledRight
<1>. QED  BY <1>1, <1>5, <1>6, <1>7, <1>9 DEF IInv

\* The commitments are kept: the FRI phase starts.
LEMMA KeepCommitmentsStep ==
    ASSUME IInv, TypeOK', turn = "verifier_receives", turn' = "verifier_sends",
           KeepCommitments(pMsg),
           UNCHANGED <<proverVars, vMsg, pMsg, algebra, verdict, round>>
    PROVE  IInv'
<1>. USE ConstantFacts
<1>1. /\ vPhase = "UNIVARIATE_COMMITMENTS" /\ vPhase' = "VERIFIER_RANDOMNESS"
      /\ vCommit' = pMsg.commitments
      /\ UNCHANGED <<vLayer, vStored, vGot, vResults>>
      /\ UNCHANGED <<pPhase, pReps, pEpoch, pMade, pLayers, pAlive, pNext, pResults>>
  BY DEF KeepCommitments, advancePhase, proverVars
<1>2. pPhase = "VERIFIER_RANDOMNESS" /\ vCommit' = Complete
  BY <1>1 DEF IInv, PhasesInStep, MessageComplete
<1>3. PhasesInStep' /\ NeverAborted' /\ MessageComplete'
  BY <1>1, <1>2 DEF PhasesInStep, NeverAborted, MessageComplete
<1>4. ProverReady'
  BY <1>1, <1>2 DEF IInv, ProverReady
<1>5. LayersInStep'
  BY <1>1, <1>2 DEF IInv, LayersInStep, FriRounds
<1>6. VerifierKeeps'
  BY <1>1, <1>2 DEF IInv, VerifierKeeps, CommitmentsFiledRight
<1>. QED  BY <1>3, <1>4, <1>5, <1>6 DEF IInv

\* The results are digested: nothing is left but to verify.
LEMMA DigestResultsStep ==
    ASSUME IInv, TypeOK', turn = "verifier_receives", turn' = "verify",
           DigestResults(pMsg),
           UNCHANGED <<proverVars, vMsg, pMsg, algebra, verdict, round>>
    PROVE  IInv'
<1>. USE ConstantFacts
<1>1. /\ vPhase = "RESULTS" /\ vPhase' = "DONE" /\ vResults' = pMsg.results
      /\ UNCHANGED <<vLayer, vStored, vGot, vCommit>>
      /\ UNCHANGED <<pPhase, pReps, pEpoch, pMade, pLayers, pAlive, pNext, pResults>>
  BY DEF DigestResults, advancePhase, proverVars
<1>2. pPhase = "RS_PROXIMITY" /\ vResults' = Complete
  BY <1>1 DEF IInv, PhasesInStep, MessageComplete
<1>3. PhasesInStep' /\ NeverAborted' /\ MessageComplete'
  BY <1>1, <1>2 DEF PhasesInStep, NeverAborted, MessageComplete
<1>4. ProverReady'
  BY <1>1, <1>2 DEF IInv, ProverReady
<1>5. LayersInStep'
  BY <1>1, <1>2 DEF IInv, LayersInStep, FriRounds
<1>6. VerifierKeeps'
  BY <1>1, <1>2 DEF IInv, VerifierKeeps, CommitmentsFiledRight
<1>. QED  BY <1>3, <1>4, <1>5, <1>6 DEF IInv

\* An iteration of the FRI phase: every FRI verifier moves one step, and the
\* phase ends in the iteration after the one that finished the last of them.
LEMMA ReceiveRoundStep ==
    ASSUME IInv, TypeOK', turn = "verifier_receives", turn' = "verifier_sends",
           ReceiveRound(pMsg),
           UNCHANGED <<proverVars, vMsg, pMsg, algebra, verdict, round>>
    PROVE  IInv'
<1>. USE ConstantFacts
<1>1. /\ vPhase = "RS_PROXIMITY" /\ UNCHANGED <<vCommit, vResults>>
      /\ vPhase' = IF \A r \in RS : vGot[r] THEN "QUERY" ELSE "RS_PROXIMITY"
      /\ UNCHANGED <<pPhase, pReps, pEpoch, pMade, pLayers, pAlive, pNext, pResults>>
  BY DEF ReceiveRound, filedLayer, FriPhaseOver, advancePhase, proverVars
<1>2. pPhase = "RS_PROXIMITY" /\ pMsg.fri = Requests
  BY <1>1 DEF IInv, PhasesInStep, MessageComplete
<1>3. FriRounds \in 0..(MaxDepth + 1) /\ FriRounds' = FriRounds + 1
      /\ round = FriRounds + 2 /\ round' = round /\ round \in Nat
  BY <1>1 DEF IInv, LayersInStep, FriRounds, TypeOK
<1>4. ASSUME NEW r \in RS
      PROVE  /\ Depth(r) \in Nat /\ vLayer[r] \in Nat /\ vLayer[r] > 0
             /\ vLayer[r] = IF FriRounds <= Depth(r) THEN FriRounds + 1 ELSE Depth(r) + 1
             /\ vGot[r] <=> FriRounds > Depth(r)
  <2>1. Depth(r) \in Nat /\ vLayer[r] \in Nat /\ vLayer[r] > 0
    <3>1. TypeOK
      BY DEF IInv
    <3>2. vLayer \in [RS -> 1..(MaxDepth + 1)]
      BY <3>1 DEF TypeOK, VerifierTypeOK
    <3>3. vLayer[r] \in 1..(MaxDepth + 1)
      BY <3>2
    <3>. QED  BY <3>3
  <2>2. /\ vLayer[r] = IF FriRounds <= Depth(r) THEN FriRounds + 1 ELSE Depth(r) + 1
        /\ vGot[r] <=> FriRounds > Depth(r)
    <3>. HIDE DEF FriRounds
    <3>. QED  BY <1>1 DEF IInv, LayersInStep
  <2>. QED  BY <2>1, <2>2
<1>5. ASSUME NEW r \in RS
      PROVE  vLayer'[r] = IF vLayer[r] > Depth(r) THEN vLayer[r] ELSE vLayer[r] + 1
  BY <1>3, <1>4 DEF ReceiveRound, filedLayer, FriPhaseOver, doneConstructingProof
<1>6. ASSUME NEW r \in RS
      PROVE  vGot'[r] <=> vGot[r] \/ vLayer[r] > Depth(r)
  BY DEF ReceiveRound, filedLayer, FriPhaseOver, doneConstructingProof
<1>7. ASSUME NEW r \in RS
      PROVE  /\ vLayer[r] > Depth(r) => vStored'[r] = vStored[r]
             /\ vLayer[r] <= Depth(r) =>
                  vStored'[r] = [vStored[r] EXCEPT ![vLayer[r]] = vLayer[r]]
  <2>1. vLayer[r] <= Depth(r) => ~vGot[r] /\ pMsg.fri[r].layer = vLayer[r]
    BY <1>2, <1>3, <1>4 DEF Requests, FriRequest, doneConstructingProof
  <2>2. vLayer[r] > Depth(r) => doneConstructingProof(r)
    BY DEF doneConstructingProof
  <2>3. vLayer[r] <= Depth(r) => ~doneConstructingProof(r)
    BY <1>4 DEF doneConstructingProof
  <2>4. vStored'[r] = IF vGot[r] \/ doneConstructingProof(r) THEN vStored[r]
                      ELSE [vStored[r] EXCEPT ![vLayer[r]] = pMsg.fri[r].layer]
    BY DEF ReceiveRound, filedLayer
  <2>. QED  BY <2>1, <2>2, <2>3, <2>4
<1>8. PhasesInStep' /\ NeverAborted' /\ MessageComplete'
  BY <1>1, <1>2 DEF PhasesInStep, NeverAborted, MessageComplete
<1>9. LayersInStep'
  <2>1. CASE \A r \in RS : vGot[r]
    <3>1. FriRounds = MaxDepth + 1
      BY <1>3, <1>4, <2>1
    <3>2. \A r \in RS : vLayer'[r] = Depth(r) + 1 /\ vGot'[r]
      BY <1>3, <1>4, <1>5, <1>6, <2>1
    <3>. QED  BY <1>1, <1>3, <2>1, <3>1, <3>2 DEF LayersInStep
  <2>2. CASE \E r \in RS : ~vGot[r]
    <3>1. FriRounds <= MaxDepth
      BY <1>3, <1>4, <2>2
    <3>2. FriRounds' \in 0..(MaxDepth + 1)
      BY <1>3, <3>1
    <3>3. ASSUME NEW r \in RS
          PROVE  /\ vLayer'[r] = IF FriRounds' <= Depth(r) THEN FriRounds' + 1
                                                           ELSE Depth(r) + 1
                 /\ vGot'[r] <=> FriRounds' > Depth(r)
      BY <1>3, <1>4, <1>5, <1>6
    <3>. QED  BY <1>1, <1>2, <2>2, <3>2, <3>3 DEF LayersInStep
  <2>. QED  BY <2>1, <2>2
<1>10. ProverReady'
  <2>1. ASSUME NEW r \in RS, pAlive[r]
        PROVE  vLayer'[r] - 1 <= pLayers[r]
    <3>1. vLayer[r] - 1 <= pLayers[r] /\ pLayers[r] \in Nat
      BY <2>1 DEF IInv, ProverReady, TypeOK, ProverTypeOK
    <3>2. vLayer[r] <= Depth(r) => vLayer[r] <= pLayers[r]
      BY <1>1 DEF IInv, ProverReady
    <3>. QED  BY <1>4, <1>5, <3>1, <3>2
  <2>. QED  BY <1>1, <1>2, <2>1 DEF IInv, ProverReady
<1>11. VerifierKeeps'
  <2>1. ASSUME NEW r \in RS, NEW l \in 1..Depth(r)
        PROVE  /\ l < vLayer'[r] => vStored'[r][l] = l
               /\ vLayer'[r] <= l => vStored'[r][l] = 0
    <3>1. /\ l < vLayer[r] => vStored[r][l] = l
          /\ vLayer[r] <= l => vStored[r][l] = 0
      BY DEF IInv, VerifierKeeps, CommitmentsFiledRight
    <3>2. l \in Nat /\ Depth(r) \in Nat /\ l <= Depth(r) /\ l \in 1..MaxDepth
      BY <1>4
    <3>3. vStored[r] \in [1..MaxDepth -> 0..MaxDepth]
      BY DEF IInv, TypeOK, VerifierTypeOK
    <3>4. CASE vLayer[r] > Depth(r)
      BY <1>4, <1>5, <1>7, <3>1, <3>2, <3>4
    <3>5. CASE vLayer[r] <= Depth(r)
      <4>1. vStored'[r][l] = IF l = vLayer[r] THEN vLayer[r] ELSE vStored[r][l]
        BY <1>7, <3>2, <3>3, <3>5
      <4>2. vLayer'[r] = vLayer[r] + 1
        BY <1>4, <1>5, <3>5
      <4>. QED  BY <1>4, <3>1, <3>2, <4>1, <4>2
    <3>. QED  BY <1>4, <3>4, <3>5
  <2>. QED  BY <1>1, <2>1 DEF IInv, VerifierKeeps, CommitmentsFiledRight
<1>. QED  BY <1>8, <1>9, <1>10, <1>11 DEF IInv

LEMMA InitInvariant == Init => IInv
<1>. SUFFICES ASSUME Init PROVE IInv
  OBVIOUS
<1>. USE ConstantFacts
<1>1. /\ vPhase = "START_PROTOCOL" /\ pPhase = "START_PROTOCOL" /\ vCommit = NoOpening
      /\ turn = "verifier_sends" /\ verdict = "none" /\ round = 0
      /\ pEpoch = 0 /\ ~pMade
      /\ \A r \in RS : vLayer[r] = 1 /\ ~vGot[r] /\ ~pAlive[r]
  BY DEF Init, VerifierInit, ProverInit
<1>2. \A r \in RS : \A l \in 1..Depth(r) : vStored[r][l] = 0
  <2>1. vStored = [r \in RS |-> [l \in 1..MaxDepth |-> 0]]
    BY DEF Init, VerifierInit
  <2>. QED  BY <2>1
<1>3. PhasesInStep /\ NeverAborted /\ MessageComplete
  BY <1>1 DEF PhasesInStep, NeverAborted, MessageComplete
<1>4. ProverReady /\ LayersInStep
  BY <1>1 DEF ProverReady, LayersInStep
<1>5. VerifierKeeps
  BY <1>1, <1>2 DEF VerifierKeeps, CommitmentsFiledRight
<1>. QED  BY <1>3, <1>4, <1>5, InitTyped DEF IInv

LEMMA StepInvariant == IInv /\ [Next]_vars => IInv'
<1>. SUFFICES ASSUME IInv, [Next]_vars PROVE IInv'
  OBVIOUS
<1>1. TypeOK'
  BY NextTyped DEF IInv
<1>2. CASE VerifierSends
  BY <1>2, VerifierSendsStep
<1>3. CASE ProverReceives
  BY <1>3, ProverReceivesStep
<1>4. CASE ProverSends
  BY <1>4, ProverSendsStep
<1>5. CASE VerifierReceives
  <2>1. /\ turn = "verifier_receives" /\ VerifierReceive(pMsg)
        /\ turn' = IF vPhase' = "DONE" THEN "verify" ELSE "verifier_sends"
        /\ UNCHANGED <<proverVars, vMsg, pMsg, algebra, verdict, round>>
    BY <1>5, NoFaults DEF VerifierReceives, doneInteracting
  <2>2. CASE KeepCommitments(pMsg)
    BY <1>1, <2>1, <2>2, KeepCommitmentsStep DEF KeepCommitments, advancePhase
  <2>3. CASE ReceiveRound(pMsg)
    BY <1>1, <2>1, <2>3, ReceiveRoundStep DEF ReceiveRound, filedLayer, FriPhaseOver, advancePhase
  <2>4. CASE DigestResults(pMsg)
    BY <1>1, <2>1, <2>4, DigestResultsStep DEF DigestResults, advancePhase
  <2>. QED  BY <2>1, <2>2, <2>3, <2>4 DEF VerifierReceive
<1>6. CASE Verify
  BY <1>6, VerifyStep
<1>7. CASE UNCHANGED vars
  <2>1. /\ UNCHANGED <<vPhase, vCommit, vLayer, vStored, vGot, vResults>>
        /\ UNCHANGED <<pPhase, pReps, pEpoch, pMade, pLayers, pAlive, pNext, pResults>>
        /\ UNCHANGED <<turn, vMsg, pMsg, algebra, verdict, round>>
    BY <1>7 DEF vars, verifierVars, proverVars, sessionVars
  <2>2. Requests' = Requests
    BY <2>1 DEF Requests, FriRequest, doneConstructingProof
  <2>3. (PhasesInStep /\ NeverAborted /\ MessageComplete)'
    BY <2>1, <2>2 DEF IInv, PhasesInStep, NeverAborted, MessageComplete
  <2>4. (ProverReady /\ LayersInStep)'
    BY <2>1 DEF IInv, ProverReady, LayersInStep, FriRounds
  <2>5. VerifierKeeps'
    BY <2>1 DEF IInv, VerifierKeeps, CommitmentsFiledRight, HonestRunAccepted
  <2>. QED  BY <1>1, <2>3, <2>4, <2>5 DEF IInv
<1>. QED  BY <1>2, <1>3, <1>4, <1>5, <1>6, <1>7 DEF Next, Finished

\* The inductive invariant holds in every state of every run.
THEOREM Invariance == Spec => []IInv
BY InitInvariant, StepInvariant, PTL DEF Spec

\* Whatever the depths and the number of repetitions, no handler of either
\* party meets a message or a phase it treats as fatal.
THEOREM NoAbort == Spec => []NeverAborted
<1>1. IInv => NeverAborted
  BY DEF IInv
<1>. QED  BY <1>1, Invariance, PTL

\* Commitments without a layer number in them are filed under the layer they
\* are of, in every FRI instance.
THEOREM FiledRight == Spec => []CommitmentsFiledRight
<1>1. IInv => CommitmentsFiledRight
  BY DEF IInv, VerifierKeeps
<1>. QED  BY <1>1, Invariance, PTL

\* The prover drops its FRI proofs only after the last FRI verifier has read
\* the data it asked for.
THEOREM OutliveQueries == Spec => []ProofsOutliveQueries
<1>1. IInv => ProofsOutliveQueries
  BY DEF IInv, ProofsOutliveQueries, ProverReady, LayersInStep
<1>. QED  BY <1>1, Invariance, PTL

\* Completeness of the protocol's control: the decision depends on nothing
\* but the algebraic tests, if every FRI instance commits to a layer.
THEOREM HonestAccepted == Spec => []HonestRunAccepted
<1>1. IInv => HonestRunAccepted
  BY DEF IInv, VerifierKeeps, HonestRunAccepted
<1>. QED  BY <1>1, Invariance, PTL

\* The number of messages of a run is a function of the greatest depth.
THEOREM Rounds == Spec => []RoundCount
<1>1. IInv => RoundCount
  BY DEF IInv, RoundCount, PhasesInStep, LayersInStep
<1>. QED  BY <1>1, Invariance, PTL

\* No message of the prover replaces a commitment the verifier has stored.
THEOREM CommitmentsFinal == Spec => StoredCommitmentsFinal
<1>. DEFINE Final == /\ vCommit # NoOpening => vCommit' = vCommit
                     /\ \A r \in RS : \A l \in 1..Depth(r) :
                          vStored[r][l] # 0 => vStored'[r][l] = vStored[r][l]
<1>1. IInv /\ IInv' /\ [Next]_vars => [Final]_vars
  <2>. SUFFICES ASSUME IInv, IInv', [Next]_vars PROVE Final
    OBVIOUS
  <2>1. CASE UNCHANGED <<vCommit, vStored>>
    BY <2>1
  <2>2. CASE VerifierReceives
    <3>1. CASE UNCHANGED verifierVars
      BY <3>1 DEF verifierVars
    <3>2. CASE KeepCommitments(pMsg)
      BY <3>2 DEF KeepCommitments, IInv, VerifierKeeps
    <3>3. CASE DigestResults(pMsg)
      BY <3>3 DEF DigestResults
    <3>4. CASE ReceiveRound(pMsg)
      <4>. SUFFICES ASSUME NEW r \in RS, NEW l \in 1..Depth(r), vStored[r][l] # 0
                    PROVE  vStored'[r][l] = vStored[r][l]
        BY <3>4 DEF ReceiveRound, filedLayer
      <4>1. l \in 1..MaxDepth /\ l \in Nat /\ vLayer[r] \in Nat /\ l < vLayer[r]
        <5>1. vLayer[r] \in Nat /\ (vLayer[r] <= l => vStored[r][l] = 0)
          BY DEF IInv, VerifierKeeps, TypeOK, VerifierTypeOK
        <5>2. Depth(r) \in Nat /\ Depth(r) <= MaxDepth /\ MaxDepth \in Nat
          BY ConstantFacts
        <5>. QED  BY <5>1, <5>2
      <4>2. vStored'[r] \in {vStored[r],
                             [vStored[r] EXCEPT ![vLayer[r]] = pMsg.fri[r].layer]}
        BY <3>4 DEF ReceiveRound, filedLayer
      <4>3. vStored[r] \in [1..MaxDepth -> 0..MaxDepth]
        BY DEF IInv, TypeOK, VerifierTypeOK
      <4>4. CASE vStored'[r] = vStored[r]
        BY <4>4
      <4>5. CASE vStored'[r] = [vStored[r] EXCEPT ![vLayer[r]] = pMsg.fri[r].layer]
        <5>1. l # vLayer[r]
          BY <4>1
        <5>2. DOMAIN vStored[r] = 1..MaxDepth
          BY <4>3
        <5>. QED  BY <4>1, <4>5, <5>1, <5>2
      <4>. QED  BY <4>2, <4>4, <4>5
    <3>. QED  BY <2>2, <3>1, <3>2, <3>3, <3>4 DEF VerifierReceives, VerifierReceive
  <2>3. VerifierSends \/ ProverReceives \/ ProverSends \/ Verify \/ UNCHANGED vars
        => UNCHANGED <<vCommit, vStored>>
    BY DEF VerifierSends, VerifierSend, ProverReceives, ProverSends, Verify,
           vars, verifierVars
  <2>. QED  BY <2>1, <2>2, <2>3 DEF Next, Finished
<1>. QED  BY <1>1, Invariance, PTL DEF Spec, StoredCommitmentsFinal

-----------------------------------------------------------------------------
\* A message of the verifier is under way, or in the prover's hands.
UnderWay == turn \in {"prover_receives", "prover_sends", "verifier_receives"}

\* What the last message of the verifier revealed, up to its next message.
CoinsRemembered ==
    /\ UnderWay =>
         /\ vMsg.rs <=> vPhase = "RS_PROXIMITY"
         /\ vMsg.queries <=> vPhase = "RESULTS"
         /\ vMsg.fri = IF vPhase = "RS_PROXIMITY" THEN Requests ELSE NoExchange
    /\ turn = "verifier_sends" =>
         /\ vMsg.rs <=> vPhase \in {"RS_PROXIMITY", "QUERY"}
         /\ ~vMsg.queries
         /\ \A r \in RS : /\ vMsg.fri[r].layer < vLayer[r]
                          /\ vMsg.fri[r].data => vGot[r]
    /\ turn \in {"verify", "decided"} =>
         ~vMsg.rs /\ vMsg.queries /\ vMsg.fri = NoExchange

LEMMA CoinsInit == Init => CoinsRemembered
<1>. SUFFICES ASSUME Init PROVE CoinsRemembered
  OBVIOUS
<1>1. /\ turn = "verifier_sends" /\ vPhase = "START_PROTOCOL"
      /\ ~vMsg.rs /\ ~vMsg.queries /\ vMsg.fri = NoExchange
      /\ vLayer = [r \in RS |-> 1]
  BY DEF Init, VerifierInit, verifierMsg
<1>2. \A r \in RS : NoExchange[r].layer = 0 /\ NoExchange[r].data = FALSE
  BY DEF NoExchange, Nothing
<1>. QED  BY <1>1, <1>2 DEF CoinsRemembered, UnderWay

LEMMA CoinsStep == IInv /\ CoinsRemembered /\ [Next]_vars => CoinsRemembered'
<1>. SUFFICES ASSUME IInv, CoinsRemembered, [Next]_vars PROVE CoinsRemembered'
  OBVIOUS
<1>. USE ConstantFacts
<1>r. ASSUME UNCHANGED vLayer PROVE Requests' = Requests
  BY <1>r DEF Requests, FriRequest, doneConstructingProof
<1>1. CASE VerifierSends
  <2>1. /\ turn = "verifier_sends" /\ turn' = "prover_receives"
        /\ vMsg' = VerifierMessage /\ VerifierSend
    BY <1>1, NoFaults DEF VerifierSends
  <2>2. /\ UNCHANGED vLayer
        /\ \/ vPhase = "START_PROTOCOL" /\ vPhase' = "UNIVARIATE_COMMITMENTS"
           \/ /\ vPhase \in {"VERIFIER_RANDOMNESS", "RS_PROXIMITY"}
              /\ vPhase' = "RS_PROXIMITY"
           \/ vPhase = "QUERY" /\ vPhase' = "RESULTS"
    BY <2>1 DEF VerifierSend, IInv, PhasesInStep, advancePhase
  <2>3. vPhase \notin {"VERIFIER_RANDOMNESS", "RS_PROXIMITY"} =>
          VerifierMessage.fri = NoExchange
    BY DEF VerifierMessage, verifierMsg, CarriesFriRequest
  <2>. QED  BY <1>r, <2>1, <2>2, <2>3, MessageFields DEF CoinsRemembered, UnderWay
<1>2. CASE ProverReceives \/ ProverSends
  <2>1. /\ UnderWay /\ UnderWay' /\ turn' # "verifier_sends"
        /\ turn' \notin {"verify", "decided"}
        /\ UNCHANGED <<vMsg, vPhase, vLayer>>
    BY <1>2, NoFaults DEF ProverReceives, ProverSends, verifierVars, UnderWay
  <2>. QED  BY <1>r, <2>1 DEF CoinsRemembered
<1>3. CASE VerifierReceives
  <2>1. /\ turn = "verifier_receives" /\ VerifierReceive(pMsg) /\ UNCHANGED vMsg
        /\ turn' = IF vPhase' = "DONE" THEN "verify" ELSE "verifier_sends"
    BY <1>3, NoFaults DEF VerifierReceives, doneInteracting
  <2>2. CASE KeepCommitments(pMsg)
    <3>1. /\ vPhase = "UNIVARIATE_COMMITMENTS" /\ vPhase' = "VERIFIER_RANDOMNESS"
          /\ UNCHANGED <<vLayer, vGot>> /\ turn' = "verifier_sends"
      BY <2>1, <2>2 DEF KeepCommitments, advancePhase
    <3>2. ~vMsg.rs /\ ~vMsg.queries /\ vMsg.fri = NoExchange
      BY <2>1, <3>1 DEF CoinsRemembered, UnderWay
    <3>3. \A r \in RS : NoExchange[r].layer = 0 /\ NoExchange[r].data = FALSE
                        /\ vLayer[r] \in Nat /\ vLayer[r] > 0
      BY DEF NoExchange, Nothing, IInv, TypeOK, VerifierTypeOK
    <3>. QED  BY <2>1, <3>1, <3>2, <3>3 DEF CoinsRemembered, UnderWay
  <2>3. CASE ReceiveRound(pMsg)
    <3>1. /\ vPhase = "RS_PROXIMITY" /\ vPhase' \in {"RS_PROXIMITY", "QUERY"}
          /\ turn' = "verifier_sends"
      BY <2>1, <2>3 DEF ReceiveRound, advancePhase
    <3>2. vMsg.rs /\ ~vMsg.queries /\ vMsg.fri = Requests
      BY <2>1, <3>1 DEF CoinsRemembered, UnderWay
    <3>3. ASSUME NEW r \in RS
          PROVE  /\ vMsg.fri[r].layer < vLayer'[r]
                 /\ vMsg.fri[r].data => vGot'[r]
      <4>1. /\ vLayer[r] \in Nat /\ vLayer[r] > 0
            /\ vGot[r] => vLayer[r] > Depth(r)
        BY <3>1 DEF IInv, TypeOK, VerifierTypeOK, LayersInStep
      <4>2. /\ vLayer'[r] = IF vGot[r] \/ doneConstructingProof(r) THEN vLayer[r]
                            ELSE vLayer[r] + 1
            /\ vGot'[r] <=> vGot[r] \/ doneConstructingProof(r)
        BY <2>3 DEF ReceiveRound
      <4>. QED  BY <3>2, <4>1, <4>2 DEF Requests, FriRequest, doneConstructingProof
    <3>. QED  BY <2>1, <3>1, <3>2, <3>3 DEF CoinsRemembered, UnderWay
  <2>4. CASE DigestResults(pMsg)
    <3>1. vPhase = "RESULTS" /\ turn' = "verify"
      BY <2>1, <2>4 DEF DigestResults, advancePhase
    <3>. QED  BY <2>1, <3>1 DEF CoinsRemembered, UnderWay
  <2>. QED  BY <2>1, <2>2, <2>3, <2>4 DEF VerifierReceive
<1>4. CASE Verify
  BY <1>4 DEF Verify, CoinsRemembered, UnderWay
<1>5. CASE UNCHANGED vars
  <2>1. UNCHANGED <<turn, vMsg, vPhase, vLayer, vGot>>
    BY <1>5 DEF vars, verifierVars, sessionVars
  <2>. QED  BY <1>r, <2>1 DEF CoinsRemembered, UnderWay
<1>. QED  BY <1>1, <1>2, <1>3, <1>4, <1>5 DEF Next, Finished
\* How much the run has committed, revealed and answered, told by phases.
Committed == vPhase \notin {"START_PROTOCOL", "UNIVARIATE_COMMITMENTS"}
Asked     == UnderWay /\ vPhase = "RS_PROXIMITY"
Revealing == vPhase \in {"RS_PROXIMITY", "QUERY", "RESULTS", "DONE"}
Opened    == vPhase \in {"RESULTS", "DONE"}
RevealedLayers(r) == IF Asked /\ vLayer[r] <= Depth(r) THEN vLayer[r]
                                                       ELSE vLayer[r] - 1
Queried(r) == vGot[r] \/ (Asked /\ vLayer[r] > Depth(r))

\* The layers and queries revealed, in the refinement's own terms.
Challenged == [r \in RS |-> IF vMsg.fri[r].layer >= vLayer[r]
                            THEN vMsg.fri[r].layer ELSE vLayer[r] - 1]
Asking     == [r \in RS |-> vMsg.fri[r].data \/ vGot[r]]

\* The refinement mapping tells the same as the phases do.
MappingByPhase ==
    /\ vCommit # NoOpening <=> Committed
    /\ vMsg.rs \/ vMsg.queries <=> Revealing
    /\ vMsg.queries <=> Opened
    /\ vMsg.rs \in BOOLEAN /\ vMsg.queries \in BOOLEAN
    /\ \A r \in RS :
         /\ Challenged[r] = RevealedLayers(r)
         /\ Asking[r] <=> Queried(r)
         /\ vLayer[r] \in Nat /\ vLayer[r] > 0 /\ vLayer[r] <= Depth(r) + 1
         /\ vGot[r] => vLayer[r] = Depth(r) + 1
         /\ vGot[r] \in BOOLEAN /\ Depth(r) \in Nat
         /\ vMsg.fri[r].data \in BOOLEAN

LEMMA MappingValues == IInv /\ CoinsRemembered => MappingByPhase
<1>. SUFFICES ASSUME IInv, CoinsRemembered PROVE MappingByPhase
  OBVIOUS
<1>. USE ConstantFacts
<1>1. vCommit # NoOpening <=> Committed
  <2>1. Complete # NoOpening
    BY DEF Complete, NoOpening
  <2>. QED  BY <2>1 DEF IInv, VerifierKeeps, Committed
<1>2. /\ vMsg.fri \in [RS -> Exchanges]
      /\ vMsg.rs \in BOOLEAN /\ vMsg.queries \in BOOLEAN
  BY DEF IInv, TypeOK, VerifierMsgs
<1>3. turn \in Turns /\ turn # "aborted"
  BY DEF IInv, TypeOK, NeverAborted
<1>4. /\ vMsg.queries <=> Opened
      /\ vMsg.rs \/ vMsg.queries <=> Revealing
  BY <1>3 DEF IInv, PhasesInStep, CoinsRemembered, UnderWay, Revealing, Opened, Turns
<1>5. ASSUME NEW r \in RS
      PROVE  /\ vLayer[r] \in Nat /\ vLayer[r] > 0 /\ vLayer[r] <= Depth(r) + 1
             /\ vGot[r] => vLayer[r] = Depth(r) + 1
             /\ vGot[r] \in BOOLEAN /\ Depth(r) \in Nat
  <2>1. vLayer[r] \in Nat /\ vLayer[r] > 0 /\ vGot[r] \in BOOLEAN /\ Depth(r) \in Nat
    BY DEF IInv, TypeOK, VerifierTypeOK
  <2>2. CASE vPhase \in {"START_PROTOCOL", "UNIVARIATE_COMMITMENTS"}
    BY <2>1, <2>2 DEF IInv, LayersInStep
  <2>3. CASE vPhase \in {"VERIFIER_RANDOMNESS", "RS_PROXIMITY"}
    <3>1. /\ FriRounds \in Nat
          /\ vLayer[r] = IF FriRounds <= Depth(r) THEN FriRounds + 1 ELSE Depth(r) + 1
          /\ vGot[r] <=> FriRounds > Depth(r)
      BY <2>3 DEF IInv, LayersInStep
    <3>. QED  BY <2>1, <3>1
  <2>4. CASE vPhase \in {"QUERY", "RESULTS", "DONE"}
    BY <2>1, <2>4 DEF IInv, LayersInStep
  <2>5. vPhase \in Phases
    BY DEF IInv, TypeOK, VerifierTypeOK
  <2>. QED  BY <2>2, <2>3, <2>4, <2>5 DEF Phases
<1>6. ASSUME NEW r \in RS
      PROVE  /\ Challenged[r] = RevealedLayers(r)
             /\ Asking[r] <=> Queried(r)
             /\ vMsg.fri[r].data \in BOOLEAN
  <2>1. /\ vMsg.fri[r].layer \in Nat /\ vMsg.fri[r].data \in BOOLEAN
        /\ NoExchange[r].layer = 0 /\ NoExchange[r].data = FALSE
    BY <1>2 DEF Exchanges, NoExchange, Nothing
  <2>2. /\ Challenged[r] = IF vMsg.fri[r].layer >= vLayer[r]
                           THEN vMsg.fri[r].layer ELSE vLayer[r] - 1
        /\ Asking[r] <=> vMsg.fri[r].data \/ vGot[r]
    BY DEF Challenged, Asking
  <2>3. CASE Asked
    <3>1. /\ vMsg.fri[r].layer = IF vLayer[r] > Depth(r) THEN 0 ELSE vLayer[r]
          /\ vMsg.fri[r].data <=> vLayer[r] > Depth(r)
      BY <2>3 DEF Asked, CoinsRemembered, Requests, FriRequest, doneConstructingProof
    <3>. QED  BY <1>5, <2>1, <2>2, <2>3, <3>1 DEF RevealedLayers, Queried
  <2>4. CASE ~Asked
    <3>1. /\ vMsg.fri[r].layer < vLayer[r]
          /\ vMsg.fri[r].data => vGot[r]
      BY <1>3, <1>5, <2>1, <2>4 DEF Asked, CoinsRemembered, UnderWay, Turns
    <3>. QED  BY <1>5, <2>1, <2>2, <2>4, <3>1 DEF RevealedLayers, Queried
  <2>. QED  BY <2>1, <2>3, <2>4
<1>. QED  BY <1>1, <1>2, <1>4, <1>5, <1>6 DEF MappingByPhase

\* The run starts where the transcript does.
LEMMA TranscriptInit == Init => Transcript!Init
<1>. SUFFICES ASSUME Init PROVE Transcript!Init
  OBVIOUS
<1>1. /\ vCommit = NoOpening /\ vPhase = "START_PROTOCOL" /\ verdict = "none"
      /\ vMsg.rs = FALSE /\ vMsg.queries = FALSE /\ vMsg.fri = NoExchange
      /\ vLayer = [r \in RS |-> 1] /\ vGot = [r \in RS |-> FALSE]
  BY DEF Init, VerifierInit, verifierMsg
<1>2. \A r \in RS : NoExchange[r].layer = 0 /\ NoExchange[r].data = FALSE
  BY DEF NoExchange, Nothing
<1>3. \A r \in RS : vLayer[r] = 1
  BY <1>1
<1>4. [r \in RS |-> vLayer[r] - 1] = [c \in RS |-> 0]
  BY <1>3
<1>5. [r \in RS |-> IF vMsg.fri[r].layer >= vLayer[r]
                    THEN vMsg.fri[r].layer ELSE vLayer[r] - 1] = [c \in RS |-> 0]
  BY <1>1, <1>2, <1>3
<1>6. [r \in RS |-> vMsg.fri[r].data \/ vGot[r]] = [c \in RS |-> FALSE]
  BY <1>1, <1>2
<1>7. /\ (vCommit # NoOpening) = FALSE
      /\ (vMsg.rs \/ vMsg.queries) = FALSE
      /\ vGot = [c \in RS |-> FALSE]
      /\ vMsg.queries = FALSE
      /\ (vPhase = "DONE") = FALSE
      /\ verdict = "none"
  BY <1>1
<1>. QED  BY <1>4, <1>5, <1>6, <1>7 DEF Transcript!Init
\* Nothing of the transcript changes.
LEMMA TranscriptStutter ==
    ASSUME UNCHANGED <<vMsg, vCommit, vLayer, vGot, verdict>>,
           (vPhase = "DONE")' = (vPhase = "DONE")
    PROVE  UNCHANGED Transcript!vars
BY DEF Transcript!vars

\* A message of the verifier reveals coins, if it has any.
LEMMA TranscriptSends ==
    ASSUME IInv, IInv', MappingByPhase, MappingByPhase', VerifierSends
    PROVE  [Transcript!Next]_(Transcript!vars)
<1>. USE ConstantFacts
<1>1. /\ turn = "verifier_sends" /\ turn' = "prover_receives"
      /\ UNCHANGED <<vCommit, vLayer, vStored, vGot, vResults, verdict>>
      /\ vPhase' = IF vPhase = "RS_PROXIMITY" THEN vPhase ELSE advancePhase(vPhase)
  BY NoFaults DEF VerifierSends, VerifierSend
<1>2. \/ vPhase = "START_PROTOCOL" /\ vPhase' = "UNIVARIATE_COMMITMENTS"
      \/ /\ vPhase \in {"VERIFIER_RANDOMNESS", "RS_PROXIMITY"}
         /\ vPhase' = "RS_PROXIMITY"
      \/ vPhase = "QUERY" /\ vPhase' = "RESULTS"
  BY <1>1 DEF IInv, PhasesInStep, advancePhase
<1>3. [r \in RS |-> vLayer[r] - 1]' = [r \in RS |-> vLayer[r] - 1]
  BY <1>1
<1>4. \A r \in RS : Depth(r)' = Depth(r) /\ [q \in RS |-> Depth(q)][r] = Depth(r)
  BY DEF Depth
<1>5. ~Asked /\ (Asked' <=> vPhase' = "RS_PROXIMITY")
  BY <1>1 DEF Asked, UnderWay
<1>6. ASSUME NEW r \in RS
      PROVE  /\ Challenged[r] = vLayer[r] - 1
             /\ Challenged'[r] = IF Asked' /\ vLayer[r] <= Depth(r) THEN vLayer[r]
                                                                   ELSE vLayer[r] - 1
             /\ Asking[r] <=> vGot[r]
             /\ Asking'[r] <=> vGot[r] \/ (Asked' /\ vLayer[r] > Depth(r))
             /\ Asking[r] \in BOOLEAN /\ Asking'[r] \in BOOLEAN
             /\ vLayer[r] \in Nat /\ vLayer[r] > 0 /\ vLayer[r] <= Depth(r) + 1
             /\ Depth(r) \in Nat
  <2>1. vLayer' = vLayer /\ vGot' = vGot
    BY <1>1
  <2>2. /\ Challenged[r] = RevealedLayers(r) /\ Challenged'[r] = RevealedLayers(r)'
        /\ Asking[r] <=> Queried(r)
        /\ Asking'[r] <=> Queried(r)'
        /\ vLayer[r] \in Nat /\ vLayer[r] > 0 /\ vLayer[r] <= Depth(r) + 1
        /\ Depth(r) \in Nat
    BY DEF MappingByPhase
  <2>3. Asking[r] \in BOOLEAN /\ Asking'[r] \in BOOLEAN
    BY DEF MappingByPhase, Asking
  <2>. QED  BY <1>4, <1>5, <2>1, <2>2, <2>3 DEF RevealedLayers, Queried
<1>7. /\ vCommit # NoOpening <=> Committed
      /\ vMsg.rs \/ vMsg.queries <=> Revealing
      /\ vMsg.queries <=> Opened
      /\ vMsg'.rs \/ vMsg'.queries <=> Revealing'
      /\ vMsg'.queries <=> Opened'
      /\ vMsg.rs \in BOOLEAN /\ vMsg.queries \in BOOLEAN
      /\ vMsg'.rs \in BOOLEAN /\ vMsg'.queries \in BOOLEAN
  BY DEF MappingByPhase
<1>8. CASE vPhase' # "RS_PROXIMITY"
  <2>1. \A r \in RS : Challenged'[r] = Challenged[r] /\ Asking'[r] = Asking[r]
    BY <1>5, <1>6, <1>8
  <2>2. Challenged' = Challenged /\ Asking' = Asking
    BY <2>1 DEF Challenged, Asking
  <2>3. CASE vPhase = "START_PROTOCOL"
    <3>1. /\ (vMsg'.rs \/ vMsg'.queries) = (vMsg.rs \/ vMsg.queries)
          /\ vMsg'.queries = vMsg.queries
          /\ (vPhase' = "DONE") = (vPhase = "DONE")
          /\ (vCommit' # NoOpening) = (vCommit # NoOpening)
      BY <1>1, <1>2, <1>7, <2>3 DEF Revealing, Opened
    <3>. QED  BY <1>1, <1>3, <2>2, <3>1 DEF Transcript!vars, Challenged, Asking
  <2>4. CASE vPhase = "QUERY"
    <3>1. \A r \in RS : vGot[r]
      BY <2>4 DEF IInv, LayersInStep
    <3>2. /\ (vMsg'.rs \/ vMsg'.queries) = (vMsg.rs \/ vMsg.queries)
          /\ ~vMsg.queries /\ vMsg'.queries = TRUE
          /\ (vPhase' = "DONE") = (vPhase = "DONE")
          /\ (vCommit' # NoOpening) = (vCommit # NoOpening)
      BY <1>1, <1>2, <1>7, <2>4 DEF Revealing, Opened
    <3>3. Transcript!QueryInput
      BY <1>1, <1>3, <2>2, <3>1, <3>2 DEF Transcript!QueryInput, Challenged, Asking
    <3>. QED  BY <3>3 DEF Transcript!Next
  <2>. QED  BY <1>2, <1>8, <2>3, <2>4
<1>9. CASE vPhase' = "RS_PROXIMITY"
  <2>1. vPhase \in {"VERIFIER_RANDOMNESS", "RS_PROXIMITY"}
    BY <1>2, <1>9
  <2>2. /\ vCommit # NoOpening /\ ~vMsg.queries
        /\ (vMsg'.rs \/ vMsg'.queries) = TRUE
        /\ vMsg'.queries = vMsg.queries
        /\ (vPhase' = "DONE") = (vPhase = "DONE")
        /\ (vCommit' # NoOpening) = (vCommit # NoOpening)
    BY <1>1, <1>7, <1>9, <2>1 DEF Revealing, Opened, Committed
  <2>3. Challenged' \in [RS -> Nat] /\ Asking' \in [RS -> BOOLEAN]
    <3>1. \A r \in RS : Challenged'[r] \in Nat /\ Asking'[r] \in BOOLEAN
      BY <1>6
    <3>2. /\ Challenged' = [r \in RS |-> Challenged'[r]]
          /\ Asking' = [r \in RS |-> Asking'[r]]
      BY DEF Challenged, Asking
    <3>. QED  BY <3>1, <3>2
  <2>4. ASSUME NEW r \in RS
        PROVE  /\ \/ Challenged'[r] = Challenged[r]
                  \/ /\ Challenged[r] = [q \in RS |-> vLayer[q] - 1][r]
                     /\ [q \in RS |-> vLayer[q] - 1][r] < [q \in RS |-> Depth(q)][r]
                     /\ Challenged'[r] = [q \in RS |-> vLayer[q] - 1][r] + 1
               /\ \/ Asking'[r] = Asking[r]
                  \/ /\ [q \in RS |-> vLayer[q] - 1][r] = [q \in RS |-> Depth(q)][r]
                     /\ Asking'[r]
    BY <1>4, <1>6
  <2>5. Transcript!Reveal
    BY <1>1, <1>3, <2>2, <2>3, <2>4 DEF Transcript!Reveal, Challenged, Asking
  <2>. QED  BY <2>5 DEF Transcript!Next
<1>. QED  BY <1>8, <1>9
\* A message of the prover commits, or answers, what coins were spent on.
LEMMA TranscriptReceives ==
    ASSUME IInv, IInv', MappingByPhase, MappingByPhase', VerifierReceives
    PROVE  [Transcript!Next]_(Transcript!vars)
<1>. USE ConstantFacts
<1>1. /\ turn = "verifier_receives" /\ VerifierReceive(pMsg)
      /\ turn' \in {"verify", "verifier_sends"}
      /\ UNCHANGED <<vMsg, verdict>>
  BY NoFaults DEF VerifierReceives
<1>2. UnderWay /\ ~UnderWay' /\ ~Asked'
  BY <1>1 DEF UnderWay, Asked
<1>3. /\ vCommit # NoOpening <=> Committed
      /\ vCommit' # NoOpening <=> Committed'
      /\ vMsg.rs \/ vMsg.queries <=> Revealing
      /\ vMsg.queries <=> Opened
  BY DEF MappingByPhase
<1>4. ASSUME NEW r \in RS
      PROVE  /\ Challenged[r] = RevealedLayers(r) /\ Challenged'[r] = RevealedLayers(r)'
             /\ Asking[r] <=> Queried(r)
             /\ Asking'[r] <=> Queried(r)'
             /\ Asking[r] \in BOOLEAN /\ Asking'[r] \in BOOLEAN
             /\ vLayer[r] \in Nat /\ vLayer[r] > 0 /\ vLayer[r] <= Depth(r) + 1
             /\ vLayer'[r] \in Nat /\ vLayer'[r] > 0
             /\ vGot[r] => vLayer[r] = Depth(r) + 1
             /\ vGot[r] \in BOOLEAN /\ vGot'[r] \in BOOLEAN /\ Depth(r) \in Nat
  BY DEF MappingByPhase, Asking
<1>5. CASE KeepCommitments(pMsg)
  <2>1. /\ vPhase = "UNIVARIATE_COMMITMENTS" /\ vPhase' = "VERIFIER_RANDOMNESS"
        /\ UNCHANGED <<vLayer, vGot>>
    BY <1>5 DEF KeepCommitments, advancePhase
  <2>2. /\ ~(vCommit # NoOpening) /\ (vCommit' # NoOpening) = TRUE
        /\ (vPhase' = "DONE") = (vPhase = "DONE")
    BY <1>3, <2>1 DEF Committed
  <2>3. Transcript!CommitInput
    BY <1>1, <2>1, <2>2 DEF Transcript!CommitInput
  <2>. QED  BY <2>3 DEF Transcript!Next
<1>6. CASE DigestResults(pMsg)
  <2>1. /\ vPhase = "RESULTS" /\ vPhase' = "DONE"
        /\ UNCHANGED <<vLayer, vGot, vCommit>>
    BY <1>6 DEF DigestResults, advancePhase
  <2>2. /\ vMsg.queries
        /\ ~(vPhase = "DONE") /\ (vPhase' = "DONE") = TRUE
        /\ (vCommit' # NoOpening) = (vCommit # NoOpening)
    BY <1>3, <2>1 DEF Opened
  <2>3. Transcript!AnswerInput
    BY <1>1, <2>1, <2>2 DEF Transcript!AnswerInput
  <2>. QED  BY <2>3 DEF Transcript!Next
<1>7. CASE ReceiveRound(pMsg)
  <2>1. /\ vPhase = "RS_PROXIMITY" /\ vPhase' \in {"RS_PROXIMITY", "QUERY"}
        /\ UNCHANGED vCommit
    BY <1>7 DEF ReceiveRound, advancePhase
  <2>2. ASSUME NEW r \in RS
        PROVE  /\ vLayer'[r] = IF vLayer[r] > Depth(r) THEN vLayer[r] ELSE vLayer[r] + 1
               /\ vGot'[r] <=> vGot[r] \/ vLayer[r] > Depth(r)
    <3>1. /\ vLayer'[r] = IF vGot[r] \/ doneConstructingProof(r) THEN vLayer[r]
                          ELSE vLayer[r] + 1
          /\ vGot'[r] <=> vGot[r] \/ doneConstructingProof(r)
      BY <1>7 DEF ReceiveRound
    <3>. QED  BY <1>4, <3>1 DEF doneConstructingProof
  <2>3. Asked
    BY <1>2, <2>1 DEF Asked
  <2>4. ASSUME NEW r \in RS
        PROVE  /\ Challenged[r] = IF vLayer[r] <= Depth(r) THEN vLayer[r] ELSE vLayer[r] - 1
               /\ Challenged'[r] = vLayer'[r] - 1
               /\ Asking[r] <=> vGot[r] \/ vLayer[r] > Depth(r)
               /\ Asking'[r] <=> vGot'[r]
    BY <1>2, <1>4, <2>3 DEF RevealedLayers, Queried
  <2>5. Challenged' = Challenged /\ Asking' = Asking
    <3>1. \A r \in RS : Challenged'[r] = Challenged[r] /\ Asking'[r] = Asking[r]
      BY <1>4, <2>2, <2>4
    <3>. QED  BY <3>1 DEF Challenged, Asking
  <2>6. /\ vMsg.rs \/ vMsg.queries
        /\ ~vMsg.queries
        /\ (vPhase' = "DONE") = (vPhase = "DONE")
        /\ (vCommit' # NoOpening) = (vCommit # NoOpening)
    BY <1>3, <2>1 DEF Revealing, Opened
  <2>7. [r \in RS |-> vLayer[r] - 1]' \in [RS -> Nat] /\ vGot' \in [RS -> BOOLEAN]
    <3>1. vGot' \in [RS -> BOOLEAN]
      BY DEF IInv, TypeOK, VerifierTypeOK
    <3>2. \A r \in RS : vLayer'[r] - 1 \in Nat
      BY <1>4
    <3>. QED  BY <3>1, <3>2
  <2>8. ASSUME NEW r \in RS
        PROVE  /\ [q \in RS |-> vLayer[q] - 1]'[r]
                    \in {[q \in RS |-> vLayer[q] - 1][r], Challenged[r]}
               /\ vGot'[r] # vGot[r] => Asking[r] /\ vGot'[r]
    BY <1>4, <2>2, <2>4
  <2>9. Transcript!Respond
    BY <1>1, <2>5, <2>6, <2>7, <2>8 DEF Transcript!Respond, Challenged, Asking
  <2>. QED  BY <2>9 DEF Transcript!Next
<1>. QED  BY <1>1, <1>5, <1>6, <1>7 DEF VerifierReceive

LEMMA TranscriptStep ==
    IInv /\ IInv' /\ MappingByPhase /\ MappingByPhase' /\ [Next]_vars
      => [Transcript!Next]_(Transcript!vars)
<1>. SUFFICES ASSUME IInv, IInv', MappingByPhase, MappingByPhase', [Next]_vars
              PROVE  [Transcript!Next]_(Transcript!vars)
  OBVIOUS
<1>1. CASE VerifierSends
  BY <1>1, TranscriptSends
<1>2. CASE VerifierReceives
  BY <1>2, TranscriptReceives
<1>3. CASE ProverReceives \/ ProverSends \/ UNCHANGED vars
  <2>1. /\ UNCHANGED <<vMsg, vCommit, vLayer, vGot, verdict>>
        /\ vPhase' = vPhase
    BY <1>3 DEF ProverReceives, ProverSends, vars, verifierVars, sessionVars
  <2>. QED  BY <2>1, TranscriptStutter
<1>4. CASE Verify
  <2>1. /\ turn = "verify" /\ verdict' \in {"accept", "reject"}
        /\ UNCHANGED <<vMsg, vCommit, vLayer, vGot>> /\ vPhase' = vPhase
    BY <1>4 DEF Verify, verifierVars
  <2>2. vPhase = "DONE" /\ verdict = "none"
    BY <2>1 DEF IInv, PhasesInStep, VerifierKeeps
  <2>3. Transcript!Decide
    BY <2>1, <2>2 DEF Transcript!Decide
  <2>. QED  BY <2>3 DEF Transcript!Next
<1>. QED  BY <1>1, <1>2, <1>3, <1>4 DEF Next, Finished

\* Whatever the depths of the FRI instances and however many there are, every
\* coin of the verifier is revealed after what it protects was committed to:
\* the run implements the transcript of an interactive oracle proof.
THEOREM TranscriptOrder == Spec => ImplementsTranscript
<1>1. Spec => []CoinsRemembered
  BY CoinsInit, CoinsStep, Invariance, PTL DEF Spec
<1>2. Spec => []MappingByPhase
  BY <1>1, MappingValues, Invariance, PTL
<1>. QED  BY <1>2, Invariance, TranscriptInit, TranscriptStep, PTL
          DEF Spec, ImplementsTranscript, Transcript!Spec
=============================================================================

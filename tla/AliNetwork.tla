----------------------------- MODULE AliNetwork -----------------------------
(***************************************************************************)
(* The ALI protocol over a socket: executeVerifierProtocol and             *)
(* executeProverProtocol (protocol.cpp) as two processes, joined by the    *)
(* two byte streams of one TCP connection.  A message is a 2-byte phase, a *)
(* 4-byte length and a text body; which fields the body carries, and how   *)
(* it is read back, is decided by the phase the sender was in before it    *)
(* built the message (getPreviousPhase).                                   *)
(*                                                                         *)
(* A byte is modelled as a part of the field it was sent in, so that a     *)
(* reader that starts or stops in the wrong place is seen to.  The phase,  *)
(* the length and the numbers of the handshake are HeaderBytes long; the   *)
(* session's name and the bodies are TextBytes long.  What the kernel      *)
(* hands to one recv is any non-empty part of what has arrived.            *)
(***************************************************************************)
EXTENDS AliParties, SequencesExt

CONSTANTS HeaderBytes, TextBytes,  \* bounds: sizes of a header and of a body
          SessionBytes,            \* size of the session's name, 0 if not given
          RCVBUFSIZE,              \* what a text's recv asks for
          Worlds                   \* the surroundings to run in

\* A world says whether a header may arrive in pieces, whether a process may
\* be killed, and whether the verifier may expect another session.
ASSUME WorldsAssumption ==
    Worlds \subseteq [shortReads : BOOLEAN, crashes : BOOLEAN, mismatch : BOOLEAN]

\* A number has bytes, and so has a body: its text ends with a line.
ASSUME BytesAssumption ==
    /\ HeaderBytes \in Nat \ {0} /\ TextBytes \in Nat \ {0}
    /\ SessionBytes \in Nat /\ RCVBUFSIZE \in Nat \ {0}

VARIABLES
    world,     \* where this run takes place
    pc,        \* per party, where its program is
    alive,     \* per party, FALSE once its process has exited
    out,       \* per party, the bytes of its message it has still to send
    in,        \* per party, the bytes sent to it and not yet received
    buf,       \* per party, the bytes of the text it is reading
    tag,       \* per party, the phase received with the message being read
    size,      \* per party, the length received with it
    vMsg,      \* the message of the verifier's current iteration
    pMsg,      \* the message of the prover's current iteration
    algebra,   \* whether the low degree and the consistency tests pass
    verdict,   \* the verifier's decision
    told,      \* the decision the prover received
    round,     \* history: messages of the verifier
    replies    \* history: messages of the prover

netVars == <<world, pc, alive, out, in, buf, tag, size>>
msgVars == <<vMsg, pMsg, algebra, verdict, told, round, replies>>
vars == <<verifierVars, proverVars, netVars, msgVars>>

V == "verifier"
P == "prover"
Parties == {V, P}
Peer(x) == IF x = V THEN P ELSE V

\* The bytes of a field.
Field(kind, n, value) ==
    [i \in 1..n |-> [kind |-> kind, part |-> i, of |-> n, value |-> value]]
Header(kind, value)  == Field(kind, HeaderBytes, value)
Flag(kind, value)    == Field(kind, 1, value)
Text(kind, n, value) == Header("length", n) \o Field(kind, n, value)
IsField(bytes, kind, n) ==
    /\ Len(bytes) = n
    /\ \A i \in 1..n : bytes[i].kind = kind /\ bytes[i].part = i

Init ==
    /\ VerifierInit /\ ProverInit /\ world \in Worlds
    /\ pc    = [x \in Parties |-> IF x = V THEN "accept" ELSE "connect"]
    /\ alive = [x \in Parties |-> TRUE]
    /\ out   = [x \in Parties |-> <<>>]
    /\ in    = [x \in Parties |-> <<>>]
    /\ buf   = [x \in Parties |-> <<>>]
    /\ tag   = [x \in Parties |-> "START_PROTOCOL"]
    /\ size  = [x \in Parties |-> 0]
    /\ vMsg  = verifierMsg /\ pMsg = proverMsg
    /\ algebra \in BOOLEAN
    /\ verdict = "none" /\ told = "none"
    /\ round = 0 /\ replies = 0

-----------------------------------------------------------------------------
(* The socket. *)

\* A program goes on when it has sent the whole of its message.
Running(x, where) == alive[x] /\ pc[x] = where /\ out[x] = <<>>

\* The process exited, or returned and closed its socket.
Gone(x) == ~alive[x] \/ pc[x] = "finished"

\* CommunicatingSocket::send: with the peer gone the bytes are lost, and the
\* connection reset may kill the sender.
Send(x, bytes, next) ==
    /\ pc' = [pc EXCEPT ![x] = next]
    /\ \/ /\ ~Gone(Peer(x))
          /\ in' = [in EXCEPT ![Peer(x)] = @ \o bytes]
          /\ UNCHANGED alive
       \/ /\ Gone(Peer(x))
          /\ alive' \in {alive, [alive EXCEPT ![x] = FALSE]}
          /\ UNCHANGED in

\* A message of several fields is sent field by field: the sends follow each
\* other, but the peer, or an end of either process, may come in between.
StartSending(x, bytes, next) ==
    /\ pc'  = [pc EXCEPT ![x] = next]
    /\ out' = [out EXCEPT ![x] = bytes]
    /\ UNCHANGED <<alive, in>>
SendField(x) ==
    /\ alive[x] /\ out[x] # <<>>
    /\ \E n \in 1..Len(out[x]) :
         /\ n = Head(out[x]).of
         /\ Send(x, SubSeq(out[x], 1, n), pc[x])
         /\ out' = [out EXCEPT ![x] = SubSeq(@, n + 1, Len(@))]
    /\ UNCHANGED <<verifierVars, proverVars, buf, tag, size, msgVars>>

\* One recv of a number or a flag, which is not repeated when it returns
\* fewer bytes than asked for.
Recv(x, kind, n, next) ==
    \E k \in 1..n :
      /\ k <= Len(in[x])
      /\ world.shortReads \/ k = n
      /\ pc' = [pc EXCEPT ![x] = IF k = n /\ IsField(SubSeq(in[x], 1, n), kind, n)
                                 THEN next ELSE "misframed"]
      /\ in' = [in EXCEPT ![x] = SubSeq(@, k + 1, Len(@))]

\* One turn of the loop that reads a text: it asks for a whole buffer,
\* whatever is left to read, or finds that it has read enough.
RecvText(x, kind, next) ==
    \/ /\ Len(buf[x]) < size[x]
       /\ \E k \in 1..RCVBUFSIZE :
            /\ k <= Len(in[x])
            /\ in'  = [in EXCEPT ![x] = SubSeq(@, k + 1, Len(@))]
            /\ buf' = [buf EXCEPT ![x] = @ \o SubSeq(in[x], 1, k)]
       /\ UNCHANGED pc
    \/ /\ Len(buf[x]) >= size[x]
       /\ pc' = [pc EXCEPT ![x] = IF IsField(buf[x], kind, size[x])
                                  THEN next ELSE "misframed"]
       /\ UNCHANGED <<in, buf>>

\* What follows a field that was read: nothing of it is known out of step.
ReadField(x, default) == IF pc'[x] = "misframed" THEN default ELSE Head(in[x]).value

Receiving(x) ==
    \/ pc[x] \in {"session_length", "ack", "answer", "phase", "length", "done",
                  "decision", "misframed"}
    \/ pc[x] \in {"session", "body"} /\ Len(buf[x]) < size[x]

\* recv returns 0 when the peer is gone and everything it sent was read.
mutEndUnchecked(x) ==
    /\ alive[x] /\ out[x] = <<>> /\ Receiving(x)
    /\ Gone(Peer(x)) /\ in[x] = <<>>
    /\ UNCHANGED vars
EndOfStream(x) ==
    /\ alive[x] /\ out[x] = <<>> /\ Receiving(x)
    /\ Gone(Peer(x)) /\ in[x] = <<>>
    /\ alive' = [alive EXCEPT ![x] = FALSE]
    /\ UNCHANGED <<verifierVars, proverVars, pc, out, in, buf, tag, size, msgVars>>

\* A reader out of step goes on with bytes it did not receive (the buffers
\* are not initialised) or that belong to another field.  What it does then
\* is not followed further than its end: it meets an impossible phase or
\* number and exits, or waits for bytes that do not come.
Misframed(x) ==
    /\ Running(x, "misframed")
    /\ alive' = [alive EXCEPT ![x] = FALSE]
    /\ UNCHANGED <<verifierVars, proverVars, pc, out, in, buf, tag, size, msgVars>>

Crash(x) ==
    /\ world.crashes /\ alive[x] /\ pc[x] # "finished"
    /\ alive' = [alive EXCEPT ![x] = FALSE]
    /\ UNCHANGED <<verifierVars, proverVars, pc, out, in, buf, tag, size, msgVars>>

-----------------------------------------------------------------------------
(* The wire format. *)

mutPhaseNow(phase) == IF phase = "RS_PROXIMITY" THEN phase
    ELSE CASE phase = "UNIVARIATE_COMMITMENTS" -> "START_PROTOCOL"
           [] phase = "VERIFIER_RANDOMNESS"    -> "UNIVARIATE_COMMITMENTS"
           [] phase = "QUERY"                  -> "RS_PROXIMITY"
           [] phase = "RESULTS"                -> "QUERY"
           [] OTHER                            -> "DONE"
getPreviousPhase(phase) ==
    CASE phase = "UNIVARIATE_COMMITMENTS" -> "START_PROTOCOL"
      [] phase = "VERIFIER_RANDOMNESS"    -> "UNIVARIATE_COMMITMENTS"
      [] phase = "RS_PROXIMITY"           -> "VERIFIER_RANDOMNESS"
      [] phase = "QUERY"                  -> "RS_PROXIMITY"
      [] phase = "RESULTS"                -> "QUERY"
      [] OTHER                            -> "DONE"

\* verifierMsg::serialize, and deserialize of what it wrote.
CanSerialize(phase) ==
    phase \in {"START_PROTOCOL", "VERIFIER_RANDOMNESS", "RS_PROXIMITY", "QUERY"}
serializeVerifierMsg(m, phase) ==
    [verifierMsg EXCEPT
        !.reps    = IF phase = "START_PROTOCOL" THEN m.reps ELSE 0,
        !.coeffs  = IF phase = "VERIFIER_RANDOMNESS" THEN m.coeffs ELSE 0,
        !.rs      = phase \in {"VERIFIER_RANDOMNESS", "RS_PROXIMITY"} /\ m.rs,
        !.fri     = IF phase \in {"VERIFIER_RANDOMNESS", "RS_PROXIMITY"}
                    THEN m.fri ELSE NoExchange,
        !.queries = phase = "QUERY" /\ m.queries]

\* proverMsg::serialize, and deserialize of what it wrote.
serializeProverMsg(m, phase) ==
    IF phase = "UNIVARIATE_COMMITMENTS"
    THEN [proverMsg EXCEPT !.commitments = m.commitments]
    ELSE [m EXCEPT !.commitments = NoOpening]

\* sendPhaseAndMsg
PhaseAndMsg(phase, m) == Header("phase", phase) \o Text("body", TextBytes, m)

-----------------------------------------------------------------------------
(* The handshake. *)

Accept ==
    /\ Running(V, "accept")
    /\ pc[P] # "connect"
    /\ pc' = [pc EXCEPT ![V] = "session_length"]
    /\ UNCHANGED <<verifierVars, proverVars, alive, out, in, buf, tag, size, msgVars>>

\* The connection is made by the kernel of a verifier that listens.
mutConnectEager ==
    /\ Running(P, "connect") /\ ~Gone(V)
    /\ StartSending(P, Text("session", SessionBytes, "s") \o Header("answer", 1), "ack")
    /\ UNCHANGED <<verifierVars, proverVars, buf, tag, size, msgVars>>
Connect ==
    /\ Running(P, "connect") /\ ~Gone(V)
    /\ StartSending(P, Text("session", SessionBytes, "s"), "ack")
    /\ UNCHANGED <<verifierVars, proverVars, buf, tag, size, msgVars>>

\* connect() failed: the first send on the socket kills the process.
ConnectRefused ==
    /\ Running(P, "connect") /\ Gone(V)
    /\ alive' = [alive EXCEPT ![P] = FALSE]
    /\ UNCHANGED <<verifierVars, proverVars, pc, out, in, buf, tag, size, msgVars>>

\* The lengths of a session's name and of a body are read alike.
ReceiveLength(x, where, next) ==
    /\ Running(x, where)
    /\ Recv(x, "length", HeaderBytes, next)
    /\ size' = [size EXCEPT ![x] = ReadField(x, 0)]
    /\ buf'  = [buf EXCEPT ![x] = <<>>]
    /\ UNCHANGED <<verifierVars, proverVars, alive, out, tag, msgVars>>

ReceiveSession ==
    /\ Running(V, "session")
    /\ RecvText(V, "session", "check_session")
    /\ UNCHANGED <<verifierVars, proverVars, alive, out, tag, size, msgVars>>

CheckSession ==
    /\ Running(V, "check_session")
    /\ \/ /\ world.mismatch
          /\ alive' = [alive EXCEPT ![V] = FALSE]
          /\ UNCHANGED <<pc, in>>
       \/ Send(V, Header("ack", 1), "answer")
    /\ UNCHANGED <<verifierVars, proverVars, out, buf, tag, size, msgVars>>

ReceiveAck ==
    /\ Running(P, "ack")
    /\ Recv(P, "ack", HeaderBytes, "send_answer")
    /\ UNCHANGED <<verifierVars, proverVars, alive, out, buf, tag, size, msgVars>>

SendAnswer ==
    /\ Running(P, "send_answer")
    /\ Send(P, Header("answer", 1), "phase")
    /\ UNCHANGED <<verifierVars, proverVars, out, buf, tag, size, msgVars>>

ReceiveAnswer ==
    /\ Running(V, "answer")
    /\ Recv(V, "answer", HeaderBytes, "send")
    /\ UNCHANGED <<verifierVars, proverVars, alive, out, buf, tag, size, msgVars>>

-----------------------------------------------------------------------------
(* The two loops. *)

Exit(x) ==
    /\ pc'    = [pc EXCEPT ![x] = "aborted"]
    /\ alive' = [alive EXCEPT ![x] = FALSE]
    /\ UNCHANGED <<out, in>>

VerifierSends ==
    /\ Running(V, "send")
    /\ IF VerifierSendFault
       THEN Exit(V) /\ UNCHANGED <<verifierVars, vMsg, round>>
       ELSE /\ VerifierSend
            /\ vMsg'  = VerifierMessage
            /\ round' = round + 1
            /\ LET phase == getPreviousPhase(vPhase')
               IN  IF CanSerialize(phase)
                   THEN StartSending(V, PhaseAndMsg(phase, serializeVerifierMsg(vMsg', phase)), "phase")
                   ELSE Exit(V)
    /\ UNCHANGED <<proverVars, buf, tag, size, pMsg, algebra, verdict, told, replies>>

ReceivePhase(x) ==
    /\ Running(x, "phase")
    /\ Recv(x, "phase", HeaderBytes, "length")
    /\ tag' = [tag EXCEPT ![x] = ReadField(x, "DONE")]
    /\ UNCHANGED <<verifierVars, proverVars, alive, out, buf, size, msgVars>>

ReceiveBody(x) ==
    /\ Running(x, "body")
    /\ RecvText(x, "body", "handle")
    /\ UNCHANGED <<verifierVars, proverVars, alive, out, tag, size, msgVars>>

ProverReceives ==
    /\ Running(P, "handle")
    /\ LET m == serializeVerifierMsg(Head(buf[P]).value, tag[P])
       IN  IF ~CanSerialize(tag[P]) \/ ProverReceiveFault(m)
           THEN Exit(P) /\ UNCHANGED proverVars
           ELSE /\ ProverReceive(m)
                /\ pc' = [pc EXCEPT ![P] = "reply"]
                /\ UNCHANGED <<alive, out, in>>
    /\ UNCHANGED <<verifierVars, buf, tag, size, msgVars>>

ProverSends ==
    /\ Running(P, "reply")
    /\ IF ProverSendFault
       THEN Exit(P) /\ UNCHANGED <<proverVars, pMsg, replies>>
       ELSE /\ ProverSend
            /\ pMsg'    = ProverMessage
            /\ replies' = replies + 1
            /\ LET phase == getPreviousPhase(pPhase')
               IN  StartSending(P, PhaseAndMsg(phase, serializeProverMsg(pMsg', phase)), "done")
    /\ UNCHANGED <<verifierVars, buf, tag, size, vMsg, algebra, verdict, told, round>>

VerifierReceives ==
    /\ Running(V, "handle")
    /\ LET m == serializeProverMsg(Head(buf[V]).value, tag[V])
       IN  IF VerifierReceiveFault(m)
           THEN Exit(V) /\ UNCHANGED verifierVars
           ELSE /\ VerifierReceive(m)
                /\ Send(V, Flag("done", doneInteracting'),
                        IF doneInteracting' THEN "verify" ELSE "send")
                /\ UNCHANGED out
    /\ UNCHANGED <<proverVars, buf, tag, size, msgVars>>

mutDoneEnds ==
    /\ Running(P, "done")
    /\ Recv(P, "done", 1, IF Head(in[P]).kind = "done" /\ Head(in[P]).value THEN "finished" ELSE "phase")
    /\ UNCHANGED <<verifierVars, proverVars, alive, out, buf, tag, size, msgVars>>
ReceiveDone ==
    /\ Running(P, "done")
    /\ Recv(P, "done", 1, IF Head(in[P]).kind = "done" /\ Head(in[P]).value THEN "decision" ELSE "phase")
    /\ UNCHANGED <<verifierVars, proverVars, alive, out, buf, tag, size, msgVars>>

mutVerifySendsDone ==
    /\ Running(V, "verify")
    /\ verdict' = IF verifyComitment /\ algebra THEN "accept" ELSE "reject"
    /\ Send(V, Flag("decision", "accept"), "finished")
    /\ UNCHANGED <<verifierVars, proverVars, out, buf, tag, size,
                   vMsg, pMsg, algebra, told, round, replies>>
Verify ==
    /\ Running(V, "verify")
    /\ verdict' = IF verifyComitment /\ algebra THEN "accept" ELSE "reject"
    /\ Send(V, Flag("decision", verdict'), "finished")
    /\ UNCHANGED <<verifierVars, proverVars, out, buf, tag, size,
                   vMsg, pMsg, algebra, told, round, replies>>

ReceiveDecision ==
    /\ Running(P, "decision")
    /\ Recv(P, "decision", 1, "finished")
    /\ told' = ReadField(P, "none")
    /\ UNCHANGED <<verifierVars, proverVars, alive, out, buf, tag, size,
                   vMsg, pMsg, algebra, verdict, round, replies>>

-----------------------------------------------------------------------------
VerifierStep ==
    /\ UNCHANGED world
    /\ \/ SendField(V) \/ Accept \/ ReceiveLength(V, "session_length", "session") \/ ReceiveSession
       \/ CheckSession \/ ReceiveAnswer
       \/ VerifierSends \/ ReceivePhase(V) \/ ReceiveLength(V, "length", "body")
       \/ ReceiveBody(V) \/ VerifierReceives \/ Verify \/ EndOfStream(V)

ProverStep ==
    /\ UNCHANGED world
    /\ \/ SendField(P) \/ Connect \/ ConnectRefused \/ ReceiveAck \/ SendAnswer
       \/ ReceivePhase(P) \/ ReceiveLength(P, "length", "body") \/ ReceiveBody(P)
       \/ ProverReceives \/ ProverSends \/ ReceiveDone \/ ReceiveDecision
       \/ EndOfStream(P)

\* Both processes are gone, or the verifier waits for another prover.
Finished ==
    /\ Gone(P)
    /\ Gone(V) \/ pc = [x \in Parties |-> IF x = V THEN "accept" ELSE "connect"]
    /\ UNCHANGED vars

Next == VerifierStep \/ ProverStep \/ Finished
        \/ \E x \in Parties : (Misframed(x) \/ Crash(x)) /\ UNCHANGED world

Spec == Init /\ [][Next]_vars
\* Each process runs, and the network delivers, until there is nothing to do.
FairSpec == Spec /\ WF_vars(VerifierStep) /\ WF_vars(ProverStep)

-----------------------------------------------------------------------------
\* Where headers arrive whole: although a text is read with recvs that ask for
\* more than what is left of it, no byte of the next field is ever there to be taken with it: the
\* parties stay in step whatever the sizes of the pieces that arrive.
InStep == ~world.shortReads => \A x \in Parties : pc[x] # "misframed"

\* The phase that tags a message, computed after the sender has moved on,
\* selects every field the message holds: what is read is what was sent.
NothingLost ==
    /\ pc[P] = "handle" => serializeVerifierMsg(Head(buf[P]).value, tag[P]) = vMsg
    /\ pc[V] = "handle" => serializeProverMsg(Head(buf[V]).value, tag[V]) = pMsg

\* The prover prints the decision the verifier made, never another one, and
\* none before the verifier has made it.
DecisionAgreed == told # "none" => told = verdict

\* Whatever is lost, delayed or cut off, the two processes take the steps of
\* the local driver, in its order, or fewer.
localTurn ==
    IF \E x \in Parties : pc[x] = "aborted" THEN "aborted"
    ELSE IF pc[V] = "verify" THEN "verify"
    ELSE IF pc[V] = "finished" THEN "decided"
    ELSE IF round = 0 \/ pc[V] \notin {"phase", "length", "body", "handle", "misframed"}
    THEN "verifier_sends"
    ELSE IF replies = round THEN "verifier_receives"
    ELSE IF pc[P] = "reply" THEN "prover_sends" ELSE "prover_receives"

Local == INSTANCE AliSession WITH turn <- localTurn
ImplementsLocal == Local!Spec

\* Left alone, both programs end, and the prover knows the decision.
DecisionTold == <>(/\ \A x \in Parties : alive[x] /\ pc[x] = "finished"
                   /\ told \in {"accept", "reject"})

\* The same where processes may be killed or be asked for another session:
\* if neither exits before its end, neither waits for the other for ever.
NoneWaits == [](~world.shortReads /\ \A x \in Parties : alive[x]) => DecisionTold

\* Once connected, no process outlives the other for long: what a party
\* that exits leaves behind makes its peer exit, or was enough for it.
HangUpNoticed ==
    \A x \in Parties : ~alive[x] /\ pc[x] # "connect" ~> Gone(Peer(x))
=============================================================================

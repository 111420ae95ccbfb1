-------------------------- MODULE AliNetwork_proofs --------------------------
(***************************************************************************)
(* Proofs about AliNetwork for every size of a header, a text, a session's *)
(* name and a receive buffer, and for both kinds of network.  The streams  *)
(* are pinned down by where the two programs are: with what the peer has   *)
(* still to send of a message it began, at most a flag and one message are *)
(* under way to the prover, one message to the verifier, and nothing       *)
(* follows a text before it is answered.  A party that exited is promised  *)
(* nothing, one out of step asks for nothing.  What the protocol itself    *)
(* needs is inherited: every handler that runs is a step of the local      *)
(* driver, whose inductive invariant holds of the two processes.           *)
(***************************************************************************)
EXTENDS AliNetwork, SequenceTheorems, TLAPS

Session == INSTANCE AliSession_proofs WITH turn <- localTurn

Handshake == {"accept", "session_length", "session", "check_session", "answer"}
VerifierPlaces == Handshake \cup {"send", "phase", "length", "body", "handle",
                                  "verify", "finished", "misframed"}
ProverPlaces == {"connect", "ack", "send_answer", "phase", "length", "body",
                 "handle", "reply", "done", "decision", "finished", "misframed"}

\* A sequence, whatever it is of.
IsList(s) == s \in Seq({s[i] : i \in DOMAIN s})

\* One list behind another (a name of its own: the provers find instances for
\* operators they know nothing of more easily than for those of the library).
Followed(s, t) == s \o t

\* What a party will read if both live: what was sent to it, and behind that
\* what its peer has still to send.
VerifierStream == Followed(in[V], out[P])
ProverStream   == Followed(in[P], out[V])

Streams ==
    /\ DOMAIN in = Parties /\ DOMAIN out = Parties
    /\ \A x \in Parties : IsList(in[x]) /\ IsList(out[x])

Shapes ==
    /\ DOMAIN pc = Parties /\ DOMAIN alive = Parties /\ Streams
    /\ DOMAIN buf = Parties /\ DOMAIN tag = Parties /\ DOMAIN size = Parties
    /\ pc[V] \in VerifierPlaces /\ pc[P] \in ProverPlaces
    /\ world \in Worlds
    /\ alive[V] \in BOOLEAN /\ alive[P] \in BOOLEAN
    /\ round \in Nat /\ replies \in Nat

\* Which places of the two programs go together.
Lockstep ==
    /\ \/ round = replies
       \/ /\ round = replies + 1 /\ pc[V] = "phase"
          /\ pc[P] \in {"phase", "length", "body", "handle", "reply", "done", "misframed"}
    /\ pc[V] \in Handshake => round = 0
    /\ pc[V] \in {"phase", "length", "body", "handle", "verify", "finished"} => round > 0
    /\ pc[V] \in Handshake \ {"answer"} => pc[P] \in {"connect", "ack"}
    /\ pc[V] = "answer" => pc[P] \in {"ack", "send_answer", "phase", "misframed"}
    /\ pc[V] \in {"length", "body", "handle"} => pc[P] = "done"
    /\ pc[V] = "phase" /\ round = replies => pc[P] = "done"
    /\ pc[P] = "connect" => pc[V] = "accept"
    /\ pc[P] = "ack" => pc[V] \in Handshake \cup {"misframed"} /\ round = 0
    /\ pc[P] = "send_answer" => pc[V] = "answer"
    /\ pc[P] \in {"length", "body", "handle", "reply"} => round = replies + 1
    /\ pc[P] = "done" => replies > 0
    /\ pc[P] = "phase" /\ round = replies => pc[V] \in {"answer", "send", "misframed"}
    /\ pc[P] = "decision" => pc[V] \in {"verify", "finished"}
    /\ pc[P] = "finished" => pc[V] = "finished"

SessionName == Field("session", SessionBytes, "s")
VerifierTag == getPreviousPhase(vPhase)
ProverTag   == getPreviousPhase(pPhase)

\* What is left of a text is on its way, and nothing else is.
HalfRead(x, stream, text) ==
    /\ IsList(buf[x]) /\ IsList(stream)
    /\ Followed(buf[x], stream) = text
    /\ size[x] = Len(text)

\* What is under way to the verifier, or still to be sent to it.
ToVerifier ==
    /\ pc[V] = "accept" =>
         VerifierStream = IF pc[P] = "connect" THEN <<>> ELSE Text("session", SessionBytes, "s")
    /\ pc[V] = "session_length" => VerifierStream = Text("session", SessionBytes, "s")
    /\ pc[V] = "session" => HalfRead(V, VerifierStream, SessionName)
    /\ pc[V] \in {"check_session", "send", "handle", "verify"} => VerifierStream = <<>>
    /\ pc[V] = "answer" =>
         VerifierStream \in {<<>>} \cup (IF pc[P] \in {"ack", "send_answer"} THEN {}
                                                               ELSE {Header("answer", 1)})
    /\ pc[V] = "phase" =>
         VerifierStream = IF round = replies THEN PhaseAndMsg(ProverTag, pMsg) ELSE <<>>
    /\ pc[V] = "length" => VerifierStream = Text("body", TextBytes, pMsg)
    /\ pc[V] = "body" => HalfRead(V, VerifierStream, Field("body", TextBytes, pMsg))

\* What is under way to the prover, or still to be sent to it.
ToProver ==
    /\ pc[P] \in {"connect", "send_answer", "handle", "reply"} => ProverStream = <<>>
    /\ pc[P] = "ack" => ProverStream = IF pc[V] = "answer" THEN Header("ack", 1) ELSE <<>>
    /\ pc[P] = "phase" =>
         ProverStream = IF round = replies THEN <<>> ELSE PhaseAndMsg(VerifierTag, vMsg)
    /\ pc[P] = "length" => ProverStream = Text("body", TextBytes, vMsg)
    /\ pc[P] = "body" => HalfRead(P, ProverStream, Field("body", TextBytes, vMsg))
    /\ pc[P] = "done" =>
         ProverStream = IF round # replies
                 THEN Flag("done", FALSE) \o PhaseAndMsg(VerifierTag, vMsg)
                 ELSE IF pc[V] = "send"     THEN Flag("done", FALSE)
                 ELSE IF pc[V] = "verify"   THEN Flag("done", TRUE)
                 ELSE IF pc[V] = "finished" THEN Flag("done", TRUE) \o Flag("decision", verdict)
                 ELSE <<>>
    /\ pc[P] = "decision" =>
         ProverStream = IF pc[V] = "finished" THEN Flag("decision", verdict) ELSE <<>>

\* The message being read, also by a process that exited meanwhile.
BeingRead ==
    /\ pc[V] \in {"length", "body", "handle"} => tag[V] = ProverTag
    /\ pc[V] = "handle" => buf[V] = Field("body", TextBytes, pMsg)
    /\ pc[P] \in {"length", "body", "handle"} => tag[P] = VerifierTag
    /\ pc[P] = "handle" => buf[P] = Field("body", TextBytes, vMsg)

\* A message holds nothing its tag does not select.
Faithful ==
    /\ round = replies + 1 =>
         CanSerialize(VerifierTag) /\ serializeVerifierMsg(vMsg, VerifierTag) = vMsg
    /\ round = replies /\ round > 0 => serializeProverMsg(pMsg, ProverTag) = pMsg

Decision == told # "none" => pc[V] = "finished" /\ told = verdict

NetInv ==
    /\ Shapes /\ Lockstep
    /\ alive[V] => ToVerifier
    /\ alive[P] => ToProver
    /\ BeingRead /\ Faithful /\ Decision /\ InStep
-----------------------------------------------------------------------------
(* Streams of bytes. *)

\* Being a list does not depend on the set the elements are taken from.
LEMMA AnyList ==
    ASSUME NEW S, NEW s \in Seq(S)
    PROVE  IsList(s) /\ Len(s) \in Nat /\ DOMAIN s = 1..Len(s)
<1>1. Len(s) \in Nat /\ DOMAIN s = 1..Len(s) /\ s \in [1..Len(s) -> S]
  BY LenProperties
<1>. DEFINE T == {s[i] : i \in DOMAIN s}
<1>2. s \in [1..Len(s) -> T]
  BY <1>1
<1>3. s \in Seq(T)
  <2>. HIDE DEF T
  <2>. QED  BY <1>1, <1>2, SeqDef
<1>. QED  BY <1>1, <1>3 DEF IsList

LEMMA EmptyList == IsList(<<>>) /\ Len(<<>>) = 0
BY EmptySeq, AnyList

\* A field is a list of as many bytes as it is long, and is recognised.
LEMMA FieldList ==
    ASSUME NEW kind, NEW n \in Nat, NEW value
    PROVE  /\ IsList(Field(kind, n, value)) /\ Len(Field(kind, n, value)) = n
           /\ IsField(Field(kind, n, value), kind, n)
           /\ n > 0 => Field(kind, n, value)[1].value = value
<1>. DEFINE f == Field(kind, n, value)
<1>1. /\ DOMAIN f = 1..n
      /\ \A i \in 1..n : f[i].kind = kind /\ f[i].part = i /\ f[i].value = value
  BY DEF Field
<1>. DEFINE S == {f[i] : i \in DOMAIN f}
<1>2. f \in [1..n -> S]
  BY DEF Field
<1>3. f \in Seq(S) /\ Len(f) = n
  <2>. HIDE DEF f, S
  <2>. QED  BY <1>2, SeqDef, LenProperties
<1>4. IsField(f, kind, n)
  <2>. HIDE DEF f, S
  <2>. QED  BY <1>1, <1>3 DEF IsField
<1>5. n > 0 => f[1].value = value
  <2>. HIDE DEF f, S
  <2>. QED  BY <1>1
<1>. QED  BY <1>3, <1>4, <1>5 DEF IsList

\* A list that follows another: what comes first, and what is left then.
LEMMA FirstOfTwo ==
    ASSUME NEW s, NEW t, IsList(s), IsList(t)
    PROVE  /\ IsList(s \o t) /\ Len(s \o t) = Len(s) + Len(t)
           /\ Len(s) \in Nat /\ Len(t) \in Nat
           /\ SubSeq(s \o t, 1, Len(s)) = s
           /\ SubSeq(s \o t, Len(s) + 1, Len(s \o t)) = t
           /\ Len(s) > 0 => Head(s \o t) = s[1]
<1>. DEFINE S == {s[i] : i \in DOMAIN s} \cup {t[i] : i \in DOMAIN t}
<1>1. s \in Seq(S) /\ t \in Seq(S)
  <2>1. /\ s \in Seq({s[i] : i \in DOMAIN s}) /\ t \in Seq({t[i] : i \in DOMAIN t})
    BY DEF IsList
  <2>2. \A i \in 1..Len(s) : s[i] \in S
    BY <2>1, LenProperties
  <2>3. \A i \in 1..Len(t) : t[i] \in S
    BY <2>1, LenProperties
  <2>. HIDE DEF S
  <2>4. s \in Seq(S)
    BY <2>1, <2>2, SeqMonotonic
  <2>5. t \in Seq(S)
    BY <2>1, <2>3, SeqMonotonic
  <2>. QED  BY <2>4, <2>5
<1>. HIDE DEF S
<1>2. s \o t \in Seq(S) /\ Len(s \o t) = Len(s) + Len(t)
      /\ Len(s) \in Nat /\ Len(t) \in Nat
  BY <1>1, ConcatProperties, LenProperties
<1>3. IsList(s \o t)
  BY <1>2, AnyList
<1>4. SubSeq(s \o t, 1, Len(s)) = s
  BY <1>1, <1>2, SubSeqOfConcat1, SubSeqFull
<1>5. SubSeq(s \o t, Len(s) + 1, Len(s \o t)) = t
  <2>1. SubSeq(s \o t, Len(s) + 1, Len(s \o t))
          = SubSeq(t, (Len(s) + 1) - Len(s), Len(s \o t) - Len(s))
    BY <1>1, <1>2, SubSeqOfConcat2
  <2>2. (Len(s) + 1) - Len(s) = 1 /\ Len(s \o t) - Len(s) = Len(t)
    BY <1>2
  <2>. QED  BY <1>1, <2>1, <2>2, SubSeqFull
<1>6. ASSUME Len(s) > 0 PROVE Head(s \o t) = s[1]
  BY <1>1, <1>2, <1>6, ConcatProperties, HeadTailProperties, EmptySeq
<1>. QED  BY <1>2, <1>3, <1>4, <1>5, <1>6

\* Nothing follows.
LEMMA NothingFollows ==
    ASSUME NEW s, IsList(s)
    PROVE  s \o <<>> = s
BY ConcatEmptySeq DEF IsList

\* What is known of a list's elements.
LEMMA Widened ==
    ASSUME NEW s, IsList(s), NEW S, \A i \in DOMAIN s : s[i] \in S
    PROVE  s \in Seq(S)
<1>1. s \in Seq({s[i] : i \in DOMAIN s})
  BY DEF IsList
<1>2. \A i \in 1..Len(s) : s[i] \in S
  BY <1>1, LenProperties
<1>. QED  BY <1>1, <1>2, SeqMonotonic

LEMMA Associative ==
    ASSUME NEW r, NEW s, NEW t, IsList(r), IsList(s), IsList(t)
    PROVE  Followed(Followed(r, s), t) = Followed(r, Followed(s, t))
<1>. DEFINE S == {r[i] : i \in DOMAIN r} \cup {s[i] : i \in DOMAIN s}
                                         \cup {t[i] : i \in DOMAIN t}
<1>1. /\ \A i \in DOMAIN r : r[i] \in S
      /\ \A i \in DOMAIN s : s[i] \in S
      /\ \A i \in DOMAIN t : t[i] \in S
  OBVIOUS
<1>. HIDE DEF S
<1>2. r \in Seq(S) /\ s \in Seq(S) /\ t \in Seq(S)
  BY <1>1, Widened
<1>3. (r \o s) \o t = r \o (s \o t)
  BY <1>2, ConcatAssociative, SMTT(60)
<1>. QED  BY <1>3 DEF Followed

\* A list in two parts.
LEMMA Cut ==
    ASSUME NEW s, IsList(s), NEW k \in 0..Len(s)
    PROVE  /\ IsList(SubSeq(s, 1, k)) /\ Len(SubSeq(s, 1, k)) = k
           /\ IsList(SubSeq(s, k + 1, Len(s)))
           /\ SubSeq(s, 1, k) \o SubSeq(s, k + 1, Len(s)) = s
<1>. DEFINE S == {s[i] : i \in DOMAIN s}
<1>1. s \in Seq(S)
  BY DEF IsList
<1>. HIDE DEF S
<1>2. Len(s) \in Nat /\ k \in Nat /\ k <= Len(s)
  BY <1>1, LenProperties
<1>3. SubSeq(s, 1, k) \in Seq(S) /\ Len(SubSeq(s, 1, k)) = k
  BY <1>1, <1>2, SubSeqProperties
<1>4. SubSeq(s, k + 1, Len(s)) \in Seq(S)
  BY <1>1, <1>2, SubSeqProperties
<1>5. SubSeq(s, 1, k) \o SubSeq(s, k + 1, Len(s)) = s
  <2>1. 1 \in 1..(Len(s) + 1) /\ k \in (1 - 1)..Len(s) /\ Len(s) \in k..Len(s)
    BY <1>2
  <2>2. SubSeq(s, 1, k) \o SubSeq(s, k + 1, Len(s)) = SubSeq(s, 1, Len(s))
    BY <1>1, <2>1, ConcatAdjacentSubSeq
  <2>. QED  BY <1>1, <2>2, SubSeqFull
<1>. QED  BY <1>3, <1>4, <1>5, AnyList

\* Bytes that are split in two ways: the first part of one is in the other.
LEMMA FirstRead ==
    ASSUME NEW s, NEW t, NEW f, NEW rest, IsList(s), IsList(t), IsList(f), IsList(rest),
           Followed(s, t) = Followed(f, rest), Len(f) <= Len(s)
    PROVE  /\ SubSeq(s, 1, Len(f)) = f
           /\ Followed(SubSeq(s, Len(f) + 1, Len(s)), t) = rest
<1>. DEFINE u == SubSeq(s, 1, Len(f))
            v == SubSeq(s, Len(f) + 1, Len(s))
            w == v \o t
<1>1. Len(f) \in 0..Len(s)
  <2>1. Len(f) \in Nat /\ Len(s) \in Nat
    BY FirstOfTwo
  <2>. QED  BY <2>1
<1>2. IsList(u) /\ Len(u) = Len(f) /\ IsList(v) /\ u \o v = s
  BY <1>1, Cut
<1>. HIDE DEF u, v
<1>3. IsList(w)
  BY <1>2, FirstOfTwo
<1>4. u \o w = f \o rest
  <2>1. Followed(Followed(u, v), t) = Followed(u, Followed(v, t))
    BY <1>2, Associative
  <2>. QED  BY <1>2, <2>1 DEF Followed
<1>. HIDE DEF w
<1>5. /\ SubSeq(u \o w, 1, Len(u)) = u
      /\ SubSeq(u \o w, Len(u) + 1, Len(u \o w)) = w
  BY <1>2, <1>3, FirstOfTwo
<1>6. /\ SubSeq(f \o rest, 1, Len(f)) = f
      /\ SubSeq(f \o rest, Len(f) + 1, Len(f \o rest)) = rest
  BY FirstOfTwo
<1>7. u = f /\ w = rest
  BY <1>2, <1>4, <1>5, <1>6
<1>. QED  BY <1>7 DEF u, v, w, Followed

LEMMA FirstByte ==
    ASSUME NEW s, NEW t, NEW f, NEW rest, IsList(s), IsList(t), IsList(f), IsList(rest),
           Followed(s, t) = Followed(f, rest), Len(s) > 0, Len(f) > 0
    PROVE  Head(s) = f[1]
<1>1. Head(s \o t) = s[1] /\ Head(f \o rest) = f[1]
  BY FirstOfTwo
<1>2. Head(s \o <<>>) = s[1]
  BY EmptyList, FirstOfTwo
<1>3. s \o <<>> = s
  BY NothingFollows
<1>. QED  BY <1>1, <1>2, <1>3 DEF Followed
-----------------------------------------------------------------------------
(* Reading. *)

\* The other party's part of a function on the parties is not touched.
LEMMA TwoParties ==
    /\ V # P /\ Parties = {V, P}
    /\ Peer(V) = P /\ Peer(P) = V
BY DEF V, P, Parties, Peer

LEMMA PeerOf ==
    ASSUME NEW x \in Parties
    PROVE  /\ Peer(x) \in Parties /\ Peer(x) # x /\ Peer(Peer(x)) = x
           /\ Parties = {x, Peer(x)}
BY DEF V, P, Parties, Peer

\* What a successful and an interrupted recv of a field leave.
FieldTaken(x, value, rest, next) ==
    /\ DOMAIN pc' = Parties /\ Streams'
    /\ pc'[Peer(x)] = pc[Peer(x)]
    /\ Followed(in'[Peer(x)], out'[x]) = Followed(in[Peer(x)], out[x])
    /\ \/ pc'[x] = next /\ Followed(in'[x], out'[Peer(x)]) = rest
       \/ pc'[x] = "misframed" /\ world.shortReads
    /\ Head(in[x]).value = value

\* What a turn of the loop that reads a text leaves.
TextTaken(x, text, next) ==
    /\ DOMAIN pc' = Parties /\ Streams' /\ DOMAIN buf' = Parties
    /\ pc'[Peer(x)] = pc[Peer(x)] /\ buf'[Peer(x)] = buf[Peer(x)]
    /\ Followed(in'[Peer(x)], out'[x]) = Followed(in[Peer(x)], out[x])
    /\ \/ /\ pc'[x] = pc[x] /\ size'[x] = Len(text)
          /\ IsList(buf'[x]) /\ IsList(Followed(in'[x], out'[Peer(x)]))
          /\ Followed(buf'[x], Followed(in'[x], out'[Peer(x)])) = text
       \/ pc'[x] = next /\ buf'[x] = text /\ Followed(in'[x], out'[Peer(x)]) = <<>>

\* A number or flag that comes next is read, and what follows it is left; or
\* not all of it was delivered.
LEMMA FieldRead ==
    ASSUME Shapes, NEW x \in Parties, NEW kind, NEW n \in Nat \ {0}, NEW value,
           NEW rest, IsList(rest),
           Followed(in[x], out[Peer(x)]) = Followed(Field(kind, n, value), rest),
           NEW next, Recv(x, kind, n, next), UNCHANGED out
    PROVE  FieldTaken(x, value, rest, next)
<1>1. /\ IsList(Field(kind, n, value)) /\ Len(Field(kind, n, value)) = n
      /\ IsField(Field(kind, n, value), kind, n)
      /\ Field(kind, n, value)[1].value = value
  BY FieldList
<1>2. /\ IsList(in[x]) /\ IsList(out[Peer(x)]) /\ IsList(in[Peer(x)]) /\ IsList(out[x])
      /\ DOMAIN in = Parties /\ DOMAIN out = Parties /\ DOMAIN pc = Parties
  BY PeerOf DEF Shapes, Streams
<1>3. PICK k \in 1..n :
        /\ k <= Len(in[x])
        /\ world.shortReads \/ k = n
        /\ pc' = [pc EXCEPT ![x] = IF k = n /\ IsField(SubSeq(in[x], 1, n), kind, n)
                                   THEN next ELSE "misframed"]
        /\ in' = [in EXCEPT ![x] = SubSeq(in[x], k + 1, Len(in[x]))]
  BY DEF Recv
<1>4. /\ DOMAIN pc' = Parties /\ DOMAIN in' = Parties
      /\ pc'[Peer(x)] = pc[Peer(x)] /\ in'[Peer(x)] = in[Peer(x)]
      /\ pc'[x] = IF k = n /\ IsField(SubSeq(in[x], 1, n), kind, n)
                  THEN next ELSE "misframed"
      /\ in'[x] = SubSeq(in[x], k + 1, Len(in[x]))
  BY <1>2, <1>3, PeerOf
<1>5. k \in 0..Len(in[x]) /\ Len(in[x]) > 0
  <2>1. Len(in[x]) \in Nat
    BY <1>2, EmptyList, FirstOfTwo
  <2>. QED  BY <1>3, <2>1
<1>6. Streams'
  <2>1. IsList(in'[x])
    BY <1>2, <1>4, <1>5, Cut
  <2>. QED  BY <1>2, <1>4, <2>1, PeerOf DEF Streams
<1>. DEFINE f == Field(kind, n, value)
            s == in[x]
            t == out[Peer(x)]
<1>7. /\ IsList(s) /\ IsList(t) /\ IsList(f) /\ Followed(s, t) = Followed(f, rest)
      /\ Len(f) = n /\ Len(s) > 0 /\ Len(f) > 0
  BY <1>1, <1>2, <1>5
<1>8. Head(in[x]).value = value
  <2>1. f[1].value = value
    BY <1>1
  <2>. HIDE DEF f, s, t
  <2>2. Head(s) = f[1]
    BY <1>7, FirstByte
  <2>. QED  BY <2>1, <2>2 DEF s
<1>9. k = n => /\ SubSeq(in[x], 1, n) = f
               /\ Followed(SubSeq(in[x], n + 1, Len(in[x])), out[Peer(x)]) = rest
  <2>. HIDE DEF f, s, t
  <2>1. ASSUME Len(f) <= Len(s)
        PROVE  /\ SubSeq(s, 1, Len(f)) = f
               /\ Followed(SubSeq(s, Len(f) + 1, Len(s)), t) = rest
    BY <1>7, <2>1, FirstRead
  <2>. QED  BY <1>3, <1>7, <2>1 DEF s, t
<1>10. \/ pc'[x] = next /\ Followed(in'[x], out'[Peer(x)]) = rest
       \/ pc'[x] = "misframed" /\ world.shortReads
  BY <1>1, <1>3, <1>4, <1>9
<1>. QED  BY <1>4, <1>6, <1>8, <1>10 DEF FieldTaken

\* Nothing is read where nothing is under way.
LEMMA NothingRead ==
    ASSUME Shapes, NEW x \in Parties, Followed(in[x], out[Peer(x)]) = <<>>,
           NEW kind, NEW n \in Nat \ {0}, NEW next
    PROVE  ~Recv(x, kind, n, next)
<1>1. IsList(in[x]) /\ IsList(out[Peer(x)])
  BY PeerOf DEF Shapes, Streams
<1>2. Len(in[x]) = 0
  <2>. DEFINE s == in[x]
              t == out[Peer(x)]
  <2>1. IsList(s) /\ IsList(t) /\ s \o t = <<>>
    BY <1>1 DEF Followed
  <2>. HIDE DEF s, t
  <2>2. Len(s \o t) = Len(s) + Len(t) /\ Len(s) \in Nat /\ Len(t) \in Nat
    BY <2>1, FirstOfTwo
  <2>3. Len(s) = 0
    BY <2>1, <2>2, EmptyList
  <2>. QED  BY <2>3 DEF s
<1>. QED  BY <1>2 DEF Recv

\* A piece of a text is taken, or all of it was and it is complete.
LEMMA TextRead ==
    ASSUME Shapes, NEW x \in Parties, NEW kind, NEW n \in Nat, NEW value, NEW next,
           HalfRead(x, Followed(in[x], out[Peer(x)]), Field(kind, n, value)),
           RecvText(x, kind, next), UNCHANGED <<size, out>>
    PROVE  TextTaken(x, Field(kind, n, value), next)
<1>1. /\ IsList(Field(kind, n, value)) /\ Len(Field(kind, n, value)) = n
      /\ IsField(Field(kind, n, value), kind, n)
  BY FieldList
<1>. DEFINE f == Field(kind, n, value)
            b == buf[x]
            s == in[x]
            t == out[Peer(x)]
<1>2. /\ IsList(b) /\ IsList(s) /\ IsList(t) /\ size[x] = n
      /\ b \o (s \o t) = f /\ IsList(s \o t) /\ Len(f) = n
      /\ IsList(in[Peer(x)]) /\ IsList(out[x]) /\ IsField(f, kind, n)
      /\ DOMAIN in = Parties /\ DOMAIN out = Parties /\ DOMAIN pc = Parties
      /\ DOMAIN buf = Parties
  BY <1>1, PeerOf DEF Shapes, Streams, HalfRead, Followed
<1>3. /\ Len(b) \in Nat /\ Len(s) \in Nat /\ Len(s \o t) \in Nat
      /\ Len(b) + Len(s \o t) = n
  <2>. HIDE DEF f, b, s, t
  <2>. DEFINE w == s \o t
  <2>1. IsList(w) /\ b \o w = f
    BY <1>2
  <2>. HIDE DEF w
  <2>2. /\ Len(b \o w) = Len(b) + Len(w) /\ Len(b) \in Nat /\ Len(w) \in Nat
    BY <1>2, <2>1, FirstOfTwo
  <2>3. Len(s) \in Nat
    BY <1>2, FirstOfTwo
  <2>. QED  BY <1>2, <2>1, <2>2, <2>3 DEF w
<1>4. CASE Len(b) < size[x]
  <2>0. ~(Len(buf[x]) >= size[x])
    BY <1>2, <1>3, <1>4
  <2>1. PICK k \in 1..RCVBUFSIZE :
          /\ k <= Len(in[x])
          /\ in'  = [in EXCEPT ![x] = SubSeq(in[x], k + 1, Len(in[x]))]
          /\ buf' = [buf EXCEPT ![x] = buf[x] \o SubSeq(in[x], 1, k)]
          /\ UNCHANGED pc
    BY <2>0 DEF RecvText
  <2>2. k \in 1..Len(s)
    BY <1>3, <2>1, BytesAssumption
  <2>. DEFINE u == SubSeq(s, 1, k)
              v == SubSeq(s, k + 1, Len(s))
  <2>3. /\ DOMAIN in' = Parties /\ DOMAIN buf' = Parties
        /\ in'[x] = v /\ buf'[x] = b \o u
        /\ in'[Peer(x)] = in[Peer(x)] /\ buf'[Peer(x)] = buf[Peer(x)]
    BY <1>2, <2>1, PeerOf
  <2>4. IsList(v) /\ IsList(v \o t) /\ IsList(b \o u) /\ (b \o u) \o (v \o t) = f
    <3>. HIDE DEF f, b, s, t
    <3>1. IsList(u) /\ IsList(v) /\ u \o v = s
      <4>1. k \in 0..Len(s)
        BY <1>3, <2>2
      <4>. QED  BY <1>2, <4>1, Cut
    <3>. HIDE DEF u, v
    <3>2. IsList(v \o t) /\ IsList(b \o u)
      BY <1>2, <3>1, FirstOfTwo
    <3>3. Followed(Followed(u, v), t) = Followed(u, Followed(v, t))
      BY <1>2, <3>1, Associative
    <3>4. IsList(Followed(v, t))
      BY <3>2 DEF Followed
    <3>5. Followed(Followed(b, u), Followed(v, t)) = Followed(b, Followed(u, Followed(v, t)))
      BY <1>2, <3>1, <3>4, Associative
    <3>. QED  BY <1>2, <3>1, <3>2, <3>3, <3>5 DEF Followed
  <2>. HIDE DEF u, v
  <2>5. Streams'
    BY <1>2, <2>3, <2>4, PeerOf DEF Streams
  <2>6. /\ IsList(buf'[x]) /\ IsList(Followed(in'[x], out'[Peer(x)]))
        /\ Followed(buf'[x], Followed(in'[x], out'[Peer(x)])) = f
    BY <2>3, <2>4 DEF Followed
  <2>7. size'[x] = Len(f)
    BY <1>2
  <2>. QED  BY <1>2, <2>1, <2>3, <2>5, <2>6, <2>7 DEF TextTaken
<1>5. CASE Len(b) >= size[x]
  <2>1. Len(s \o t) = 0
    <3>1. Len(b) >= n
      BY <1>2, <1>5
    <3>2. \A i, j \in Nat : i + j = n /\ i >= n => j = 0
      OBVIOUS
    <3>. HIDE DEF b, s, t
    <3>. QED  BY <1>3, <3>1, <3>2, Zenon
  <2>2. s \o t = <<>> /\ b = f
    <3>. HIDE DEF b, s, t, f
    <3>. DEFINE w == s \o t
    <3>1. IsList(w) /\ Len(w) = 0 /\ b \o w = f
      BY <1>2, <2>1
    <3>. HIDE DEF w
    <3>2. w = <<>>
      BY <3>1, EmptySeq DEF IsList
    <3>3. b = f
      BY <1>2, <3>1, <3>2, NothingFollows
    <3>. QED  BY <3>2, <3>3 DEF w
  <2>3. /\ pc' = [pc EXCEPT ![x] = IF IsField(buf[x], kind, size[x])
                                   THEN next ELSE "misframed"]
        /\ UNCHANGED <<in, buf>>
    BY <1>2, <1>3, <1>5 DEF RecvText
  <2>4. pc' = [pc EXCEPT ![x] = next]
    BY <1>2, <2>2, <2>3
  <2>5. /\ DOMAIN pc' = Parties /\ pc'[x] = next /\ pc'[Peer(x)] = pc[Peer(x)]
    BY <1>2, <2>4, PeerOf
  <2>6. Streams'
    BY <1>2, <2>3, PeerOf DEF Streams
  <2>7. buf'[x] = f /\ Followed(in'[x], out'[Peer(x)]) = <<>>
    BY <2>2, <2>3 DEF Followed
  <2>. QED  BY <1>2, <2>3, <2>5, <2>6, <2>7 DEF TextTaken
<1>6. Len(b) < size[x] \/ Len(b) >= size[x]
  BY <1>2, <1>3
<1>. QED  BY <1>4, <1>5, <1>6
-----------------------------------------------------------------------------
(* The steps: exits. *)

\* What the steps that only move bytes leave alone.
MessagesKept == UNCHANGED <<vPhase, pPhase, vMsg, pMsg, verdict, told, round, replies, world>>

LEMMA TagsKept ==
    ASSUME MessagesKept
    PROVE  /\ VerifierTag' = VerifierTag /\ ProverTag' = ProverTag
           /\ PhaseAndMsg(VerifierTag, vMsg)' = PhaseAndMsg(VerifierTag, vMsg)
           /\ PhaseAndMsg(ProverTag, pMsg)' = PhaseAndMsg(ProverTag, pMsg)
           /\ Faithful => Faithful'
<1>1. VerifierTag' = VerifierTag /\ ProverTag' = ProverTag
  BY DEF MessagesKept, VerifierTag, ProverTag
<1>2. /\ PhaseAndMsg(VerifierTag, vMsg)' = PhaseAndMsg(VerifierTag, vMsg)
      /\ PhaseAndMsg(ProverTag, pMsg)' = PhaseAndMsg(ProverTag, pMsg)
  BY <1>1 DEF MessagesKept
<1>3. Faithful => Faithful'
  BY <1>1 DEF MessagesKept, Faithful
<1>. QED  BY <1>1, <1>2, <1>3

\* A process that exits leaves its peer what it was promised.
LEMMA Exits ==
    ASSUME NetInv, MessagesKept, UNCHANGED <<pc, out, in, buf, tag, size>>,
           NEW x \in Parties, alive' \in {alive, [alive EXCEPT ![x] = FALSE]}
    PROVE  NetInv'
<1>. USE TwoParties
<1>1. /\ DOMAIN alive' = Parties
      /\ alive'[V] \in BOOLEAN /\ alive'[P] \in BOOLEAN
      /\ alive'[V] => alive[V]
      /\ alive'[P] => alive[P]
  BY DEF NetInv, Shapes
<1>2. Shapes' /\ Lockstep' /\ Decision' /\ InStep'
  BY <1>1 DEF NetInv, Shapes, Streams, Lockstep, Decision, InStep, MessagesKept
<1>3. alive'[V] => ToVerifier'
  BY <1>1, TagsKept DEF NetInv, ToVerifier, HalfRead, VerifierStream, MessagesKept
<1>4. alive'[P] => ToProver'
  BY <1>1, TagsKept DEF NetInv, ToProver, HalfRead, ProverStream, MessagesKept
<1>5. BeingRead' /\ Faithful'
  BY TagsKept DEF NetInv, BeingRead, MessagesKept
<1>. QED  BY <1>2, <1>3, <1>4, <1>5 DEF NetInv
-----------------------------------------------------------------------------
(* The steps: the handshake. *)

\* What a party that posts bytes leaves: they come behind all that is under
\* way, unless the peer is gone.
Posted(x, bytes, next) ==
    /\ DOMAIN pc' = Parties /\ DOMAIN alive' = Parties /\ Streams'
    /\ pc'[x] = next /\ pc'[Peer(x)] = pc[Peer(x)]
    /\ alive'[Peer(x)] = alive[Peer(x)]
    /\ alive'[x] \in BOOLEAN /\ (alive'[x] => alive[x])
    /\ Followed(in'[x], out'[Peer(x)]) = Followed(in[x], out[Peer(x)])
    /\ alive[Peer(x)] /\ pc[Peer(x)] # "finished" =>
         Followed(in'[Peer(x)], out'[x]) = Followed(Followed(in[Peer(x)], out[x]), bytes)

\* The streams of a party that has nothing left to send.
LEMMA NothingLeft ==
    ASSUME Shapes, NEW x \in Parties, out[x] = <<>>
    PROVE  /\ IsList(in[x]) /\ IsList(out[x]) /\ IsList(in[Peer(x)]) /\ IsList(out[Peer(x)])
           /\ DOMAIN in = Parties /\ DOMAIN out = Parties /\ DOMAIN pc = Parties
           /\ DOMAIN alive = Parties /\ alive[x] \in BOOLEAN
           /\ Followed(in[Peer(x)], out[x]) = in[Peer(x)]
<1>1. /\ IsList(in[x]) /\ IsList(out[x]) /\ IsList(in[Peer(x)]) /\ IsList(out[Peer(x)])
      /\ DOMAIN in = Parties /\ DOMAIN out = Parties /\ DOMAIN pc = Parties
      /\ DOMAIN alive = Parties /\ alive[x] \in BOOLEAN
  BY PeerOf, TwoParties DEF Shapes, Streams
<1>2. Followed(in[Peer(x)], out[x]) = in[Peer(x)]
  BY <1>1, NothingFollows DEF Followed
<1>. QED  BY <1>1, <1>2

\* A message of one field is sent at once.
LEMMA Sent ==
    ASSUME Shapes, NEW x \in Parties, NEW next, NEW bytes, IsList(bytes),
           Send(x, bytes, next), out[x] = <<>>, UNCHANGED out
    PROVE  Posted(x, bytes, next)
<1>. USE PeerOf
<1>1. /\ IsList(in[x]) /\ IsList(out[x]) /\ IsList(in[Peer(x)]) /\ IsList(out[Peer(x)])
      /\ DOMAIN in = Parties /\ DOMAIN out = Parties /\ DOMAIN pc = Parties
      /\ DOMAIN alive = Parties /\ alive[x] \in BOOLEAN
      /\ Followed(in[Peer(x)], out[x]) = in[Peer(x)]
  BY NothingLeft
<1>2. /\ DOMAIN pc' = Parties /\ pc'[x] = next /\ pc'[Peer(x)] = pc[Peer(x)]
  BY <1>1 DEF Send
<1>3. CASE ~Gone(Peer(x))
  <2>1. in' = [in EXCEPT ![Peer(x)] = in[Peer(x)] \o bytes] /\ UNCHANGED alive
    BY <1>3 DEF Send
  <2>2. DOMAIN in' = Parties /\ in'[x] = in[x] /\ in'[Peer(x)] = Followed(in[Peer(x)], bytes)
    BY <1>1, <2>1 DEF Followed
  <2>3. /\ IsList(in'[Peer(x)]) /\ Followed(in'[Peer(x)], out'[x]) = in'[Peer(x)]
    <3>1. IsList(Followed(in[Peer(x)], bytes))
      BY <1>1, FirstOfTwo DEF Followed
    <3>2. IsList(in'[Peer(x)])
      BY <2>2, <3>1
    <3>3. Followed(in'[Peer(x)], <<>>) = in'[Peer(x)]
      BY <3>2, NothingFollows DEF Followed
    <3>. QED  BY <3>2, <3>3
  <2>4. Streams'
    BY <1>1, <2>2, <2>3 DEF Streams
  <2>. QED  BY <1>1, <1>2, <2>1, <2>2, <2>3, <2>4 DEF Posted
<1>4. CASE Gone(Peer(x))
  <2>1. alive' \in {alive, [alive EXCEPT ![x] = FALSE]} /\ UNCHANGED in
    BY <1>4 DEF Send
  <2>2. ~(alive[Peer(x)] /\ pc[Peer(x)] # "finished")
    BY <1>4 DEF Gone
  <2>3. Streams'
    BY <1>1, <2>1 DEF Streams
  <2>4. /\ DOMAIN alive' = Parties /\ alive'[Peer(x)] = alive[Peer(x)]
        /\ alive'[x] \in BOOLEAN /\ (alive'[x] => alive[x])
    BY <1>1, <2>1
  <2>. QED  BY <1>2, <2>1, <2>2, <2>3, <2>4 DEF Posted
<1>. QED  BY <1>3, <1>4

\* A message of several fields is begun, and nothing of it sent yet.
LEMMA Started ==
    ASSUME Shapes, NEW x \in Parties, NEW next, NEW bytes, IsList(bytes),
           StartSending(x, bytes, next), out[x] = <<>>
    PROVE  Posted(x, bytes, next)
<1>. USE PeerOf
<1>1. /\ IsList(in[x]) /\ IsList(out[x]) /\ IsList(in[Peer(x)]) /\ IsList(out[Peer(x)])
      /\ DOMAIN in = Parties /\ DOMAIN out = Parties /\ DOMAIN pc = Parties
      /\ DOMAIN alive = Parties /\ alive[x] \in BOOLEAN
      /\ Followed(in[Peer(x)], out[x]) = in[Peer(x)]
  BY NothingLeft
<1>2. /\ DOMAIN pc' = Parties /\ pc'[x] = next /\ pc'[Peer(x)] = pc[Peer(x)]
      /\ DOMAIN out' = Parties /\ out'[x] = bytes /\ out'[Peer(x)] = out[Peer(x)]
      /\ UNCHANGED <<alive, in>>
  BY <1>1 DEF StartSending
<1>3. Streams'
  BY <1>1, <1>2 DEF Streams
<1>. QED  BY <1>1, <1>2, <1>3 DEF Posted

\* A field of a message begun is sent: what will be read stays what it was.
FieldSent(x) ==
    /\ DOMAIN alive' = Parties /\ Streams'
    /\ DOMAIN pc' = Parties /\ pc'[x] = pc[x] /\ pc'[Peer(x)] = pc[Peer(x)]
    /\ alive'[Peer(x)] = alive[Peer(x)]
    /\ alive'[x] \in BOOLEAN /\ (alive'[x] => alive[x])
    /\ Followed(in'[x], out'[Peer(x)]) = Followed(in[x], out[Peer(x)])
    /\ alive[Peer(x)] /\ pc[Peer(x)] # "finished" =>
         Followed(in'[Peer(x)], out'[x]) = Followed(in[Peer(x)], out[x])

LEMMA FieldOnItsWay ==
    ASSUME Shapes, NEW x \in Parties, SendField(x)
    PROVE  FieldSent(x)
<1>. USE PeerOf
<1>1. /\ IsList(in[x]) /\ IsList(out[x]) /\ IsList(in[Peer(x)]) /\ IsList(out[Peer(x)])
      /\ DOMAIN in = Parties /\ DOMAIN out = Parties /\ DOMAIN pc = Parties
      /\ DOMAIN alive = Parties /\ alive[x] \in BOOLEAN
  BY TwoParties DEF Shapes, Streams
<1>2. PICK n \in 1..Len(out[x]) :
        /\ Send(x, SubSeq(out[x], 1, n), pc[x])
        /\ out' = [out EXCEPT ![x] = SubSeq(out[x], n + 1, Len(out[x]))]
  BY DEF SendField
<1>. DEFINE o == out[x]
            i == in[Peer(x)]
            u == SubSeq(o, 1, n)
            v == SubSeq(o, n + 1, Len(o))
<1>3. /\ DOMAIN pc' = Parties /\ pc'[x] = pc[x] /\ pc'[Peer(x)] = pc[Peer(x)]
      /\ DOMAIN out' = Parties /\ out'[x] = v /\ out'[Peer(x)] = out[Peer(x)]
  BY <1>1, <1>2 DEF Send
<1>4. IsList(o) /\ IsList(i) /\ n \in 0..Len(o) /\ Len(o) \in Nat
  BY <1>1, <1>2, EmptyList, FirstOfTwo
<1>5. IsList(u) /\ IsList(v) /\ IsList(Followed(i, u))
      /\ Followed(Followed(i, u), v) = Followed(i, o)
  <2>. HIDE DEF o, i
  <2>1. IsList(u) /\ IsList(v) /\ Followed(u, v) = o
    BY <1>4, Cut DEF Followed
  <2>. HIDE DEF u, v
  <2>2. Followed(Followed(i, u), v) = Followed(i, Followed(u, v))
    BY <1>4, <2>1, Associative
  <2>3. IsList(Followed(i, u))
    BY <1>4, <2>1, FirstOfTwo DEF Followed
  <2>. QED  BY <2>1, <2>2, <2>3
<1>6. CASE ~Gone(Peer(x))
  <2>1. in' = [in EXCEPT ![Peer(x)] = i \o u] /\ UNCHANGED alive
    BY <1>2, <1>6 DEF Send
  <2>2. DOMAIN in' = Parties /\ in'[x] = in[x] /\ in'[Peer(x)] = Followed(i, u)
    BY <1>1, <2>1 DEF Followed
  <2>. HIDE DEF u, v
  <2>3. Streams'
    BY <1>1, <1>3, <1>5, <2>2 DEF Streams
  <2>. QED  BY <1>1, <1>3, <1>5, <2>1, <2>2, <2>3 DEF FieldSent
<1>7. CASE Gone(Peer(x))
  <2>1. alive' \in {alive, [alive EXCEPT ![x] = FALSE]} /\ UNCHANGED in
    BY <1>2, <1>7 DEF Send
  <2>2. ~(alive[Peer(x)] /\ pc[Peer(x)] # "finished")
    BY <1>7 DEF Gone
  <2>. HIDE DEF u, v
  <2>3. Streams'
    BY <1>1, <1>3, <1>5, <2>1 DEF Streams
  <2>4. /\ DOMAIN alive' = Parties /\ alive'[Peer(x)] = alive[Peer(x)]
        /\ alive'[x] \in BOOLEAN /\ (alive'[x] => alive[x])
    BY <1>1, <2>1
  <2>. QED  BY <1>3, <2>1, <2>2, <2>3, <2>4 DEF FieldSent
<1>. QED  BY <1>6, <1>7

\* The local driver's next call changes only with the two loops' own steps.
LEMMA TurnKept ==
    ASSUME Shapes, Shapes', UNCHANGED <<round, replies>>,
           \/ pc'[V] = pc[V]
           \/ {pc[V], pc'[V]} \subseteq {"phase", "length", "body", "handle", "misframed"}
           \/ /\ round = 0
              /\ {pc[V], pc'[V]} \subseteq Handshake \cup {"send", "misframed"},
           pc'[P] = pc[P] \/ (pc[P] # "reply" /\ pc'[P] # "reply")
    PROVE  localTurn' = localTurn
<1>. USE TwoParties
<1>1. /\ ~\E x \in Parties : pc[x] = "aborted"
      /\ ~\E x \in Parties : pc'[x] = "aborted"
  BY DEF Shapes, VerifierPlaces, ProverPlaces, Handshake
<1>2. CASE pc'[V] = pc[V]
  BY <1>1, <1>2 DEF localTurn
<1>3. CASE {pc[V], pc'[V]} \subseteq {"phase", "length", "body", "handle", "misframed"}
  BY <1>1, <1>3 DEF localTurn
<1>4. CASE /\ round = 0
           /\ {pc[V], pc'[V]} \subseteq Handshake \cup {"send", "misframed"}
  BY <1>1, <1>4 DEF localTurn, Handshake
<1>. QED  BY <1>2, <1>3, <1>4

LEMMA AcceptStep ==
    ASSUME NetInv, Accept, UNCHANGED world
    PROVE  NetInv' /\ localTurn' = localTurn
<1>. USE TwoParties
<1>1. /\ pc[V] = "accept" /\ pc[P] # "connect"
      /\ DOMAIN pc' = Parties /\ pc'[V] = "session_length" /\ pc'[P] = pc[P]
      /\ UNCHANGED <<alive, out, in, buf, tag, size>> /\ MessagesKept
  BY DEF Accept, Running, NetInv, Shapes, MessagesKept, msgVars, verifierVars, proverVars
<1>2. Shapes' /\ Lockstep' /\ Decision' /\ InStep'
  BY <1>1 DEF NetInv, Shapes, Streams, Lockstep, Decision, InStep, MessagesKept,
              Handshake, VerifierPlaces
<1>3. alive'[V] => ToVerifier'
  BY <1>1, TagsKept DEF NetInv, ToVerifier, HalfRead, VerifierStream, MessagesKept
<1>4. alive'[P] => ToProver'
  BY <1>1, TagsKept DEF NetInv, Lockstep, Handshake, ToProver, HalfRead, ProverStream, MessagesKept
<1>5. BeingRead' /\ Faithful'
  BY <1>1, TagsKept DEF NetInv, BeingRead, MessagesKept
<1>6. localTurn' = localTurn
  BY <1>1, <1>2, TurnKept DEF NetInv, Lockstep, Handshake, MessagesKept
<1>. QED  BY <1>2, <1>3, <1>4, <1>5, <1>6 DEF NetInv

\* The session's name is the first thing under way to the verifier.
LEMMA SessionText ==
    /\ IsList(Text("session", SessionBytes, "s"))
    /\ Text("session", SessionBytes, "s") = Header("length", SessionBytes) \o SessionName
    /\ <<>> \o Text("session", SessionBytes, "s") = Text("session", SessionBytes, "s")
<1>1. IsList(Header("length", SessionBytes)) /\ IsList(SessionName)
  BY BytesAssumption, FieldList DEF Header, SessionName
<1>2. Text("session", SessionBytes, "s") = Header("length", SessionBytes) \o SessionName
  BY DEF Text, SessionName
<1>3. IsList(Text("session", SessionBytes, "s"))
  <2>1. IsList(Header("length", SessionBytes) \o SessionName)
    BY <1>1, FirstOfTwo
  <2>. QED  BY <1>2, <2>1, Zenon
<1>. QED  BY <1>2, <1>3, ConcatEmptySeq DEF IsList

LEMMA ConnectStep ==
    ASSUME NetInv, Connect, UNCHANGED world
    PROVE  NetInv' /\ localTurn' = localTurn
<1>. USE TwoParties
<1>1. /\ pc[P] = "connect" /\ alive[P] /\ Shapes
      /\ StartSending(P, Text("session", SessionBytes, "s"), "ack") /\ out[P] = <<>>
      /\ UNCHANGED <<buf, tag, size>> /\ MessagesKept
  BY DEF Connect, Running, NetInv, MessagesKept, msgVars, verifierVars, proverVars
<1>2. /\ DOMAIN pc' = Parties /\ DOMAIN alive' = Parties /\ Streams'
      /\ pc'[P] = "ack" /\ pc'[V] = pc[V] /\ ProverStream' = ProverStream /\ alive'[V] = alive[V]
      /\ alive'[P] \in BOOLEAN /\ (alive'[P] => alive[P])
      /\ alive[V] /\ pc[V] # "finished" =>
           VerifierStream' = Followed(VerifierStream, Text("session", SessionBytes, "s"))
  <2>1. Posted(P, Text("session", SessionBytes, "s"), "ack")
    BY <1>1, SessionText, Started
  <2>. QED  BY <2>1 DEF Posted, VerifierStream, ProverStream
<1>3. pc[V] = "accept" /\ round = 0 /\ replies = 0
  BY <1>1 DEF NetInv, Lockstep, Shapes, Handshake
<1>4. Shapes' /\ Lockstep' /\ Decision' /\ InStep'
  BY <1>1, <1>2, <1>3 DEF NetInv, Shapes, Lockstep, Decision, InStep, MessagesKept,
              Handshake, ProverPlaces
<1>5. ASSUME alive'[V] PROVE ToVerifier'
  <2>1. VerifierStream' = Text("session", SessionBytes, "s")
    <3>1. VerifierStream = <<>>
      BY <1>1, <1>2, <1>3, <1>5 DEF NetInv, ToVerifier
    <3>. QED  BY <1>2, <1>3, <1>5, <3>1, SessionText DEF Followed
  <2>. QED  BY <1>2, <1>3, <2>1 DEF ToVerifier
<1>6. alive'[P] => ToProver'
  BY <1>1, <1>2, <1>3 DEF NetInv, ToProver
<1>7. BeingRead' /\ Faithful'
  BY <1>1, <1>2, <1>3, TagsKept DEF NetInv, BeingRead
<1>8. localTurn' = localTurn
  BY <1>1, <1>2, <1>4, TurnKept DEF MessagesKept
<1>. QED  BY <1>4, <1>5, <1>6, <1>7, <1>8 DEF NetInv
\* What the parties put on the wire, and the order its fields are read in.
LEMMA WireTexts ==
    ASSUME NEW phase, NEW m
    PROVE  /\ IsList(Field("body", TextBytes, m)) /\ Len(Field("body", TextBytes, m)) = TextBytes
           /\ IsList(Text("body", TextBytes, m))
           /\ Text("body", TextBytes, m)
                = Header("length", TextBytes) \o Field("body", TextBytes, m)
           /\ IsList(PhaseAndMsg(phase, m))
           /\ PhaseAndMsg(phase, m) = Header("phase", phase) \o Text("body", TextBytes, m)
           /\ <<>> \o PhaseAndMsg(phase, m) = PhaseAndMsg(phase, m)
<1>. DEFINE h == Header("phase", phase)
            n == Header("length", TextBytes)
            b == Field("body", TextBytes, m)
<1>1. IsList(h) /\ IsList(n) /\ IsList(b) /\ Len(b) = TextBytes
  BY BytesAssumption, FieldList DEF Header
<1>2. Text("body", TextBytes, m) = n \o b /\ PhaseAndMsg(phase, m) = h \o Text("body", TextBytes, m)
  BY DEF Text, PhaseAndMsg
<1>. HIDE DEF h, n, b
<1>3. IsList(Text("body", TextBytes, m))
  <2>1. IsList(n \o b)
    BY <1>1, FirstOfTwo
  <2>. QED  BY <1>2, <2>1, Zenon
<1>4. IsList(PhaseAndMsg(phase, m))
  <2>. DEFINE t == Text("body", TextBytes, m)
  <2>. HIDE DEF t
  <2>1. IsList(t)
    BY <1>3 DEF t
  <2>2. IsList(h \o t)
    BY <1>1, <2>1, FirstOfTwo
  <2>3. PhaseAndMsg(phase, m) = h \o t
    BY <1>2 DEF t
  <2>. QED  BY <2>2, <2>3, Zenon
<1>5. <<>> \o PhaseAndMsg(phase, m) = PhaseAndMsg(phase, m)
  BY <1>4, ConcatEmptySeq DEF IsList
<1>. QED  BY <1>1, <1>2, <1>3, <1>4, <1>5 DEF h, n, b

\* A number or flag alone on the wire.
LEMMA LoneField ==
    ASSUME NEW kind, NEW n \in Nat, NEW value
    PROVE  /\ IsList(Field(kind, n, value)) /\ IsList(<<>>)
           /\ Field(kind, n, value) = Field(kind, n, value) \o <<>>
           /\ Field(kind, n, value) = <<>> \o Field(kind, n, value)
<1>1. IsList(Field(kind, n, value)) /\ IsList(<<>>)
  BY FieldList, EmptyList
<1>. DEFINE f == Field(kind, n, value)
<1>. HIDE DEF f
<1>2. IsList(f)
  BY <1>1 DEF f
<1>3. f \o <<>> = f /\ <<>> \o f = f
  BY <1>2, ConcatEmptySeq DEF IsList
<1>. QED  BY <1>1, <1>3 DEF f

LEMMA SessionLengthStep ==
    ASSUME NetInv, ReceiveLength(V, "session_length", "session"), UNCHANGED world
    PROVE  NetInv' /\ localTurn' = localTurn
<1>. USE TwoParties
<1>1. /\ pc[V] = "session_length" /\ alive[V] /\ Shapes /\ round = 0
      /\ pc[P] \in {"connect", "ack"}
      /\ Recv(V, "length", HeaderBytes, "session")
      /\ size' = [size EXCEPT ![V] = ReadField(V, 0)]
      /\ buf'  = [buf EXCEPT ![V] = <<>>]
      /\ UNCHANGED <<alive, out, tag>> /\ MessagesKept
  BY DEF ReceiveLength, Running, NetInv, Lockstep, Handshake, MessagesKept, msgVars,
         verifierVars, proverVars
<1>2. /\ VerifierStream = Followed(Field("length", HeaderBytes, SessionBytes), SessionName)
      /\ IsList(SessionName)
  <2>1. VerifierStream = Text("session", SessionBytes, "s")
    BY <1>1 DEF NetInv, ToVerifier
  <2>2. IsList(SessionName)
    BY BytesAssumption, FieldList DEF SessionName
  <2>. QED  BY <2>1, <2>2 DEF Text, Header, Followed, SessionName
<1>3. /\ DOMAIN pc' = Parties /\ Streams'
      /\ pc'[P] = pc[P] /\ ProverStream' = ProverStream
      /\ \/ pc'[V] = "session" /\ VerifierStream' = SessionName
         \/ pc'[V] = "misframed" /\ world.shortReads
      /\ Head(in[V]).value = SessionBytes
  <2>1. Shapes /\ Recv(V, "length", HeaderBytes, "session") /\ UNCHANGED out
    BY <1>1
  <2>2. FieldTaken(V, SessionBytes, SessionName, "session")
    BY <1>2, <2>1, FieldRead, BytesAssumption DEF VerifierStream, ProverStream
  <2>. QED  BY <2>2 DEF FieldTaken, VerifierStream, ProverStream
<1>4. /\ DOMAIN size' = Parties /\ DOMAIN buf' = Parties
      /\ buf'[V] = <<>> /\ buf'[P] = buf[P] /\ size'[P] = size[P]
      /\ pc'[V] = "session" => size'[V] = SessionBytes
  BY <1>1, <1>3 DEF Shapes, ReadField
<1>5. Shapes' /\ Lockstep' /\ Decision' /\ InStep'
  BY <1>1, <1>3, <1>4 DEF NetInv, Shapes, Lockstep, Decision, InStep, MessagesKept,
              Handshake, VerifierPlaces
<1>6. ToVerifier'
  <2>1. ASSUME pc'[V] = "session" PROVE HalfRead(V, VerifierStream, SessionName)'
    <3>1. /\ VerifierStream' = SessionName /\ buf'[V] = <<>> /\ size'[V] = SessionBytes
          /\ IsList(<<>>) /\ <<>> \o SessionName = SessionName
          /\ Len(SessionName) = SessionBytes
      BY <1>3, <1>4, <2>1, LoneField, FieldList, BytesAssumption DEF SessionName
    <3>. QED  BY <1>2, <3>1 DEF HalfRead, SessionName, Followed
  <2>. QED  BY <1>3, <2>1 DEF ToVerifier
<1>7. alive'[P] => ToProver'
  BY <1>1, <1>3, <1>4 DEF NetInv, ToProver
<1>8. BeingRead' /\ Faithful'
  BY <1>1, <1>3, <1>4, TagsKept DEF NetInv, BeingRead
<1>9. localTurn' = localTurn
  BY <1>1, <1>3, <1>5, TurnKept DEF MessagesKept, Handshake
<1>. QED  BY <1>5, <1>6, <1>7, <1>8, <1>9 DEF NetInv

LEMMA SessionStep ==
    ASSUME NetInv, ReceiveSession, UNCHANGED world
    PROVE  NetInv' /\ localTurn' = localTurn
<1>. USE TwoParties
<1>1. /\ pc[V] = "session" /\ alive[V] /\ Shapes /\ round = 0
      /\ pc[P] \in {"connect", "ack"}
      /\ RecvText(V, "session", "check_session")
      /\ UNCHANGED <<alive, out, tag, size>> /\ MessagesKept
  BY DEF ReceiveSession, Running, NetInv, Lockstep, Handshake, MessagesKept, msgVars,
         verifierVars, proverVars
<1>2. HalfRead(V, VerifierStream, SessionName)
  BY <1>1 DEF NetInv, ToVerifier
<1>3. /\ DOMAIN pc' = Parties /\ Streams' /\ DOMAIN buf' = Parties
      /\ pc'[P] = pc[P] /\ ProverStream' = ProverStream /\ buf'[P] = buf[P]
      /\ \/ /\ pc'[V] = "session" /\ size'[V] = Len(SessionName)
            /\ IsList(buf'[V]) /\ IsList(VerifierStream')
            /\ Followed(buf'[V], VerifierStream') = SessionName
         \/ pc'[V] = "check_session" /\ VerifierStream' = <<>>
  <2>1. /\ Shapes /\ RecvText(V, "session", "check_session") /\ UNCHANGED <<size, out>>
        /\ pc[V] = "session" /\ HalfRead(V, VerifierStream, Field("session", SessionBytes, "s"))
    BY <1>1, <1>2 DEF SessionName
  <2>2. TextTaken(V, Field("session", SessionBytes, "s"), "check_session")
    BY <2>1, TextRead, BytesAssumption DEF VerifierStream, ProverStream
  <2>. QED  BY <2>1, <2>2 DEF TextTaken, VerifierStream, ProverStream, SessionName
<1>4. Shapes' /\ Lockstep' /\ Decision' /\ InStep'
  BY <1>1, <1>3 DEF NetInv, Shapes, Lockstep, Decision, InStep, MessagesKept,
              Handshake, VerifierPlaces
<1>5. ToVerifier'
  BY <1>3 DEF ToVerifier, HalfRead, SessionName
<1>6. alive'[P] => ToProver'
  BY <1>1, <1>3 DEF NetInv, ToProver
<1>7. BeingRead' /\ Faithful'
  BY <1>1, <1>3, TagsKept DEF NetInv, BeingRead
<1>8. localTurn' = localTurn
  BY <1>1, <1>3, <1>4, TurnKept DEF MessagesKept, Handshake
<1>. QED  BY <1>4, <1>5, <1>6, <1>7, <1>8 DEF NetInv
LEMMA CheckSessionStep ==
    ASSUME NetInv, CheckSession, UNCHANGED world
    PROVE  NetInv' /\ localTurn' = localTurn
<1>. USE TwoParties
<1>1. /\ pc[V] = "check_session" /\ alive[V] /\ Shapes /\ round = 0 /\ replies = 0
      /\ pc[P] = "ack" /\ out[V] = <<>>
      /\ UNCHANGED <<out, buf, tag, size>> /\ MessagesKept
  BY DEF CheckSession, Running, NetInv, Lockstep, Handshake, Shapes, MessagesKept, msgVars,
         verifierVars, proverVars
<1>2. CASE alive' = [alive EXCEPT ![V] = FALSE] /\ UNCHANGED <<pc, in>>
  <2>1. NetInv'
    BY <1>1, <1>2, Exits
  <2>2. localTurn' = localTurn
    BY <1>1, <1>2, <2>1, TurnKept DEF NetInv, MessagesKept
  <2>. QED  BY <2>1, <2>2
<1>3. CASE Send(V, Header("ack", 1), "answer")
  <2>1. /\ DOMAIN pc' = Parties /\ DOMAIN alive' = Parties /\ Streams'
        /\ pc'[V] = "answer" /\ pc'[P] = pc[P]
        /\ VerifierStream' = VerifierStream /\ alive'[P] = alive[P]
        /\ alive'[V] \in BOOLEAN /\ (alive'[V] => alive[V])
        /\ alive[P] /\ pc[P] # "finished" =>
             ProverStream' = Followed(ProverStream, Header("ack", 1))
    <3>1. Posted(V, Header("ack", 1), "answer")
      BY <1>1, <1>3, LoneField, BytesAssumption, Sent DEF Header
    <3>. QED  BY <3>1 DEF Posted, VerifierStream, ProverStream
  <2>2. Shapes' /\ Lockstep' /\ Decision' /\ InStep'
    BY <1>1, <2>1 DEF NetInv, Shapes, Lockstep, Decision, InStep, MessagesKept,
                Handshake, VerifierPlaces
  <2>3. ToVerifier'
    BY <1>1, <2>1 DEF NetInv, ToVerifier
  <2>4. ASSUME alive'[P] PROVE ToProver'
    <3>1. ProverStream = <<>>
      BY <1>1, <2>1, <2>4 DEF NetInv, ToProver
    <3>2. ProverStream' = Header("ack", 1)
      BY <1>1, <2>1, <2>4, <3>1, LoneField, BytesAssumption DEF Followed, Header
    <3>. QED  BY <1>1, <2>1, <3>2 DEF ToProver
  <2>5. BeingRead' /\ Faithful'
    BY <1>1, <2>1, TagsKept DEF NetInv, BeingRead
  <2>6. localTurn' = localTurn
    BY <1>1, <2>1, <2>2, TurnKept DEF MessagesKept, Handshake
  <2>. QED  BY <2>2, <2>3, <2>4, <2>5, <2>6 DEF NetInv
<1>. QED  BY <1>2, <1>3 DEF CheckSession

LEMMA AckStep ==
    ASSUME NetInv, ReceiveAck, UNCHANGED world
    PROVE  NetInv' /\ localTurn' = localTurn
<1>. USE TwoParties
<1>1. /\ pc[P] = "ack" /\ alive[P] /\ Shapes /\ Recv(P, "ack", HeaderBytes, "send_answer")
      /\ round = 0 /\ replies = 0
      /\ UNCHANGED <<alive, out, buf, tag, size>> /\ MessagesKept
  BY DEF ReceiveAck, Running, NetInv, Lockstep, Shapes, MessagesKept, msgVars,
         verifierVars, proverVars
<1>2. pc[V] = "answer" /\ ProverStream = Followed(Field("ack", HeaderBytes, 1), <<>>)
  <2>1. ProverStream # <<>>
    BY <1>1, NothingRead, BytesAssumption DEF VerifierStream, ProverStream
  <2>2. pc[V] = "answer" /\ ProverStream = Header("ack", 1)
    BY <1>1, <2>1 DEF NetInv, ToProver
  <2>. QED  BY <2>2, LoneField, BytesAssumption DEF Header, Followed
<1>3. FieldTaken(P, 1, <<>>, "send_answer")
  <2>1. Shapes /\ Recv(P, "ack", HeaderBytes, "send_answer") /\ IsList(<<>>) /\ UNCHANGED out
    BY <1>1, EmptyList
  <2>. QED  BY <1>2, <2>1, FieldRead, BytesAssumption DEF VerifierStream, ProverStream
<1>4. /\ DOMAIN pc' = Parties /\ Streams'
      /\ pc'[V] = pc[V] /\ VerifierStream' = VerifierStream
      /\ \/ pc'[P] = "send_answer" /\ ProverStream' = <<>>
         \/ pc'[P] = "misframed" /\ world.shortReads
  BY <1>3 DEF FieldTaken, VerifierStream, ProverStream
<1>5. Shapes' /\ Lockstep' /\ Decision' /\ InStep'
  BY <1>1, <1>2, <1>4 DEF NetInv, Shapes, Lockstep, Decision, InStep, MessagesKept,
              Handshake, ProverPlaces
<1>6. alive'[V] => ToVerifier'
  BY <1>1, <1>2, <1>4 DEF NetInv, ToVerifier
<1>7. ToProver'
  BY <1>1, <1>2, <1>4 DEF ToProver
<1>8. BeingRead' /\ Faithful'
  BY <1>1, <1>2, <1>4, TagsKept DEF NetInv, BeingRead
<1>9. localTurn' = localTurn
  BY <1>1, <1>4, <1>5, TurnKept DEF MessagesKept
<1>. QED  BY <1>5, <1>6, <1>7, <1>8, <1>9 DEF NetInv

LEMMA SendAnswerStep ==
    ASSUME NetInv, SendAnswer, UNCHANGED world
    PROVE  NetInv' /\ localTurn' = localTurn
<1>. USE TwoParties
<1>1. /\ pc[P] = "send_answer" /\ alive[P] /\ Shapes /\ Send(P, Header("answer", 1), "phase")
      /\ pc[V] = "answer" /\ round = 0 /\ replies = 0 /\ out[P] = <<>>
      /\ UNCHANGED <<out, buf, tag, size>> /\ MessagesKept
  BY DEF SendAnswer, Running, NetInv, Lockstep, Shapes, MessagesKept, msgVars,
         verifierVars, proverVars, Handshake
<1>2. /\ DOMAIN pc' = Parties /\ DOMAIN alive' = Parties /\ Streams'
      /\ pc'[P] = "phase" /\ pc'[V] = pc[V] /\ ProverStream' = ProverStream /\ alive'[V] = alive[V]
      /\ alive'[P] \in BOOLEAN /\ (alive'[P] => alive[P])
      /\ alive[V] /\ pc[V] # "finished" =>
           VerifierStream' = Followed(VerifierStream, Header("answer", 1))
  <2>1. Posted(P, Header("answer", 1), "phase")
    BY <1>1, LoneField, BytesAssumption, Sent DEF Header
  <2>. QED  BY <2>1 DEF Posted, VerifierStream, ProverStream
<1>3. Shapes' /\ Lockstep' /\ Decision' /\ InStep'
  BY <1>1, <1>2 DEF NetInv, Shapes, Lockstep, Decision, InStep, MessagesKept,
              Handshake, ProverPlaces
<1>4. ASSUME alive'[V] PROVE ToVerifier'
  <2>1. VerifierStream = <<>>
    BY <1>1, <1>2, <1>4 DEF NetInv, ToVerifier
  <2>2. VerifierStream' = Header("answer", 1)
    BY <1>1, <1>2, <1>4, <2>1, LoneField, BytesAssumption DEF Followed, Header
  <2>. QED  BY <1>1, <1>2, <2>2 DEF ToVerifier
<1>5. alive'[P] => ToProver'
  BY <1>1, <1>2 DEF NetInv, ToProver, MessagesKept
<1>6. BeingRead' /\ Faithful'
  BY <1>1, <1>2, TagsKept DEF NetInv, BeingRead
<1>7. localTurn' = localTurn
  BY <1>1, <1>2, <1>3, TurnKept DEF MessagesKept
<1>. QED  BY <1>3, <1>4, <1>5, <1>6, <1>7 DEF NetInv

LEMMA AnswerStep ==
    ASSUME NetInv, ReceiveAnswer, UNCHANGED world
    PROVE  NetInv' /\ localTurn' = localTurn
<1>. USE TwoParties
<1>1. /\ pc[V] = "answer" /\ alive[V] /\ Shapes /\ Recv(V, "answer", HeaderBytes, "send")
      /\ round = 0 /\ replies = 0
      /\ UNCHANGED <<alive, out, buf, tag, size>> /\ MessagesKept
  BY DEF ReceiveAnswer, Running, NetInv, Lockstep, Shapes, Handshake, MessagesKept, msgVars,
         verifierVars, proverVars
<1>2. /\ pc[P] \in {"phase", "misframed"}
      /\ VerifierStream = Followed(Field("answer", HeaderBytes, 1), <<>>)
  <2>1. VerifierStream # <<>>
    BY <1>1, NothingRead, BytesAssumption DEF VerifierStream, ProverStream
  <2>2. pc[P] \in {"phase", "misframed"} /\ VerifierStream = Header("answer", 1)
    BY <1>1, <2>1 DEF NetInv, ToVerifier, Lockstep
  <2>. QED  BY <2>2, LoneField, BytesAssumption DEF Header, Followed
<1>3. FieldTaken(V, 1, <<>>, "send")
  <2>1. Shapes /\ Recv(V, "answer", HeaderBytes, "send") /\ IsList(<<>>) /\ UNCHANGED out
    BY <1>1, EmptyList
  <2>. QED  BY <1>2, <2>1, FieldRead, BytesAssumption DEF VerifierStream, ProverStream
<1>4. /\ DOMAIN pc' = Parties /\ Streams'
      /\ pc'[P] = pc[P] /\ ProverStream' = ProverStream
      /\ \/ pc'[V] = "send" /\ VerifierStream' = <<>>
         \/ pc'[V] = "misframed" /\ world.shortReads
  BY <1>3 DEF FieldTaken, VerifierStream, ProverStream
<1>5. Shapes' /\ Lockstep' /\ Decision' /\ InStep'
  BY <1>1, <1>2, <1>4 DEF NetInv, Shapes, Lockstep, Decision, InStep, MessagesKept,
              Handshake, VerifierPlaces
<1>6. ToVerifier'
  BY <1>1, <1>4 DEF ToVerifier
<1>7. alive'[P] => ToProver'
  BY <1>1, <1>2, <1>4 DEF NetInv, ToProver, MessagesKept
<1>8. BeingRead' /\ Faithful'
  BY <1>1, <1>2, <1>4, TagsKept DEF NetInv, BeingRead
<1>9. localTurn' = localTurn
  BY <1>1, <1>4, <1>5, TurnKept DEF MessagesKept, Handshake
<1>. QED  BY <1>5, <1>6, <1>7, <1>8, <1>9 DEF NetInv
-----------------------------------------------------------------------------
(* The steps: reading a message. *)

\* A message on the wire: its tag, then its text.
LEMMA TagFirst ==
    ASSUME NEW phase, NEW m
    PROVE  /\ PhaseAndMsg(phase, m)
                = Followed(Field("phase", HeaderBytes, phase), Text("body", TextBytes, m))
           /\ Text("body", TextBytes, m)
                = Followed(Field("length", HeaderBytes, TextBytes), Field("body", TextBytes, m))
BY DEF PhaseAndMsg, Text, Header, Followed

LEMMA VerifierPhaseStep ==
    ASSUME NetInv, ReceivePhase(V), UNCHANGED world
    PROVE  NetInv' /\ localTurn' = localTurn
<1>. USE TwoParties
<1>1. /\ pc[V] = "phase" /\ alive[V] /\ Shapes /\ Recv(V, "phase", HeaderBytes, "length")
      /\ round > 0 /\ tag' = [tag EXCEPT ![V] = ReadField(V, "DONE")]
      /\ UNCHANGED <<alive, out, buf, size>> /\ MessagesKept
  BY DEF ReceivePhase, Running, NetInv, Lockstep, MessagesKept, msgVars,
         verifierVars, proverVars
<1>2. /\ round = replies /\ pc[P] = "done"
      /\ VerifierStream = PhaseAndMsg(ProverTag, pMsg)
  <2>1. VerifierStream # <<>>
    BY <1>1, NothingRead, BytesAssumption DEF VerifierStream, ProverStream
  <2>2. round = replies /\ VerifierStream = PhaseAndMsg(ProverTag, pMsg)
    BY <1>1, <2>1 DEF NetInv, ToVerifier
  <2>. QED  BY <1>1, <2>2 DEF NetInv, Lockstep
<1>3. FieldTaken(V, ProverTag, Text("body", TextBytes, pMsg), "length")
  <2>1. /\ Shapes /\ Recv(V, "phase", HeaderBytes, "length") /\ UNCHANGED out
        /\ IsList(Text("body", TextBytes, pMsg))
        /\ VerifierStream
             = Followed(Field("phase", HeaderBytes, ProverTag), Text("body", TextBytes, pMsg))
    BY <1>1, <1>2, WireTexts, TagFirst
  <2>. QED  BY <2>1, FieldRead, BytesAssumption DEF VerifierStream, ProverStream
<1>4. /\ DOMAIN pc' = Parties /\ Streams'
      /\ pc'[P] = pc[P] /\ ProverStream' = ProverStream
      /\ \/ pc'[V] = "length" /\ VerifierStream' = Text("body", TextBytes, pMsg)
         \/ pc'[V] = "misframed" /\ world.shortReads
  BY <1>3 DEF FieldTaken, VerifierStream, ProverStream
<1>5. /\ DOMAIN tag' = Parties /\ tag'[P] = tag[P]
      /\ pc'[V] = "length" => tag'[V] = ProverTag
  BY <1>1, <1>3 DEF FieldTaken, VerifierStream, ProverStream, ReadField, Shapes
<1>6. Shapes' /\ Lockstep' /\ Decision' /\ InStep'
  BY <1>1, <1>2, <1>4, <1>5 DEF NetInv, Shapes, Lockstep, Decision, InStep, MessagesKept,
              Handshake, VerifierPlaces
<1>7. ToVerifier'
  BY <1>1, <1>4 DEF ToVerifier, MessagesKept
<1>8. alive'[P] => ToProver'
  BY <1>1, <1>2, <1>4 DEF NetInv, ToProver, MessagesKept
<1>9. BeingRead' /\ Faithful'
  BY <1>1, <1>2, <1>4, <1>5, TagsKept DEF NetInv, BeingRead
<1>10. localTurn' = localTurn
  BY <1>1, <1>4, <1>6, TurnKept DEF MessagesKept
<1>. QED  BY <1>6, <1>7, <1>8, <1>9, <1>10 DEF NetInv

LEMMA ProverPhaseStep ==
    ASSUME NetInv, ReceivePhase(P), UNCHANGED world
    PROVE  NetInv' /\ localTurn' = localTurn
<1>. USE TwoParties
<1>1. /\ pc[P] = "phase" /\ alive[P] /\ Shapes /\ Recv(P, "phase", HeaderBytes, "length")
      /\ tag' = [tag EXCEPT ![P] = ReadField(P, "DONE")]
      /\ UNCHANGED <<alive, out, buf, size>> /\ MessagesKept
  BY DEF ReceivePhase, Running, NetInv, MessagesKept, msgVars, verifierVars, proverVars
<1>2. /\ round = replies + 1 /\ pc[V] = "phase"
      /\ ProverStream = PhaseAndMsg(VerifierTag, vMsg)
  <2>1. ProverStream # <<>>
    BY <1>1, NothingRead, BytesAssumption DEF VerifierStream, ProverStream
  <2>2. round # replies /\ ProverStream = PhaseAndMsg(VerifierTag, vMsg)
    BY <1>1, <2>1 DEF NetInv, ToProver
  <2>. QED  BY <1>1, <2>2 DEF NetInv, Lockstep
<1>3. FieldTaken(P, VerifierTag, Text("body", TextBytes, vMsg), "length")
  <2>1. /\ Shapes /\ Recv(P, "phase", HeaderBytes, "length") /\ UNCHANGED out
        /\ IsList(Text("body", TextBytes, vMsg))
        /\ ProverStream
             = Followed(Field("phase", HeaderBytes, VerifierTag), Text("body", TextBytes, vMsg))
    BY <1>1, <1>2, WireTexts, TagFirst
  <2>. QED  BY <2>1, FieldRead, BytesAssumption DEF VerifierStream, ProverStream
<1>4. /\ DOMAIN pc' = Parties /\ Streams'
      /\ pc'[V] = pc[V] /\ VerifierStream' = VerifierStream
      /\ \/ pc'[P] = "length" /\ ProverStream' = Text("body", TextBytes, vMsg)
         \/ pc'[P] = "misframed" /\ world.shortReads
  BY <1>3 DEF FieldTaken, VerifierStream, ProverStream
<1>5. /\ DOMAIN tag' = Parties /\ tag'[V] = tag[V]
      /\ pc'[P] = "length" => tag'[P] = VerifierTag
  BY <1>1, <1>3 DEF FieldTaken, VerifierStream, ProverStream, ReadField, Shapes
<1>6. Shapes' /\ Lockstep' /\ Decision' /\ InStep'
  BY <1>1, <1>2, <1>4, <1>5 DEF NetInv, Shapes, Lockstep, Decision, InStep, MessagesKept,
              Handshake, ProverPlaces
<1>7. alive'[V] => ToVerifier'
  BY <1>1, <1>2, <1>4 DEF NetInv, ToVerifier, MessagesKept, Shapes
<1>8. ToProver'
  BY <1>1, <1>4 DEF ToProver, MessagesKept
<1>9. BeingRead' /\ Faithful'
  BY <1>1, <1>2, <1>4, <1>5, TagsKept DEF NetInv, BeingRead
<1>10. localTurn' = localTurn
  BY <1>1, <1>4, <1>6, TurnKept DEF MessagesKept
<1>. QED  BY <1>6, <1>7, <1>8, <1>9, <1>10 DEF NetInv

LEMMA VerifierLengthStep ==
    ASSUME NetInv, ReceiveLength(V, "length", "body"), UNCHANGED world
    PROVE  NetInv' /\ localTurn' = localTurn
<1>. USE TwoParties
<1>1. /\ pc[V] = "length" /\ alive[V] /\ Shapes /\ Recv(V, "length", HeaderBytes, "body")
      /\ pc[P] = "done" /\ round = replies
      /\ size' = [size EXCEPT ![V] = ReadField(V, 0)]
      /\ buf'  = [buf EXCEPT ![V] = <<>>]
      /\ UNCHANGED <<alive, out, tag>> /\ MessagesKept
  BY DEF ReceiveLength, Running, NetInv, Lockstep, MessagesKept, msgVars,
         verifierVars, proverVars
<1>2. FieldTaken(V, TextBytes, Field("body", TextBytes, pMsg), "body")
  <2>1. /\ Shapes /\ Recv(V, "length", HeaderBytes, "body") /\ UNCHANGED out
        /\ IsList(Field("body", TextBytes, pMsg))
        /\ VerifierStream
             = Followed(Field("length", HeaderBytes, TextBytes), Field("body", TextBytes, pMsg))
    BY <1>1, WireTexts, TagFirst DEF NetInv, ToVerifier
  <2>. QED  BY <2>1, FieldRead, BytesAssumption DEF VerifierStream, ProverStream
<1>3. /\ DOMAIN pc' = Parties /\ Streams'
      /\ pc'[P] = pc[P] /\ ProverStream' = ProverStream
      /\ \/ pc'[V] = "body" /\ VerifierStream' = Field("body", TextBytes, pMsg)
         \/ pc'[V] = "misframed" /\ world.shortReads
  BY <1>2 DEF FieldTaken, VerifierStream, ProverStream
<1>4. /\ DOMAIN size' = Parties /\ DOMAIN buf' = Parties
      /\ buf'[V] = <<>> /\ buf'[P] = buf[P] /\ size'[P] = size[P]
      /\ pc'[V] = "body" => size'[V] = TextBytes
  BY <1>1, <1>2 DEF Shapes, ReadField, FieldTaken
<1>5. Shapes' /\ Lockstep' /\ Decision' /\ InStep'
  BY <1>1, <1>3, <1>4 DEF NetInv, Shapes, Lockstep, Decision, InStep, MessagesKept,
              Handshake, VerifierPlaces
<1>6. ToVerifier'
  <2>1. pc'[V] = "body" => HalfRead(V, VerifierStream, Field("body", TextBytes, pMsg))'
    <3>1. Field("body", TextBytes, pMsg)' = Field("body", TextBytes, pMsg)
      BY <1>1 DEF MessagesKept
    <3>2. /\ Len(Field("body", TextBytes, pMsg)) = TextBytes
          /\ <<>> \o Field("body", TextBytes, pMsg) = Field("body", TextBytes, pMsg)
          /\ IsList(<<>>) /\ IsList(Field("body", TextBytes, pMsg))
      BY WireTexts, LoneField, BytesAssumption
    <3>. QED  BY <1>3, <1>4, <3>1, <3>2 DEF HalfRead, Followed
  <2>. QED  BY <1>3, <2>1 DEF ToVerifier
<1>7. alive'[P] => ToProver'
  BY <1>1, <1>3, <1>4 DEF NetInv, ToProver, MessagesKept
<1>8. BeingRead' /\ Faithful'
  BY <1>1, <1>3, <1>4, TagsKept DEF NetInv, BeingRead
<1>9. localTurn' = localTurn
  BY <1>1, <1>3, <1>5, TurnKept DEF MessagesKept
<1>. QED  BY <1>5, <1>6, <1>7, <1>8, <1>9 DEF NetInv

LEMMA ProverLengthStep ==
    ASSUME NetInv, ReceiveLength(P, "length", "body"), UNCHANGED world
    PROVE  NetInv' /\ localTurn' = localTurn
<1>. USE TwoParties
<1>1. /\ pc[P] = "length" /\ alive[P] /\ Shapes /\ Recv(P, "length", HeaderBytes, "body")
      /\ pc[V] = "phase" /\ round = replies + 1
      /\ size' = [size EXCEPT ![P] = ReadField(P, 0)]
      /\ buf'  = [buf EXCEPT ![P] = <<>>]
      /\ UNCHANGED <<alive, out, tag>> /\ MessagesKept
  BY DEF ReceiveLength, Running, NetInv, Lockstep, Shapes, MessagesKept, msgVars,
         verifierVars, proverVars
<1>2. FieldTaken(P, TextBytes, Field("body", TextBytes, vMsg), "body")
  <2>1. /\ Shapes /\ Recv(P, "length", HeaderBytes, "body") /\ UNCHANGED out
        /\ IsList(Field("body", TextBytes, vMsg))
        /\ ProverStream
             = Followed(Field("length", HeaderBytes, TextBytes), Field("body", TextBytes, vMsg))
    BY <1>1, WireTexts, TagFirst DEF NetInv, ToProver
  <2>. QED  BY <2>1, FieldRead, BytesAssumption DEF VerifierStream, ProverStream
<1>3. /\ DOMAIN pc' = Parties /\ Streams'
      /\ pc'[V] = pc[V] /\ VerifierStream' = VerifierStream
      /\ \/ pc'[P] = "body" /\ ProverStream' = Field("body", TextBytes, vMsg)
         \/ pc'[P] = "misframed" /\ world.shortReads
  BY <1>2 DEF FieldTaken, VerifierStream, ProverStream
<1>4. /\ DOMAIN size' = Parties /\ DOMAIN buf' = Parties
      /\ buf'[P] = <<>> /\ buf'[V] = buf[V] /\ size'[V] = size[V]
      /\ pc'[P] = "body" => size'[P] = TextBytes
  BY <1>1, <1>2 DEF Shapes, ReadField, FieldTaken
<1>5. Shapes' /\ Lockstep' /\ Decision' /\ InStep'
  BY <1>1, <1>3, <1>4 DEF NetInv, Shapes, Lockstep, Decision, InStep, MessagesKept,
              Handshake, ProverPlaces
<1>6. ToProver'
  <2>1. pc'[P] = "body" => HalfRead(P, ProverStream, Field("body", TextBytes, vMsg))'
    <3>1. Field("body", TextBytes, vMsg)' = Field("body", TextBytes, vMsg)
      BY <1>1 DEF MessagesKept
    <3>2. /\ Len(Field("body", TextBytes, vMsg)) = TextBytes
          /\ <<>> \o Field("body", TextBytes, vMsg) = Field("body", TextBytes, vMsg)
          /\ IsList(<<>>) /\ IsList(Field("body", TextBytes, vMsg))
      BY WireTexts, LoneField, BytesAssumption
    <3>. QED  BY <1>3, <1>4, <3>1, <3>2 DEF HalfRead, Followed
  <2>. QED  BY <1>3, <2>1 DEF ToProver
<1>7. alive'[V] => ToVerifier'
  BY <1>1, <1>3, <1>4 DEF NetInv, ToVerifier, MessagesKept, Shapes
<1>8. BeingRead' /\ Faithful'
  BY <1>1, <1>3, <1>4, TagsKept DEF NetInv, BeingRead
<1>9. localTurn' = localTurn
  BY <1>1, <1>3, <1>5, TurnKept DEF MessagesKept
<1>. QED  BY <1>5, <1>6, <1>7, <1>8, <1>9 DEF NetInv
LEMMA VerifierBodyStep ==
    ASSUME NetInv, ReceiveBody(V), UNCHANGED world
    PROVE  NetInv' /\ localTurn' = localTurn
<1>. USE TwoParties
<1>1. /\ pc[V] = "body" /\ alive[V] /\ Shapes /\ RecvText(V, "body", "handle")
      /\ pc[P] = "done" /\ round = replies
      /\ UNCHANGED <<alive, out, tag, size>> /\ MessagesKept
  BY DEF ReceiveBody, Running, NetInv, Lockstep, MessagesKept, msgVars,
         verifierVars, proverVars
<1>2. TextTaken(V, Field("body", TextBytes, pMsg), "handle")
  <2>1. /\ Shapes /\ RecvText(V, "body", "handle") /\ UNCHANGED <<size, out>>
        /\ HalfRead(V, VerifierStream, Field("body", TextBytes, pMsg))
    BY <1>1 DEF NetInv, ToVerifier
  <2>. QED  BY <2>1, TextRead, BytesAssumption DEF VerifierStream, ProverStream
<1>3. /\ DOMAIN pc' = Parties /\ Streams' /\ DOMAIN buf' = Parties
      /\ pc'[P] = pc[P] /\ ProverStream' = ProverStream /\ buf'[P] = buf[P]
      /\ \/ /\ pc'[V] = "body" /\ size'[V] = Len(Field("body", TextBytes, pMsg))
            /\ IsList(buf'[V]) /\ IsList(VerifierStream')
            /\ Followed(buf'[V], VerifierStream') = Field("body", TextBytes, pMsg)
         \/ pc'[V] = "handle" /\ buf'[V] = Field("body", TextBytes, pMsg) /\ VerifierStream' = <<>>
  BY <1>1, <1>2 DEF TextTaken, VerifierStream, ProverStream
<1>4. Field("body", TextBytes, pMsg)' = Field("body", TextBytes, pMsg)
  BY <1>1 DEF MessagesKept
<1>5. Shapes' /\ Lockstep' /\ Decision' /\ InStep'
  BY <1>1, <1>3 DEF NetInv, Shapes, Lockstep, Decision, InStep, MessagesKept,
              Handshake, VerifierPlaces
<1>6. ToVerifier'
  BY <1>3, <1>4 DEF ToVerifier, HalfRead
<1>7. alive'[P] => ToProver'
  BY <1>1, <1>3 DEF NetInv, ToProver, MessagesKept
<1>8. BeingRead' /\ Faithful'
  BY <1>1, <1>3, <1>4, TagsKept DEF NetInv, BeingRead
<1>9. localTurn' = localTurn
  BY <1>1, <1>3, <1>5, TurnKept DEF MessagesKept
<1>. QED  BY <1>5, <1>6, <1>7, <1>8, <1>9 DEF NetInv

LEMMA ProverBodyStep ==
    ASSUME NetInv, ReceiveBody(P), UNCHANGED world
    PROVE  NetInv' /\ localTurn' = localTurn
<1>. USE TwoParties
<1>1. /\ pc[P] = "body" /\ alive[P] /\ Shapes /\ RecvText(P, "body", "handle")
      /\ pc[V] = "phase" /\ round = replies + 1
      /\ UNCHANGED <<alive, out, tag, size>> /\ MessagesKept
  BY DEF ReceiveBody, Running, NetInv, Lockstep, Shapes, MessagesKept, msgVars,
         verifierVars, proverVars
<1>2. TextTaken(P, Field("body", TextBytes, vMsg), "handle")
  <2>1. /\ Shapes /\ RecvText(P, "body", "handle") /\ UNCHANGED <<size, out>>
        /\ HalfRead(P, ProverStream, Field("body", TextBytes, vMsg))
    BY <1>1 DEF NetInv, ToProver
  <2>. QED  BY <2>1, TextRead, BytesAssumption DEF VerifierStream, ProverStream
<1>3. /\ DOMAIN pc' = Parties /\ Streams' /\ DOMAIN buf' = Parties
      /\ pc'[V] = pc[V] /\ VerifierStream' = VerifierStream /\ buf'[V] = buf[V]
      /\ \/ /\ pc'[P] = "body" /\ size'[P] = Len(Field("body", TextBytes, vMsg))
            /\ IsList(buf'[P]) /\ IsList(ProverStream')
            /\ Followed(buf'[P], ProverStream') = Field("body", TextBytes, vMsg)
         \/ pc'[P] = "handle" /\ buf'[P] = Field("body", TextBytes, vMsg) /\ ProverStream' = <<>>
  BY <1>1, <1>2 DEF TextTaken, VerifierStream, ProverStream
<1>4. Field("body", TextBytes, vMsg)' = Field("body", TextBytes, vMsg)
  BY <1>1 DEF MessagesKept
<1>5. Shapes' /\ Lockstep' /\ Decision' /\ InStep'
  BY <1>1, <1>3 DEF NetInv, Shapes, Lockstep, Decision, InStep, MessagesKept,
              Handshake, ProverPlaces
<1>6. ToProver'
  BY <1>3, <1>4 DEF ToProver, HalfRead
<1>7. alive'[V] => ToVerifier'
  BY <1>1, <1>3 DEF NetInv, ToVerifier, MessagesKept, Shapes
<1>8. BeingRead' /\ Faithful'
  BY <1>1, <1>3, <1>4, TagsKept DEF NetInv, BeingRead
<1>9. localTurn' = localTurn
  BY <1>1, <1>3, <1>5, TurnKept DEF MessagesKept
<1>. QED  BY <1>5, <1>6, <1>7, <1>8, <1>9 DEF NetInv

\* The first byte of a field.
LEMMA HeadOfField ==
    ASSUME NEW kind, NEW n \in Nat \ {0}, NEW value, NEW rest, IsList(rest)
    PROVE  /\ Head(Followed(Field(kind, n, value), rest)).kind = kind
           /\ Head(Followed(Field(kind, n, value), rest)).value = value
<1>1. /\ IsList(Field(kind, n, value)) /\ Len(Field(kind, n, value)) = n
      /\ Field(kind, n, value)[1].value = value
      /\ Field(kind, n, value)[1].kind = kind
  BY FieldList DEF IsField
<1>2. Head(Followed(Field(kind, n, value), rest)) = Field(kind, n, value)[1]
  <2>. DEFINE f == Field(kind, n, value)
  <2>. HIDE DEF f
  <2>1. IsList(f) /\ Len(f) > 0
    BY <1>1 DEF f
  <2>2. Head(f \o rest) = f[1]
    BY <2>1, FirstOfTwo
  <2>. QED  BY <2>2 DEF f, Followed
<1>. QED  BY <1>1, <1>2

\* And of a party's input when a field is the next that it will read.
LEMMA HeadRead ==
    ASSUME Shapes, NEW x \in Parties, NEW kind, NEW n \in Nat \ {0}, NEW value,
           NEW rest, IsList(rest),
           Followed(in[x], out[Peer(x)]) = Followed(Field(kind, n, value), rest),
           NEW next, Recv(x, kind, n, next)
    PROVE  Head(in[x]).kind = kind /\ Head(in[x]).value = value
<1>. DEFINE f == Field(kind, n, value)
            s == in[x]
            t == out[Peer(x)]
<1>1. /\ IsList(f) /\ Len(f) = n /\ f[1].kind = kind /\ f[1].value = value
      /\ IsList(s) /\ IsList(t) /\ Followed(s, t) = Followed(f, rest)
  BY FieldList, PeerOf DEF IsField, Shapes, Streams
<1>2. Len(s) > 0
  <2>1. Len(s) \in Nat
    <3>. HIDE DEF s
    <3>. QED  BY <1>1, EmptyList, FirstOfTwo
  <2>. QED  BY <2>1 DEF Recv
<1>3. Head(s) = f[1]
  <2>. HIDE DEF f, s, t
  <2>. QED  BY <1>1, <1>2, FirstByte
<1>. QED  BY <1>1, <1>3

\* What the prover finds after its answer, and what it does then.
DoneFound ==
    \/ /\ round # replies
       /\ ProverStream = Followed(Field("done", 1, FALSE), PhaseAndMsg(VerifierTag, vMsg))
    \/ /\ round = replies /\ pc[V] = "send"
       /\ ProverStream = Followed(Field("done", 1, FALSE), <<>>)
    \/ /\ round = replies /\ pc[V] = "verify"
       /\ ProverStream = Followed(Field("done", 1, TRUE), <<>>)
    \/ /\ round = replies /\ pc[V] = "finished"
       /\ ProverStream = Followed(Field("done", 1, TRUE), Field("decision", 1, verdict))

LEMMA DoneStep ==
    ASSUME NetInv, ReceiveDone, UNCHANGED world
    PROVE  NetInv' /\ localTurn' = localTurn
<1>. USE TwoParties
<1>. DEFINE next == IF Head(in[P]).kind = "done" /\ Head(in[P]).value
                    THEN "decision" ELSE "phase"
<1>1. /\ pc[P] = "done" /\ alive[P] /\ Shapes /\ Recv(P, "done", 1, next)
      /\ UNCHANGED <<alive, out, buf, tag, size>> /\ MessagesKept
  BY DEF ReceiveDone, Running, NetInv, MessagesKept, msgVars, verifierVars, proverVars
<1>2. DoneFound
  <2>1. ProverStream # <<>>
    BY <1>1, NothingRead DEF VerifierStream, ProverStream
  <2>2. ProverStream = IF round # replies
                THEN Flag("done", FALSE) \o PhaseAndMsg(VerifierTag, vMsg)
                ELSE IF pc[V] = "send"     THEN Flag("done", FALSE)
                ELSE IF pc[V] = "verify"   THEN Flag("done", TRUE)
                ELSE IF pc[V] = "finished" THEN Flag("done", TRUE) \o Flag("decision", verdict)
                ELSE <<>>
    BY <1>1 DEF NetInv, ToProver
  <2>3. /\ Flag("done", FALSE) = Followed(Field("done", 1, FALSE), <<>>)
        /\ Flag("done", TRUE) = Followed(Field("done", 1, TRUE), <<>>)
        /\ Flag("done", FALSE) \o PhaseAndMsg(VerifierTag, vMsg)
             = Followed(Field("done", 1, FALSE), PhaseAndMsg(VerifierTag, vMsg))
        /\ Flag("done", TRUE) \o Flag("decision", verdict)
             = Followed(Field("done", 1, TRUE), Field("decision", 1, verdict))
    BY LoneField DEF Flag, Followed
  <2>. QED  BY <2>1, <2>2, <2>3 DEF DoneFound
<1>3. ASSUME NEW value \in BOOLEAN, NEW rest, IsList(rest),
             ProverStream = Followed(Field("done", 1, value), rest)
      PROVE  /\ DOMAIN pc' = Parties /\ Streams'
             /\ pc'[V] = pc[V] /\ VerifierStream' = VerifierStream
             /\ \/ pc'[P] = (IF value THEN "decision" ELSE "phase") /\ ProverStream' = rest
                \/ pc'[P] = "misframed" /\ world.shortReads
  <2>1. next = IF value THEN "decision" ELSE "phase"
    <3>1. Head(in[P]).kind = "done" /\ Head(in[P]).value = value
      BY <1>1, <1>3, HeadRead DEF ProverStream
    <3>. QED  BY <3>1
  <2>. HIDE DEF next
  <2>2. FieldTaken(P, value, rest, next)
    BY <1>1, <1>3, FieldRead DEF VerifierStream, ProverStream
  <2>. QED  BY <2>1, <2>2 DEF FieldTaken, VerifierStream, ProverStream
<1>4. /\ DOMAIN pc' = Parties /\ Streams'
      /\ pc'[V] = pc[V] /\ VerifierStream' = VerifierStream
      /\ \/ pc'[P] = "misframed" /\ world.shortReads
         \/ pc'[P] = "phase" /\ round # replies /\ ProverStream' = PhaseAndMsg(VerifierTag, vMsg)
         \/ pc'[P] = "phase" /\ round = replies /\ pc[V] = "send" /\ ProverStream' = <<>>
         \/ pc'[P] = "decision" /\ round = replies /\ pc[V] = "verify" /\ ProverStream' = <<>>
         \/ pc'[P] = "decision" /\ round = replies /\ pc[V] = "finished"
            /\ ProverStream' = Field("decision", 1, verdict)
  <2>1. /\ IsList(PhaseAndMsg(VerifierTag, vMsg)) /\ IsList(<<>>)
        /\ IsList(Field("decision", 1, verdict))
    BY WireTexts, LoneField
  <2>2. CASE /\ round # replies
             /\ ProverStream = Followed(Field("done", 1, FALSE), PhaseAndMsg(VerifierTag, vMsg))
    BY <1>3, <2>1, <2>2
  <2>3. CASE /\ round = replies /\ pc[V] = "send"
             /\ ProverStream = Followed(Field("done", 1, FALSE), <<>>)
    BY <1>3, <2>1, <2>3
  <2>4. CASE /\ round = replies /\ pc[V] = "verify"
             /\ ProverStream = Followed(Field("done", 1, TRUE), <<>>)
    BY <1>3, <2>1, <2>4
  <2>5. CASE /\ round = replies /\ pc[V] = "finished"
             /\ ProverStream = Followed(Field("done", 1, TRUE), Field("decision", 1, verdict))
    BY <1>3, <2>1, <2>5
  <2>. QED  BY <1>2, <2>2, <2>3, <2>4, <2>5 DEF DoneFound
<1>. HIDE DEF next
<1>5. /\ round # replies => pc[V] = "phase" /\ round = replies + 1
      /\ pc[V] \in {"send", "verify", "finished"} \/ round # replies
         \/ pc'[P] = "misframed"
      /\ pc[V] \notin {"length", "body", "handle"}
      /\ ~(pc[V] = "phase" /\ round = replies)
  <2>1. \/ round # replies
        \/ pc[V] \in {"send", "verify", "finished"}
    BY <1>2 DEF DoneFound
  <2>. QED  BY <2>1 DEF NetInv, Lockstep, Shapes
<1>6. Shapes' /\ Lockstep' /\ Decision' /\ InStep'
  BY <1>1, <1>4, <1>5 DEF NetInv, Shapes, Lockstep, Decision, InStep, MessagesKept,
              Handshake, ProverPlaces
<1>7. alive'[V] => ToVerifier'
  BY <1>1, <1>4, <1>5, TagsKept DEF NetInv, ToVerifier, HalfRead, MessagesKept, Lockstep, Handshake
<1>8. ToProver'
  BY <1>1, <1>4, TagsKept DEF ToProver, MessagesKept, Flag
<1>9. BeingRead' /\ Faithful'
  BY <1>1, <1>4, <1>5, TagsKept DEF NetInv, BeingRead
<1>10. localTurn' = localTurn
  BY <1>1, <1>4, <1>6, TurnKept DEF MessagesKept
<1>. QED  BY <1>6, <1>7, <1>8, <1>9, <1>10 DEF NetInv

LEMMA DecisionStep ==
    ASSUME NetInv, ReceiveDecision, UNCHANGED world
    PROVE  NetInv' /\ localTurn' = localTurn
<1>. USE TwoParties
<1>1. /\ pc[P] = "decision" /\ alive[P] /\ Shapes /\ Recv(P, "decision", 1, "finished")
      /\ round = replies /\ told' = ReadField(P, "none")
      /\ UNCHANGED <<alive, out, buf, tag, size, vPhase, pPhase, vMsg, pMsg,
                     verdict, round, replies>>
  BY DEF ReceiveDecision, Running, NetInv, Lockstep, verifierVars, proverVars
<1>2. pc[V] = "finished" /\ ProverStream = Followed(Field("decision", 1, verdict), <<>>)
  <2>1. ProverStream # <<>>
    BY <1>1, NothingRead DEF VerifierStream, ProverStream
  <2>2. pc[V] = "finished" /\ ProverStream = Flag("decision", verdict)
    BY <1>1, <2>1 DEF NetInv, ToProver
  <2>. QED  BY <2>2, LoneField DEF Flag, Followed
<1>3. FieldTaken(P, verdict, <<>>, "finished")
  <2>1. Shapes /\ Recv(P, "decision", 1, "finished") /\ IsList(<<>>) /\ UNCHANGED out
    BY <1>1, EmptyList
  <2>. QED  BY <1>2, <2>1, FieldRead DEF VerifierStream, ProverStream
<1>4. /\ DOMAIN pc' = Parties /\ Streams'
      /\ pc'[V] = pc[V] /\ VerifierStream' = VerifierStream
      /\ \/ pc'[P] = "finished" /\ told' = verdict
         \/ pc'[P] = "misframed" /\ world.shortReads /\ told' = "none"
  BY <1>1, <1>3 DEF FieldTaken, VerifierStream, ProverStream, ReadField
<1>5. Shapes' /\ Lockstep' /\ Decision' /\ InStep'
  BY <1>1, <1>2, <1>4 DEF NetInv, Shapes, Lockstep, Decision, InStep,
              Handshake, ProverPlaces
<1>6. ToVerifier' /\ ToProver'
  BY <1>1, <1>2, <1>4 DEF ToVerifier, ToProver
<1>7. BeingRead' /\ Faithful'
  <2>1. VerifierTag' = VerifierTag /\ ProverTag' = ProverTag
    BY <1>1 DEF VerifierTag, ProverTag
  <2>. QED  BY <1>1, <1>2, <1>4, <2>1 DEF NetInv, BeingRead, Faithful
<1>8. localTurn' = localTurn
  BY <1>1, <1>4, <1>5, TurnKept
<1>. QED  BY <1>5, <1>6, <1>7, <1>8 DEF NetInv
-----------------------------------------------------------------------------
(* The steps: the handlers. *)

\* The two modules instantiate the same parties: what a handler does here is
\* what it does there.
LEMMA SendersShared ==
    /\ VerifierSendFault <=> Session!VerifierSendFault
    /\ VerifierSend <=> Session!VerifierSend
    /\ VerifierMessage = Session!VerifierMessage
    /\ ProverSendFault <=> Session!ProverSendFault
    /\ ProverSend <=> Session!ProverSend
    /\ ProverMessage = Session!ProverMessage
<1>1. VerifierSendFault <=> Session!VerifierSendFault
  BY DEF VerifierSendFault, Session!VerifierSendFault
<1>2. VerifierSend <=> Session!VerifierSend
  BY DEF VerifierSend, Session!VerifierSend, advancePhase, Session!advancePhase
<1>3. VerifierMessage = Session!VerifierMessage
  BY DEF VerifierMessage, Session!VerifierMessage, verifierMsg, Session!verifierMsg,
         CarriesFriRequest, Session!CarriesFriRequest, NoExchange, Session!NoExchange,
         Nothing, Session!Nothing, FriRequest, Session!FriRequest, RS, Session!RS,
         doneConstructingProof, Session!doneConstructingProof, Depth, Session!Depth,
         HasQueries, Session!HasQueries
<1>4. ProverSendFault <=> Session!ProverSendFault
  BY DEF ProverSendFault, Session!ProverSendFault
<1>5. ProverSend <=> Session!ProverSend
  BY DEF ProverSend, Session!ProverSend, advancePhase, Session!advancePhase
<1>6. ProverMessage = Session!ProverMessage
  BY DEF ProverMessage, Session!ProverMessage, proverMsg, Session!proverMsg,
         NoExchange, Session!NoExchange, Nothing, Session!Nothing,
         NoOpening, Session!NoOpening, RS, Session!RS
<1>. QED  BY <1>1, <1>2, <1>3, <1>4, <1>5, <1>6

LEMMA ReceiversShared ==
    /\ ProverReceiveFault(vMsg) <=> Session!ProverReceiveFault(vMsg)
    /\ ProverReceive(vMsg) <=> Session!ProverReceive(vMsg)
    /\ VerifierReceiveFault(pMsg) <=> Session!VerifierReceiveFault(pMsg)
    /\ VerifierReceive(pMsg) <=> Session!VerifierReceive(pMsg)
    /\ doneInteracting' <=> Session!doneInteracting'
    /\ verifyComitment <=> Session!verifyComitment
<1>1. ProverReceiveFault(vMsg) <=> Session!ProverReceiveFault(vMsg)
  BY DEF ProverReceiveFault, Session!ProverReceiveFault, RS, Session!RS,
         Nothing, Session!Nothing, Depth, Session!Depth
<1>2. ProverReceive(vMsg) <=> Session!ProverReceive(vMsg)
  BY DEF ProverReceive, Session!ProverReceive, ProverStart, Session!ProverStart,
         ProverRound, Session!ProverRound, RS, Session!RS,
         advancePhase, Session!advancePhase, dropsProofs, Session!dropsProofs,
         nextResponce, Session!nextResponce
<1>3. VerifierReceiveFault(pMsg) <=> Session!VerifierReceiveFault(pMsg)
  BY DEF VerifierReceiveFault, Session!VerifierReceiveFault, RS, Session!RS,
         doneConstructingProof, Session!doneConstructingProof, Depth, Session!Depth
<1>4. VerifierReceive(pMsg) <=> Session!VerifierReceive(pMsg)
  <2>1. KeepCommitments(pMsg) <=> Session!KeepCommitments(pMsg)
    BY DEF KeepCommitments, Session!KeepCommitments, advancePhase, Session!advancePhase
  <2>2. DigestResults(pMsg) <=> Session!DigestResults(pMsg)
    BY DEF DigestResults, Session!DigestResults, advancePhase, Session!advancePhase
  <2>3. ReceiveRound(pMsg) <=> Session!ReceiveRound(pMsg)
    BY DEF ReceiveRound, Session!ReceiveRound, RS, Session!RS, filedLayer, Session!filedLayer,
           doneConstructingProof, Session!doneConstructingProof, Depth, Session!Depth,
           FriPhaseOver, Session!FriPhaseOver, advancePhase, Session!advancePhase
  <2>. QED  BY <2>1, <2>2, <2>3 DEF VerifierReceive, Session!VerifierReceive
<1>5. doneInteracting' <=> Session!doneInteracting'
  BY DEF doneInteracting, Session!doneInteracting
<1>6. verifyComitment <=> Session!verifyComitment
  BY DEF verifyComitment, Session!verifyComitment, RS, Session!RS, Depth, Session!Depth
<1>. QED  BY <1>1, <1>2, <1>3, <1>4, <1>5, <1>6

\* Where a handler runs is where the local driver calls it.
LEMMA HandlersTurn ==
    ASSUME NetInv
    PROVE  /\ pc[V] = "send" => localTurn = "verifier_sends"
           /\ pc[P] = "handle" => localTurn = "prover_receives"
           /\ pc[P] = "reply" => localTurn = "prover_sends"
           /\ pc[V] = "handle" => localTurn = "verifier_receives"
           /\ pc[V] = "verify" => localTurn = "verify"
<1>. USE TwoParties
<1>1. ~\E x \in Parties : pc[x] = "aborted"
  BY DEF NetInv, Shapes, VerifierPlaces, ProverPlaces, Handshake
<1>. QED  BY <1>1 DEF NetInv, Lockstep, Shapes, localTurn, Handshake

\* So no handler that runs meets a fault.
LEMMA NoFaultHere ==
    ASSUME NetInv, Session!IInv
    PROVE  /\ pc[V] = "send" => ~VerifierSendFault
           /\ pc[P] = "handle" => ~ProverReceiveFault(vMsg)
           /\ pc[P] = "reply" => ~ProverSendFault
           /\ pc[V] = "handle" => ~VerifierReceiveFault(pMsg)
<1>1. /\ localTurn = "verifier_sends" => ~Session!VerifierSendFault
      /\ localTurn = "prover_receives" => ~Session!ProverReceiveFault(vMsg)
      /\ localTurn = "prover_sends" => ~Session!ProverSendFault
      /\ localTurn = "verifier_receives" => ~Session!VerifierReceiveFault(pMsg)
  BY RepetitionsAssumption, DepthAssumption, Session!NoFaults
<1>. QED  BY <1>1, HandlersTurn, SendersShared, ReceiversShared

\* A message is its fields.
VerifierFields == {"reps", "coeffs", "rs", "fri", "queries"}
HasFields(m, fields) == m = [field \in fields |-> m[field]]

LEMMA SerializedFields ==
    ASSUME NEW m, NEW phase
    PROVE  /\ HasFields(serializeVerifierMsg(m, phase), VerifierFields)
           /\ serializeVerifierMsg(m, phase).reps
                = IF phase = "START_PROTOCOL" THEN m.reps ELSE 0
           /\ serializeVerifierMsg(m, phase).coeffs
                = IF phase = "VERIFIER_RANDOMNESS" THEN m.coeffs ELSE 0
           /\ serializeVerifierMsg(m, phase).rs
                = (phase \in {"VERIFIER_RANDOMNESS", "RS_PROXIMITY"} /\ m.rs)
           /\ serializeVerifierMsg(m, phase).fri
                = IF phase \in {"VERIFIER_RANDOMNESS", "RS_PROXIMITY"} THEN m.fri
                                                                      ELSE NoExchange
           /\ serializeVerifierMsg(m, phase).queries = (phase = "QUERY" /\ m.queries)
<1>1. HasFields(serializeVerifierMsg(m, phase), VerifierFields)
  BY DEF HasFields, VerifierFields, serializeVerifierMsg, verifierMsg
<1>. QED  BY <1>1 DEF serializeVerifierMsg, verifierMsg

LEMMA VerifierMessageFields ==
    /\ HasFields(VerifierMessage, VerifierFields)
    /\ VerifierMessage.reps = IF vPhase = "START_PROTOCOL" THEN Repetitions ELSE 0
    /\ VerifierMessage.coeffs = IF vPhase = "VERIFIER_RANDOMNESS" THEN Repetitions ELSE 0
    /\ VerifierMessage.rs = CarriesFriRequest
    /\ ~CarriesFriRequest => VerifierMessage.fri = NoExchange
    /\ VerifierMessage.queries = (vPhase = "QUERY" /\ HasQueries)
<1>1. HasFields(VerifierMessage, VerifierFields)
  BY DEF HasFields, VerifierFields, VerifierMessage, verifierMsg
<1>. QED  BY <1>1 DEF VerifierMessage, verifierMsg

\* The message the verifier makes holds only what its tag selects.
LEMMA VerifierTagSelects ==
    ASSUME VerifierSend, ~VerifierSendFault
    PROVE  /\ CanSerialize(getPreviousPhase(vPhase'))
           /\ serializeVerifierMsg(VerifierMessage, getPreviousPhase(vPhase')) = VerifierMessage
<1>1. PICK phase \in {"START_PROTOCOL", "VERIFIER_RANDOMNESS", "QUERY"} :
        /\ getPreviousPhase(vPhase') = phase
        /\ vPhase = phase \/ (vPhase = "RS_PROXIMITY" /\ phase = "VERIFIER_RANDOMNESS")
  BY DEF VerifierSend, VerifierSendFault, advancePhase, getPreviousPhase
<1>. DEFINE m == VerifierMessage
            s == serializeVerifierMsg(m, phase)
<1>2. /\ HasFields(s, VerifierFields) /\ HasFields(m, VerifierFields)
      /\ s.reps = m.reps /\ s.coeffs = m.coeffs /\ s.fri = m.fri
  BY <1>1, SerializedFields, VerifierMessageFields DEF CarriesFriRequest
<1>3. s.rs = m.rs /\ s.queries = m.queries
  <2>1. /\ s.rs = (phase \in {"VERIFIER_RANDOMNESS", "RS_PROXIMITY"} /\ m.rs)
        /\ s.queries = (phase = "QUERY" /\ m.queries)
    BY SerializedFields
  <2>2. m.rs = CarriesFriRequest /\ m.queries = (vPhase = "QUERY" /\ HasQueries)
    BY VerifierMessageFields
  <2>3. m.rs \in BOOLEAN /\ m.queries \in BOOLEAN
    BY <2>2 DEF CarriesFriRequest
  <2>4. /\ phase = "VERIFIER_RANDOMNESS" <=> m.rs
        /\ m.queries => phase = "QUERY"
    BY <1>1, <2>2 DEF CarriesFriRequest
  <2>. HIDE DEF s, m
  <2>5. s.rs = m.rs
    BY <1>1, <2>1, <2>3, <2>4
  <2>6. s.queries = m.queries
    BY <1>1, <2>1, <2>3, <2>4
  <2>. QED  BY <2>5, <2>6
<1>. HIDE DEF s, m
<1>4. s = m
  BY <1>2, <1>3 DEF HasFields, VerifierFields
<1>. QED  BY <1>1, <1>4 DEF s, m, CanSerialize

\* And so does the prover's, in the phases in which it answers.
LEMMA ProverTagSelects ==
    ASSUME ProverSend, pPhase \in {"UNIVARIATE_COMMITMENTS", "RS_PROXIMITY"}
    PROVE  serializeProverMsg(ProverMessage, getPreviousPhase(pPhase')) = ProverMessage
<1>1. PICK phase \in {"UNIVARIATE_COMMITMENTS", "VERIFIER_RANDOMNESS"} :
        /\ getPreviousPhase(pPhase') = phase
        /\ phase = "UNIVARIATE_COMMITMENTS" <=> pPhase = "UNIVARIATE_COMMITMENTS"
  BY DEF ProverSend, advancePhase, getPreviousPhase
<1>. DEFINE fields == {"commitments", "rs", "fri", "results"}
            m == ProverMessage
            s == serializeProverMsg(m, phase)
<1>2. CASE phase = "UNIVARIATE_COMMITMENTS"
  <2>1. m = [proverMsg EXCEPT !.commitments = [epoch |-> pEpoch, masks |-> pReps]]
    BY <1>1, <1>2 DEF ProverMessage
  <2>2. s = [proverMsg EXCEPT !.commitments = m.commitments]
    BY <1>2 DEF serializeProverMsg
  <2>3. m.commitments = [epoch |-> pEpoch, masks |-> pReps]
    BY <2>1 DEF proverMsg
  <2>4. s = m
    BY <2>1, <2>2, <2>3, Zenon
  <2>. QED  BY <1>1, <2>4
<1>3. CASE phase # "UNIVARIATE_COMMITMENTS"
  <2>1. /\ HasFields(m, fields) /\ m.commitments = NoOpening
    BY <1>1, <1>3 DEF HasFields, ProverMessage, proverMsg
  <2>2. s = [m EXCEPT !.commitments = NoOpening]
    BY <1>3 DEF serializeProverMsg
  <2>3. s = m
    <3>. HIDE DEF s, m
    <3>. QED  BY <2>1, <2>2 DEF HasFields
  <2>. QED  BY <1>1, <2>3
<1>. QED  BY <1>2, <1>3

\* What was read is what was sent.
LEMMA MessageRead ==
    ASSUME NetInv
    PROVE  /\ pc[P] = "handle" =>
                /\ serializeVerifierMsg(Head(buf[P]).value, tag[P]) = vMsg
                /\ CanSerialize(tag[P])
           /\ pc[V] = "handle" =>
                serializeProverMsg(Head(buf[V]).value, tag[V]) = pMsg
<1>1. ASSUME NEW m PROVE Head(Field("body", TextBytes, m)).value = m
  <2>1. /\ Field("body", TextBytes, m) = Followed(Field("body", TextBytes, m), <<>>)
        /\ IsList(<<>>)
    BY LoneField, BytesAssumption DEF Followed
  <2>2. Head(Followed(Field("body", TextBytes, m), <<>>)).value = m
    BY <2>1, HeadOfField, BytesAssumption
  <2>. QED  BY <2>1, <2>2
<1>2. ASSUME pc[P] = "handle"
      PROVE  /\ serializeVerifierMsg(Head(buf[P]).value, tag[P]) = vMsg
             /\ CanSerialize(tag[P])
  <2>1. buf[P] = Field("body", TextBytes, vMsg) /\ tag[P] = VerifierTag
    BY <1>2 DEF NetInv, BeingRead
  <2>2. Head(buf[P]).value = vMsg
    BY <1>1, <2>1
  <2>3. CanSerialize(VerifierTag) /\ serializeVerifierMsg(vMsg, VerifierTag) = vMsg
    BY <1>2 DEF NetInv, Faithful, Lockstep
  <2>. QED  BY <2>1, <2>2, <2>3
<1>3. ASSUME pc[V] = "handle"
      PROVE  serializeProverMsg(Head(buf[V]).value, tag[V]) = pMsg
  <2>1. buf[V] = Field("body", TextBytes, pMsg) /\ tag[V] = ProverTag
    BY <1>3 DEF NetInv, BeingRead
  <2>2. Head(buf[V]).value = pMsg
    BY <1>1, <2>1
  <2>3. serializeProverMsg(pMsg, ProverTag) = pMsg
    BY <1>3 DEF NetInv, Faithful, Lockstep
  <2>. QED  BY <2>1, <2>2, <2>3
<1>. QED  BY <1>2, <1>3
LEMMA VerifierSendsHere ==
    ASSUME NetInv, Session!IInv, VerifierSends, UNCHANGED world
    PROVE  NetInv' /\ Session!VerifierSends
<1>. USE TwoParties
<1>1. /\ pc[V] = "send" /\ alive[V] /\ out[V] = <<>> /\ Shapes /\ localTurn = "verifier_sends"
      /\ ~VerifierSendFault /\ round = replies
      /\ pc[P] \in {"phase", "done", "misframed"}
  <2>1. pc[V] = "send" /\ alive[V] /\ out[V] = <<>>
    BY DEF VerifierSends, Running
  <2>. QED  BY <2>1, NoFaultHere, HandlersTurn
            DEF NetInv, Shapes, ProverPlaces, Lockstep, Handshake
<1>. DEFINE phase == getPreviousPhase(vPhase')
<1>2. /\ VerifierSend /\ vMsg' = VerifierMessage /\ round' = round + 1
      /\ IF CanSerialize(phase)
         THEN StartSending(V, PhaseAndMsg(phase, serializeVerifierMsg(vMsg', phase)), "phase")
         ELSE Exit(V)
      /\ UNCHANGED <<proverVars, buf, tag, size, pMsg, algebra, verdict, told, replies>>
  BY <1>1 DEF VerifierSends
<1>3. CanSerialize(phase) /\ serializeVerifierMsg(vMsg', phase) = vMsg'
  BY <1>1, <1>2, VerifierTagSelects
<1>4. StartSending(V, PhaseAndMsg(phase, vMsg'), "phase")
  BY <1>2, <1>3
<1>5. VerifierTag' = phase
  BY DEF VerifierTag
<1>. HIDE DEF phase
<1>6. /\ DOMAIN pc' = Parties /\ DOMAIN alive' = Parties /\ Streams'
      /\ pc'[V] = "phase" /\ pc'[P] = pc[P]
      /\ VerifierStream' = VerifierStream /\ alive'[P] = alive[P]
      /\ alive'[V] \in BOOLEAN /\ (alive'[V] => alive[V])
      /\ alive[P] /\ pc[P] # "finished" =>
           ProverStream' = Followed(ProverStream, PhaseAndMsg(phase, vMsg'))
  <2>. DEFINE bytes == PhaseAndMsg(phase, vMsg')
  <2>. HIDE DEF bytes
  <2>1. StartSending(V, bytes, "phase") /\ IsList(bytes)
    BY <1>4, WireTexts DEF bytes
  <2>2. Shapes /\ V \in Parties /\ out[V] = <<>>
    BY <1>1
  <2>3. Posted(V, bytes, "phase")
    BY <2>1, <2>2, Started
  <2>. QED  BY <2>3 DEF bytes, Posted, VerifierStream, ProverStream
<1>7. Shapes' /\ Lockstep' /\ Decision' /\ InStep'
  BY <1>1, <1>2, <1>6 DEF NetInv, Shapes, Lockstep, Decision, InStep, Handshake, VerifierPlaces
<1>8. alive'[V] => ToVerifier'
  BY <1>1, <1>2, <1>6 DEF NetInv, ToVerifier, Shapes
<1>9. ASSUME alive'[P] PROVE ToProver'
  <2>1. ProverStream' = Followed(ProverStream, PhaseAndMsg(phase, vMsg'))
    BY <1>1, <1>6, <1>9
  <2>2. PhaseAndMsg(VerifierTag, vMsg)' = PhaseAndMsg(phase, vMsg')
    BY <1>5
  <2>3. CASE pc[P] = "phase"
    <3>1. ProverStream = <<>>
      BY <1>1, <1>6, <1>9, <2>3 DEF NetInv, ToProver
    <3>2. ProverStream' = PhaseAndMsg(phase, vMsg')
      BY <2>1, <3>1, WireTexts DEF Followed
    <3>. QED  BY <1>1, <1>2, <1>6, <2>2, <2>3, <3>2 DEF ToProver, Shapes
  <2>4. CASE pc[P] = "done"
    <3>1. ProverStream = Flag("done", FALSE)
      BY <1>1, <1>6, <1>9, <2>4 DEF NetInv, ToProver
    <3>2. ProverStream' = Flag("done", FALSE) \o PhaseAndMsg(phase, vMsg')
      BY <2>1, <3>1 DEF Followed
    <3>3. pc'[P] = "done" /\ round' # replies'
      BY <1>1, <1>2, <1>6, <2>4 DEF Shapes
    <3>. QED  BY <2>2, <3>2, <3>3 DEF ToProver
  <2>5. CASE pc[P] = "misframed"
    BY <1>6, <2>5 DEF ToProver
  <2>. QED  BY <1>1, <2>3, <2>4, <2>5
<1>10. BeingRead'
  BY <1>1, <1>6 DEF BeingRead
<1>11. Faithful'
  <2>1. round' = replies' + 1 /\ round' # replies'
    BY <1>1, <1>2 DEF Shapes
  <2>. QED  BY <1>3, <1>5, <2>1 DEF Faithful
<1>12. localTurn' = "prover_receives"
  <2>1. ~\E x \in Parties : pc'[x] = "aborted"
    BY <1>7 DEF Shapes, VerifierPlaces, ProverPlaces, Handshake
  <2>. QED  BY <1>1, <1>2, <1>6, <2>1 DEF localTurn, Shapes
<1>13. Session!VerifierSends
  BY <1>1, <1>2, <1>12, SendersShared DEF Session!VerifierSends, proverVars, Session!proverVars
<1>. QED  BY <1>7, <1>8, <1>9, <1>10, <1>11, <1>13 DEF NetInv

LEMMA ProverReceivesHere ==
    ASSUME NetInv, Session!IInv, ProverReceives, UNCHANGED world
    PROVE  NetInv' /\ Session!ProverReceives
<1>. USE TwoParties
<1>1. /\ pc[P] = "handle" /\ alive[P] /\ Shapes /\ localTurn = "prover_receives"
      /\ ~ProverReceiveFault(vMsg) /\ round = replies + 1 /\ pc[V] = "phase"
      /\ serializeVerifierMsg(Head(buf[P]).value, tag[P]) = vMsg /\ CanSerialize(tag[P])
  <2>1. pc[P] = "handle" /\ alive[P]
    BY DEF ProverReceives, Running
  <2>. QED  BY <2>1, NoFaultHere, HandlersTurn, MessageRead DEF NetInv, Shapes, Lockstep
<1>2. /\ ProverReceive(vMsg) /\ pc' = [pc EXCEPT ![P] = "reply"]
      /\ UNCHANGED <<alive, out, in>>
      /\ UNCHANGED <<verifierVars, buf, tag, size, msgVars>>
  BY <1>1 DEF ProverReceives
<1>3. DOMAIN pc' = Parties /\ pc'[P] = "reply" /\ pc'[V] = pc[V]
  BY <1>1, <1>2 DEF Shapes
<1>4. UNCHANGED <<vPhase, vMsg, pMsg, verdict, told, round, replies, world>>
  BY <1>2 DEF verifierVars, msgVars
<1>5. Shapes' /\ Lockstep' /\ Decision' /\ InStep'
  BY <1>1, <1>2, <1>3, <1>4
     DEF NetInv, Shapes, Streams, Lockstep, Decision, InStep, Handshake, ProverPlaces
<1>6. alive'[V] => ToVerifier'
  BY <1>1, <1>2, <1>3, <1>4 DEF NetInv, ToVerifier, VerifierStream, Shapes
<1>7. alive'[P] => ToProver'
  BY <1>1, <1>2, <1>3, <1>4 DEF NetInv, ToProver, ProverStream
<1>8. BeingRead' /\ Faithful'
  <2>1. VerifierTag' = VerifierTag
    BY <1>4 DEF VerifierTag
  <2>. QED  BY <1>1, <1>3, <1>4, <2>1 DEF NetInv, BeingRead, Faithful, Shapes
<1>9. localTurn' = "prover_sends"
  <2>1. ~\E x \in Parties : pc'[x] = "aborted"
    BY <1>5 DEF Shapes, VerifierPlaces, ProverPlaces, Handshake
  <2>. QED  BY <1>1, <1>3, <1>4, <2>1 DEF localTurn, Shapes
<1>10. Session!ProverReceives
  BY <1>1, <1>2, <1>9, ReceiversShared
     DEF Session!ProverReceives, verifierVars, Session!verifierVars, msgVars
<1>. QED  BY <1>5, <1>6, <1>7, <1>8, <1>10 DEF NetInv

LEMMA ProverSendsHere ==
    ASSUME NetInv, Session!IInv, ProverSends, UNCHANGED world
    PROVE  NetInv' /\ Session!ProverSends
<1>. USE TwoParties
<1>1. /\ pc[P] = "reply" /\ alive[P] /\ out[P] = <<>> /\ Shapes /\ localTurn = "prover_sends"
      /\ ~ProverSendFault /\ round = replies + 1 /\ pc[V] = "phase"
      /\ pPhase \in {"UNIVARIATE_COMMITMENTS", "RS_PROXIMITY"}
  <2>1. pc[P] = "reply" /\ alive[P] /\ out[P] = <<>>
    BY DEF ProverSends, Running
  <2>2. localTurn = "prover_sends" => pPhase \in {"UNIVARIATE_COMMITMENTS", "RS_PROXIMITY"}
    BY DEF Session!IInv, Session!PhasesInStep
  <2>. QED  BY <2>1, <2>2, NoFaultHere, HandlersTurn DEF NetInv, Shapes, Lockstep
<1>. DEFINE phase == getPreviousPhase(pPhase')
<1>2. /\ ProverSend /\ pMsg' = ProverMessage /\ replies' = replies + 1
      /\ StartSending(P, PhaseAndMsg(phase, serializeProverMsg(pMsg', phase)), "done")
      /\ UNCHANGED <<verifierVars, buf, tag, size, vMsg, algebra, verdict, told, round>>
  BY <1>1 DEF ProverSends
<1>3. serializeProverMsg(pMsg', phase) = pMsg'
  BY <1>1, <1>2, ProverTagSelects
<1>4. StartSending(P, PhaseAndMsg(phase, pMsg'), "done")
  BY <1>2, <1>3
<1>5. ProverTag' = phase
  BY DEF ProverTag
<1>. HIDE DEF phase
<1>6. /\ DOMAIN pc' = Parties /\ DOMAIN alive' = Parties /\ Streams'
      /\ pc'[P] = "done" /\ pc'[V] = pc[V] /\ ProverStream' = ProverStream /\ alive'[V] = alive[V]
      /\ alive'[P] \in BOOLEAN /\ (alive'[P] => alive[P])
      /\ alive[V] /\ pc[V] # "finished" =>
           VerifierStream' = Followed(VerifierStream, PhaseAndMsg(phase, pMsg'))
  <2>. DEFINE bytes == PhaseAndMsg(phase, pMsg')
  <2>. HIDE DEF bytes
  <2>1. StartSending(P, bytes, "done") /\ IsList(bytes)
    BY <1>4, WireTexts DEF bytes
  <2>2. Shapes /\ P \in Parties /\ out[P] = <<>>
    BY <1>1
  <2>3. Posted(P, bytes, "done")
    BY <2>1, <2>2, Started
  <2>. QED  BY <2>3 DEF bytes, Posted, VerifierStream, ProverStream
<1>7. Shapes' /\ Lockstep' /\ Decision' /\ InStep'
  BY <1>1, <1>2, <1>6 DEF NetInv, Shapes, Lockstep, Decision, InStep, Handshake, ProverPlaces
<1>8. ASSUME alive'[V] PROVE ToVerifier'
  <2>1. VerifierStream = <<>>
    BY <1>1, <1>6, <1>8 DEF NetInv, ToVerifier, Shapes
  <2>2. VerifierStream' = PhaseAndMsg(phase, pMsg')
    BY <1>1, <1>6, <1>8, <2>1, WireTexts DEF Followed
  <2>3. PhaseAndMsg(ProverTag, pMsg)' = PhaseAndMsg(phase, pMsg')
    BY <1>5
  <2>. QED  BY <1>1, <1>2, <1>6, <2>2, <2>3 DEF ToVerifier
<1>9. alive'[P] => ToProver'
  BY <1>1, <1>2, <1>6 DEF NetInv, ToProver
<1>10. BeingRead'
  BY <1>1, <1>6 DEF BeingRead
<1>11. Faithful'
  <2>1. round' = replies' /\ round' # replies' + 1
    BY <1>1, <1>2 DEF Shapes
  <2>. QED  BY <1>3, <1>5, <2>1 DEF Faithful
<1>12. localTurn' = "verifier_receives"
  <2>1. ~\E x \in Parties : pc'[x] = "aborted"
    BY <1>7 DEF Shapes, VerifierPlaces, ProverPlaces, Handshake
  <2>. QED  BY <1>1, <1>2, <1>6, <2>1 DEF localTurn, Shapes
<1>13. Session!ProverSends
  BY <1>1, <1>2, <1>12, SendersShared DEF Session!ProverSends, verifierVars, Session!verifierVars
<1>. QED  BY <1>7, <1>8, <1>9, <1>10, <1>11, <1>13 DEF NetInv

LEMMA VerifierReceivesHere ==
    ASSUME NetInv, Session!IInv, VerifierReceives, UNCHANGED world
    PROVE  NetInv' /\ Session!VerifierReceives
<1>. USE TwoParties
<1>1. /\ pc[V] = "handle" /\ alive[V] /\ out[V] = <<>> /\ Shapes /\ localTurn = "verifier_receives"
      /\ ~VerifierReceiveFault(pMsg) /\ round = replies /\ round > 0 /\ pc[P] = "done"
      /\ serializeProverMsg(Head(buf[V]).value, tag[V]) = pMsg
  <2>1. pc[V] = "handle" /\ alive[V] /\ out[V] = <<>>
    BY DEF VerifierReceives, Running
  <2>. QED  BY <2>1, NoFaultHere, HandlersTurn, MessageRead DEF NetInv, Shapes, Lockstep
<1>. DEFINE next == IF doneInteracting' THEN "verify" ELSE "send"
<1>2. /\ VerifierReceive(pMsg) /\ Send(V, Flag("done", doneInteracting'), next)
      /\ UNCHANGED <<proverVars, out, buf, tag, size, msgVars>>
  BY <1>1 DEF VerifierReceives
<1>3. /\ next \in {"send", "verify"} /\ doneInteracting' \in BOOLEAN
      /\ doneInteracting' = (next = "verify")
  BY DEF doneInteracting
<1>. HIDE DEF next
<1>4. UNCHANGED <<pPhase, vMsg, pMsg, verdict, told, round, replies, world>>
  BY <1>2 DEF proverVars, msgVars
<1>5. /\ DOMAIN pc' = Parties /\ DOMAIN alive' = Parties /\ Streams'
      /\ pc'[V] = next /\ pc'[P] = pc[P] /\ VerifierStream' = VerifierStream /\ alive'[P] = alive[P]
      /\ alive'[V] \in BOOLEAN /\ (alive'[V] => alive[V])
      /\ alive[P] /\ pc[P] # "finished" =>
           ProverStream' = Followed(ProverStream, Flag("done", next = "verify"))
  <2>. DEFINE bytes == Flag("done", next = "verify")
  <2>. HIDE DEF bytes
  <2>1. Send(V, bytes, next) /\ IsList(bytes)
    BY <1>2, <1>3, LoneField DEF bytes, Flag
  <2>2. Shapes /\ V \in Parties /\ out[V] = <<>> /\ UNCHANGED out
    BY <1>1, <1>2
  <2>3. Posted(V, bytes, next)
    BY <2>1, <2>2, Sent
  <2>. QED  BY <2>3 DEF bytes, Posted, VerifierStream, ProverStream
<1>6. Shapes' /\ Lockstep' /\ Decision' /\ InStep'
  BY <1>1, <1>2, <1>3, <1>4, <1>5
     DEF NetInv, Shapes, Lockstep, Decision, InStep, Handshake, VerifierPlaces
<1>7. alive'[V] => ToVerifier'
  BY <1>1, <1>3, <1>4, <1>5 DEF NetInv, ToVerifier
<1>8. ASSUME alive'[P] PROVE ToProver'
  <2>1. ProverStream = <<>>
    BY <1>1, <1>5, <1>8 DEF NetInv, ToProver
  <2>2. ProverStream' = Flag("done", next = "verify")
    BY <1>1, <1>5, <1>8, <2>1, LoneField DEF Followed, Flag
  <2>3. ProverStream' = IF next = "verify" THEN Flag("done", TRUE) ELSE Flag("done", FALSE)
    BY <2>2
  <2>. QED  BY <1>1, <1>3, <1>4, <1>5, <2>3 DEF ToProver
<1>9. BeingRead' /\ Faithful'
  <2>1. ProverTag' = ProverTag
    BY <1>4 DEF ProverTag
  <2>. QED  BY <1>1, <1>3, <1>4, <1>5, <2>1 DEF NetInv, BeingRead, Faithful, Shapes
<1>10. localTurn' = IF doneInteracting' THEN "verify" ELSE "verifier_sends"
  <2>1. ~\E x \in Parties : pc'[x] = "aborted"
    BY <1>6 DEF Shapes, VerifierPlaces, ProverPlaces, Handshake
  <2>. QED  BY <1>1, <1>3, <1>4, <1>5, <2>1 DEF localTurn, Shapes
<1>11. Session!VerifierReceives
  BY <1>1, <1>2, <1>10, ReceiversShared
     DEF Session!VerifierReceives, proverVars, Session!proverVars, msgVars
<1>. QED  BY <1>6, <1>7, <1>8, <1>9, <1>11 DEF NetInv

LEMMA VerifyHere ==
    ASSUME NetInv, Verify, UNCHANGED world
    PROVE  NetInv' /\ Session!Verify
<1>. USE TwoParties
<1>1. /\ pc[V] = "verify" /\ alive[V] /\ out[V] = <<>> /\ Shapes /\ localTurn = "verify"
      /\ round = replies /\ round > 0 /\ pc[P] \in {"done", "decision", "misframed"}
      /\ told = "none"
  <2>1. pc[V] = "verify" /\ alive[V] /\ out[V] = <<>>
    BY DEF Verify, Running
  <2>. QED  BY <2>1, HandlersTurn DEF NetInv, Shapes, ProverPlaces, Lockstep, Handshake, Decision
<1>2. /\ verdict' = (IF verifyComitment /\ algebra THEN "accept" ELSE "reject")
      /\ Send(V, Flag("decision", verdict'), "finished")
      /\ UNCHANGED <<verifierVars, proverVars, out, buf, tag, size,
                     vMsg, pMsg, algebra, told, round, replies>>
  BY DEF Verify
<1>3. UNCHANGED <<vPhase, pPhase, vMsg, pMsg, told, round, replies, world>>
  BY <1>2 DEF verifierVars, proverVars
<1>4. /\ DOMAIN pc' = Parties /\ DOMAIN alive' = Parties /\ Streams'
      /\ pc'[V] = "finished" /\ pc'[P] = pc[P]
      /\ VerifierStream' = VerifierStream /\ alive'[P] = alive[P]
      /\ alive'[V] \in BOOLEAN /\ (alive'[V] => alive[V])
      /\ alive[P] /\ pc[P] # "finished" =>
           ProverStream' = Followed(ProverStream, Flag("decision", verdict'))
  <2>. DEFINE bytes == Flag("decision", verdict')
  <2>. HIDE DEF bytes
  <2>1. Send(V, bytes, "finished") /\ IsList(bytes)
    BY <1>2, LoneField DEF bytes, Flag
  <2>2. Shapes /\ V \in Parties /\ out[V] = <<>> /\ UNCHANGED out
    BY <1>1, <1>2
  <2>3. Posted(V, bytes, "finished")
    BY <2>1, <2>2, Sent
  <2>. QED  BY <2>3 DEF bytes, Posted, VerifierStream, ProverStream
<1>5. Shapes' /\ Lockstep' /\ Decision' /\ InStep'
  <2>1. Shapes'
    BY <1>1, <1>2, <1>3, <1>4 DEF Shapes, VerifierPlaces
  <2>2. Lockstep'
    BY <1>1, <1>3, <1>4 DEF NetInv, Shapes, Lockstep, Handshake
  <2>3. Decision' /\ InStep'
    BY <1>1, <1>3, <1>4 DEF NetInv, Decision, InStep
  <2>. QED  BY <2>1, <2>2, <2>3
<1>6. ToVerifier'
  BY <1>4 DEF ToVerifier
<1>7. ASSUME alive'[P] PROVE ToProver'
  <2>1. ProverStream' = Followed(ProverStream, Flag("decision", verdict'))
    BY <1>1, <1>4, <1>7
  <2>2. CASE pc[P] = "done"
    <3>1. ProverStream = Flag("done", TRUE)
      BY <1>1, <1>4, <1>7, <2>2 DEF NetInv, ToProver
    <3>2. ProverStream' = Flag("done", TRUE) \o Flag("decision", verdict')
      BY <2>1, <3>1 DEF Followed
    <3>. QED  BY <1>1, <1>3, <1>4, <2>2, <3>2 DEF ToProver
  <2>3. CASE pc[P] = "decision"
    <3>1. ProverStream = <<>>
      BY <1>1, <1>4, <1>7, <2>3 DEF NetInv, ToProver
    <3>2. ProverStream' = Flag("decision", verdict')
      BY <2>1, <3>1, LoneField DEF Followed, Flag
    <3>. QED  BY <1>1, <1>3, <1>4, <2>3, <3>2 DEF ToProver
  <2>4. CASE pc[P] = "misframed"
    BY <1>4, <2>4 DEF ToProver
  <2>. QED  BY <1>1, <2>2, <2>3, <2>4
<1>8. BeingRead' /\ Faithful'
  <2>1. ProverTag' = ProverTag
    BY <1>3 DEF ProverTag
  <2>. QED  BY <1>1, <1>3, <1>4, <2>1 DEF NetInv, BeingRead, Faithful, Shapes
<1>9. localTurn' = "decided"
  <2>1. ~\E x \in Parties : pc'[x] = "aborted"
    BY <1>5 DEF Shapes, VerifierPlaces, ProverPlaces, Handshake
  <2>. QED  BY <1>4, <2>1 DEF localTurn
<1>10. Session!Verify
  BY <1>1, <1>2, <1>9, ReceiversShared
     DEF Session!Verify, verifierVars, proverVars, Session!verifierVars, Session!proverVars
<1>. QED  BY <1>5, <1>6, <1>7, <1>8, <1>10 DEF NetInv
-----------------------------------------------------------------------------
(* The specification. *)

LEMMA InitHere == Init => NetInv /\ Session!Init
<1>. SUFFICES ASSUME Init PROVE NetInv /\ Session!Init
  OBVIOUS
<1>. USE TwoParties
<1>1. /\ DOMAIN pc = Parties /\ DOMAIN alive = Parties
      /\ DOMAIN in = Parties /\ DOMAIN out = Parties
      /\ DOMAIN buf = Parties /\ DOMAIN tag = Parties /\ DOMAIN size = Parties
      /\ pc[V] = "accept" /\ pc[P] = "connect" /\ alive[V] = TRUE /\ alive[P] = TRUE
      /\ in[V] = <<>> /\ in[P] = <<>> /\ out[V] = <<>> /\ out[P] = <<>> /\ round = 0 /\ replies = 0
      /\ world \in Worlds /\ told = "none" /\ verdict = "none"
  BY DEF Init
<1>2. Shapes /\ Lockstep /\ Decision /\ InStep
  BY <1>1, EmptyList DEF Shapes, Streams, Lockstep, Decision, InStep, Handshake,
                         VerifierPlaces, ProverPlaces
<1>3. ToVerifier /\ ToProver /\ BeingRead /\ Faithful
  <2>1. VerifierStream = <<>> /\ ProverStream = <<>>
    BY <1>1, EmptyList, NothingFollows DEF VerifierStream, ProverStream, Followed
  <2>. QED  BY <1>1, <2>1 DEF ToVerifier, ToProver, BeingRead, Faithful
<1>4. localTurn = "verifier_sends"
  <2>1. ~\E x \in Parties : pc[x] = "aborted"
    BY <1>1
  <2>. QED  BY <1>1, <2>1 DEF localTurn
<1>5. Session!VerifierInit
  BY DEF Init, VerifierInit, Session!VerifierInit, NoOpening, Session!NoOpening,
         RS, Session!RS, MaxDepth, Session!MaxDepth
<1>6. Session!ProverInit
  BY DEF Init, ProverInit, Session!ProverInit, NoOpening, Session!NoOpening,
         RS, Session!RS, NoExchange, Session!NoExchange, Nothing, Session!Nothing
<1>7. vMsg = Session!verifierMsg /\ pMsg = Session!proverMsg /\ algebra \in BOOLEAN
  BY DEF Init, verifierMsg, Session!verifierMsg, proverMsg, Session!proverMsg,
         NoExchange, Session!NoExchange, Nothing, Session!Nothing,
         NoOpening, Session!NoOpening, RS, Session!RS
<1>8. Session!Init
  BY <1>1, <1>4, <1>5, <1>6, <1>7 DEF Session!Init
<1>. QED  BY <1>2, <1>3, <1>8 DEF NetInv

\* A step that only moves bytes, or that a process takes to exit, is none of
\* the local driver's.
BytesMoved == UNCHANGED <<verifierVars, proverVars, vMsg, pMsg, algebra, verdict, round>>

LEMMA NoStepThere ==
    ASSUME BytesMoved, localTurn' = localTurn
    PROVE  UNCHANGED Session!vars
BY DEF BytesMoved, verifierVars, proverVars, Session!vars, Session!verifierVars,
       Session!proverVars, Session!sessionVars

LEMMA ExitHere ==
    ASSUME NetInv, NEW x \in Parties, alive' \in {alive, [alive EXCEPT ![x] = FALSE]},
           UNCHANGED <<verifierVars, proverVars, pc, out, in, buf, tag, size, msgVars, world>>
    PROVE  NetInv' /\ UNCHANGED Session!vars
<1>1. MessagesKept /\ BytesMoved
  BY DEF MessagesKept, BytesMoved, verifierVars, proverVars, msgVars
<1>2. NetInv'
  BY <1>1, Exits
<1>3. localTurn' = localTurn
  BY <1>2, TurnKept DEF NetInv, msgVars
<1>. QED  BY <1>1, <1>2, <1>3, NoStepThere

\* Nor is the sending of a field: what its reader is promised stays the same,
\* and one that has gone is promised nothing.
LEMMA SendFieldHere ==
    ASSUME NetInv, NEW x \in Parties, SendField(x), UNCHANGED world
    PROVE  NetInv' /\ UNCHANGED Session!vars
<1>. USE TwoParties
<1>1. /\ MessagesKept /\ BytesMoved /\ UNCHANGED <<buf, tag, size>> /\ Shapes
  BY DEF SendField, MessagesKept, BytesMoved, verifierVars, proverVars, msgVars, NetInv
<1>2. FieldSent(x)
  BY <1>1, FieldOnItsWay
<1>3. /\ DOMAIN pc' = Parties /\ DOMAIN alive' = Parties /\ Streams'
      /\ pc'[V] = pc[V] /\ pc'[P] = pc[P]
      /\ alive'[V] \in BOOLEAN /\ alive'[P] \in BOOLEAN
      /\ (alive'[V] => alive[V]) /\ (alive'[P] => alive[P])
      /\ alive'[V] /\ pc[V] # "finished" => VerifierStream' = VerifierStream
      /\ alive'[P] /\ pc[P] # "finished" => ProverStream' = ProverStream
  BY <1>1, <1>2 DEF FieldSent, VerifierStream, ProverStream, Shapes
<1>4. Shapes' /\ Lockstep' /\ Decision' /\ InStep'
  BY <1>1, <1>3 DEF NetInv, Shapes, Lockstep, Decision, InStep, MessagesKept
<1>5. ASSUME alive'[V] PROVE ToVerifier'
  <2>1. CASE pc[V] = "finished"
    BY <1>3, <2>1 DEF ToVerifier
  <2>2. CASE pc[V] # "finished"
    <3>1. VerifierStream' = VerifierStream /\ ToVerifier
      BY <1>3, <1>5, <2>2 DEF NetInv
    <3>. QED  BY <1>1, <1>3, <3>1, TagsKept DEF ToVerifier, HalfRead, MessagesKept
  <2>. QED  BY <2>1, <2>2
<1>6. ASSUME alive'[P] PROVE ToProver'
  <2>1. CASE pc[P] = "finished"
    BY <1>3, <2>1 DEF ToProver
  <2>2. CASE pc[P] # "finished"
    <3>1. ProverStream' = ProverStream /\ ToProver
      BY <1>3, <1>6, <2>2 DEF NetInv
    <3>. QED  BY <1>1, <1>3, <3>1, TagsKept DEF ToProver, HalfRead, MessagesKept
  <2>. QED  BY <2>1, <2>2
<1>7. BeingRead' /\ Faithful'
  BY <1>1, <1>3, TagsKept DEF NetInv, BeingRead, MessagesKept
<1>8. NetInv'
  BY <1>4, <1>5, <1>6, <1>7 DEF NetInv
<1>9. localTurn' = localTurn
  BY <1>1, <1>3, <1>4, TurnKept DEF MessagesKept
<1>. QED  BY <1>1, <1>8, <1>9, NoStepThere

\* Every step keeps the invariant, and is a step of the local driver or none.
LEMMA VerifierHere ==
    ASSUME NetInv, Session!IInv, VerifierStep
    PROVE  NetInv' /\ [Session!Next]_(Session!vars)
<1>1. CASE Accept
  BY <1>1, AcceptStep, NoStepThere DEF VerifierStep, Accept, BytesMoved, msgVars
<1>2. CASE ReceiveLength(V, "session_length", "session")
  BY <1>2, SessionLengthStep, NoStepThere DEF VerifierStep, ReceiveLength, BytesMoved, msgVars
<1>3. CASE ReceiveSession
  BY <1>3, SessionStep, NoStepThere DEF VerifierStep, ReceiveSession, BytesMoved, msgVars
<1>4. CASE CheckSession
  BY <1>4, CheckSessionStep, NoStepThere DEF VerifierStep, CheckSession, BytesMoved, msgVars
<1>5. CASE ReceiveAnswer
  BY <1>5, AnswerStep, NoStepThere DEF VerifierStep, ReceiveAnswer, BytesMoved, msgVars
<1>6. CASE VerifierSends
  BY <1>6, VerifierSendsHere DEF VerifierStep, Session!Next
<1>7. CASE ReceivePhase(V)
  BY <1>7, VerifierPhaseStep, NoStepThere DEF VerifierStep, ReceivePhase, BytesMoved, msgVars
<1>8. CASE ReceiveLength(V, "length", "body")
  BY <1>8, VerifierLengthStep, NoStepThere DEF VerifierStep, ReceiveLength, BytesMoved, msgVars
<1>9. CASE ReceiveBody(V)
  BY <1>9, VerifierBodyStep, NoStepThere DEF VerifierStep, ReceiveBody, BytesMoved, msgVars
<1>10. CASE VerifierReceives
  BY <1>10, VerifierReceivesHere DEF VerifierStep, Session!Next
<1>11. CASE Verify
  BY <1>11, VerifyHere DEF VerifierStep, Session!Next
<1>12. CASE EndOfStream(V)
  BY <1>12, ExitHere, TwoParties DEF VerifierStep, EndOfStream
<1>13. CASE SendField(V)
  BY <1>13, SendFieldHere, TwoParties DEF VerifierStep
<1>. QED  BY <1>1, <1>2, <1>3, <1>4, <1>5, <1>6, <1>7, <1>8, <1>9, <1>10, <1>11, <1>12, <1>13
          DEF VerifierStep

LEMMA ProverHere ==
    ASSUME NetInv, Session!IInv, ProverStep
    PROVE  NetInv' /\ [Session!Next]_(Session!vars)
<1>1. CASE Connect
  BY <1>1, ConnectStep, NoStepThere DEF ProverStep, Connect, BytesMoved, msgVars
<1>2. CASE ConnectRefused
  BY <1>2, ExitHere, TwoParties DEF ProverStep, ConnectRefused
<1>3. CASE ReceiveAck
  BY <1>3, AckStep, NoStepThere DEF ProverStep, ReceiveAck, BytesMoved, msgVars
<1>4. CASE SendAnswer
  BY <1>4, SendAnswerStep, NoStepThere DEF ProverStep, SendAnswer, BytesMoved, msgVars
<1>5. CASE ReceivePhase(P)
  BY <1>5, ProverPhaseStep, NoStepThere DEF ProverStep, ReceivePhase, BytesMoved, msgVars
<1>6. CASE ReceiveLength(P, "length", "body")
  BY <1>6, ProverLengthStep, NoStepThere DEF ProverStep, ReceiveLength, BytesMoved, msgVars
<1>7. CASE ReceiveBody(P)
  BY <1>7, ProverBodyStep, NoStepThere DEF ProverStep, ReceiveBody, BytesMoved, msgVars
<1>8. CASE ProverReceives
  BY <1>8, ProverReceivesHere DEF ProverStep, Session!Next
<1>9. CASE ProverSends
  BY <1>9, ProverSendsHere DEF ProverStep, Session!Next
<1>10. CASE ReceiveDone
  BY <1>10, DoneStep, NoStepThere DEF ProverStep, ReceiveDone, BytesMoved, msgVars
<1>11. CASE ReceiveDecision
  BY <1>11, DecisionStep, NoStepThere DEF ProverStep, ReceiveDecision, BytesMoved
<1>12. CASE EndOfStream(P)
  BY <1>12, ExitHere, TwoParties DEF ProverStep, EndOfStream
<1>13. CASE SendField(P)
  BY <1>13, SendFieldHere, TwoParties DEF ProverStep
<1>. QED  BY <1>1, <1>2, <1>3, <1>4, <1>5, <1>6, <1>7, <1>8, <1>9, <1>10, <1>11, <1>12, <1>13
          DEF ProverStep

LEMMA StepHere ==
    ASSUME NetInv, Session!IInv, [Next]_vars
    PROVE  NetInv' /\ [Session!Next]_(Session!vars)
<1>1. CASE VerifierStep
  BY <1>1, VerifierHere
<1>2. CASE ProverStep
  BY <1>2, ProverHere
<1>3. CASE UNCHANGED vars
  <2>1. UNCHANGED <<verifierVars, proverVars, pc, alive, out, in, buf, tag, size,
                    msgVars, world>>
    BY <1>3 DEF vars, netVars
  <2>. QED  BY <2>1, ExitHere, TwoParties
<1>4. CASE \E x \in Parties : (Misframed(x) \/ Crash(x)) /\ UNCHANGED world
  <2>1. PICK x \in Parties : (Misframed(x) \/ Crash(x)) /\ UNCHANGED world
    BY <1>4
  <2>. QED  BY <2>1, ExitHere DEF Misframed, Crash
<1>. QED  BY <1>1, <1>2, <1>3, <1>4 DEF Next, Finished

\* The inductive invariant of the two processes, and the local driver's.
THEOREM NetworkInvariant == Spec => []NetInv /\ []Session!IInv
<1>1. Init => NetInv /\ Session!IInv
  BY InitHere, Session!InitInvariant, RepetitionsAssumption, DepthAssumption
<1>2. NetInv /\ Session!IInv /\ [Next]_vars => NetInv' /\ Session!IInv'
  BY StepHere, Session!StepInvariant, RepetitionsAssumption, DepthAssumption
<1>. QED  BY <1>1, <1>2, PTL DEF Spec

\* Headers that arrive whole keep the readers in step, however the texts are
\* split by recv and whatever sizes they have.
THEOREM StayInStep == Spec => []InStep
<1>1. NetInv => InStep
  BY DEF NetInv
<1>. QED  BY <1>1, NetworkInvariant, PTL

\* The tag of a message, made after the sender's phase has advanced, selects
\* all that the message holds.
THEOREM AllArrives == Spec => []NothingLost
<1>1. NetInv => NothingLost
  BY MessageRead DEF NothingLost
<1>. QED  BY <1>1, NetworkInvariant, PTL

\* The decision the prover prints is the verifier's.
THEOREM SameDecision == Spec => []DecisionAgreed
<1>1. NetInv => DecisionAgreed
  BY DEF NetInv, Decision, DecisionAgreed
<1>. QED  BY <1>1, NetworkInvariant, PTL

\* The two instances of the session's specification say the same.
LEMMA SendersLocal ==
    /\ VerifierSendFault <=> Local!VerifierSendFault
    /\ VerifierSend <=> Local!VerifierSend
    /\ VerifierMessage = Local!VerifierMessage
    /\ ProverSendFault <=> Local!ProverSendFault
    /\ ProverSend <=> Local!ProverSend
    /\ ProverMessage = Local!ProverMessage
<1>1. VerifierSendFault <=> Local!VerifierSendFault
  BY DEF VerifierSendFault, Local!VerifierSendFault
<1>2. VerifierSend <=> Local!VerifierSend
  BY DEF VerifierSend, Local!VerifierSend, advancePhase, Local!advancePhase
<1>3. VerifierMessage = Local!VerifierMessage
  BY DEF VerifierMessage, Local!VerifierMessage, verifierMsg, Local!verifierMsg,
         CarriesFriRequest, Local!CarriesFriRequest, NoExchange, Local!NoExchange,
         Nothing, Local!Nothing, FriRequest, Local!FriRequest, RS, Local!RS,
         doneConstructingProof, Local!doneConstructingProof, Depth, Local!Depth,
         HasQueries, Local!HasQueries
<1>4. ProverSendFault <=> Local!ProverSendFault
  BY DEF ProverSendFault, Local!ProverSendFault
<1>5. ProverSend <=> Local!ProverSend
  BY DEF ProverSend, Local!ProverSend, advancePhase, Local!advancePhase
<1>6. ProverMessage = Local!ProverMessage
  BY DEF ProverMessage, Local!ProverMessage, proverMsg, Local!proverMsg,
         NoExchange, Local!NoExchange, Nothing, Local!Nothing,
         NoOpening, Local!NoOpening, RS, Local!RS
<1>. QED  BY <1>1, <1>2, <1>3, <1>4, <1>5, <1>6

LEMMA ReceiversLocal ==
    /\ ProverReceiveFault(vMsg) <=> Local!ProverReceiveFault(vMsg)
    /\ ProverReceive(vMsg) <=> Local!ProverReceive(vMsg)
    /\ VerifierReceiveFault(pMsg) <=> Local!VerifierReceiveFault(pMsg)
    /\ VerifierReceive(pMsg) <=> Local!VerifierReceive(pMsg)
    /\ doneInteracting' <=> Local!doneInteracting'
    /\ verifyComitment <=> Local!verifyComitment
<1>1. ProverReceiveFault(vMsg) <=> Local!ProverReceiveFault(vMsg)
  BY DEF ProverReceiveFault, Local!ProverReceiveFault, RS, Local!RS,
         Nothing, Local!Nothing, Depth, Local!Depth
<1>2. ProverReceive(vMsg) <=> Local!ProverReceive(vMsg)
  BY DEF ProverReceive, Local!ProverReceive, ProverStart, Local!ProverStart,
         ProverRound, Local!ProverRound, RS, Local!RS,
         advancePhase, Local!advancePhase, dropsProofs, Local!dropsProofs,
         nextResponce, Local!nextResponce
<1>3. VerifierReceiveFault(pMsg) <=> Local!VerifierReceiveFault(pMsg)
  BY DEF VerifierReceiveFault, Local!VerifierReceiveFault, RS, Local!RS,
         doneConstructingProof, Local!doneConstructingProof, Depth, Local!Depth
<1>4. VerifierReceive(pMsg) <=> Local!VerifierReceive(pMsg)
  <2>1. KeepCommitments(pMsg) <=> Local!KeepCommitments(pMsg)
    BY DEF KeepCommitments, Local!KeepCommitments, advancePhase, Local!advancePhase
  <2>2. DigestResults(pMsg) <=> Local!DigestResults(pMsg)
    BY DEF DigestResults, Local!DigestResults, advancePhase, Local!advancePhase
  <2>3. ReceiveRound(pMsg) <=> Local!ReceiveRound(pMsg)
    BY DEF ReceiveRound, Local!ReceiveRound, RS, Local!RS, filedLayer, Local!filedLayer,
           doneConstructingProof, Local!doneConstructingProof, Depth, Local!Depth,
           FriPhaseOver, Local!FriPhaseOver, advancePhase, Local!advancePhase
  <2>. QED  BY <2>1, <2>2, <2>3 DEF VerifierReceive, Local!VerifierReceive
<1>5. doneInteracting' <=> Local!doneInteracting'
  BY DEF doneInteracting, Local!doneInteracting
<1>6. verifyComitment <=> Local!verifyComitment
  BY DEF verifyComitment, Local!verifyComitment, RS, Local!RS, Depth, Local!Depth
<1>. QED  BY <1>1, <1>2, <1>3, <1>4, <1>5, <1>6

LEMMA InitLocal == Session!Init => Local!Init
<1>1. Session!VerifierInit <=> Local!VerifierInit
  BY DEF Local!VerifierInit, Session!VerifierInit, Local!NoOpening, Session!NoOpening,
         Local!RS, Session!RS, Local!MaxDepth, Session!MaxDepth
<1>2. Session!ProverInit <=> Local!ProverInit
  BY DEF Local!ProverInit, Session!ProverInit, Local!NoOpening, Session!NoOpening,
         Local!RS, Session!RS, Local!NoExchange, Session!NoExchange,
         Local!Nothing, Session!Nothing
<1>3. Session!verifierMsg = Local!verifierMsg /\ Session!proverMsg = Local!proverMsg
  BY DEF Local!verifierMsg, Session!verifierMsg, Local!proverMsg, Session!proverMsg,
         Local!NoExchange, Session!NoExchange, Local!Nothing, Session!Nothing,
         Local!NoOpening, Session!NoOpening, Local!RS, Session!RS
<1>. QED  BY <1>1, <1>2, <1>3 DEF Session!Init, Local!Init

LEMMA StepLocal == [Session!Next]_(Session!vars) => [Local!Next]_(Local!vars)
<1>. USE DEF Local!verifierVars, Session!verifierVars, Local!proverVars, Session!proverVars
<1>1. Session!VerifierSends => Local!VerifierSends
  BY SendersShared, SendersLocal DEF Session!VerifierSends, Local!VerifierSends
<1>2. Session!ProverReceives => Local!ProverReceives
  BY ReceiversShared, ReceiversLocal DEF Session!ProverReceives, Local!ProverReceives
<1>3. Session!ProverSends => Local!ProverSends
  BY SendersShared, SendersLocal DEF Session!ProverSends, Local!ProverSends
<1>4. Session!VerifierReceives => Local!VerifierReceives
  BY ReceiversShared, ReceiversLocal DEF Session!VerifierReceives, Local!VerifierReceives
<1>5. Session!Verify => Local!Verify
  BY ReceiversShared, ReceiversLocal DEF Session!Verify, Local!Verify
<1>6. UNCHANGED Session!vars => UNCHANGED Local!vars
  BY DEF Session!vars, Local!vars, Session!sessionVars, Local!sessionVars
<1>7. Session!Finished => Local!Finished
  BY <1>6 DEF Session!Finished, Local!Finished
<1>. QED  BY <1>1, <1>2, <1>3, <1>4, <1>5, <1>6, <1>7 DEF Session!Next, Local!Next

\* Whatever the network does, and whenever a process is killed, the two
\* programs take the steps of the local driver, in its order, or fewer.
THEOREM LocalImplemented == Spec => ImplementsLocal
<1>1. Init => Local!Init
  BY InitHere, InitLocal
<1>2. NetInv /\ Session!IInv /\ [Next]_vars => [Local!Next]_(Local!vars)
  BY StepHere, StepLocal
<1>. QED  BY <1>1, <1>2, NetworkInvariant, PTL DEF Spec, ImplementsLocal, Local!Spec

\* And so what is proved of a run in one process holds of two: no handler
\* meets a fault, an honest run is accepted, and every coin is revealed after
\* what it protects was committed to.
THEOREM SessionInherited ==
    Spec => /\ []Session!NeverAborted /\ []Session!HonestRunAccepted
            /\ Session!ImplementsTranscript
<1>1. Init => Session!Init
  BY InitHere
<1>2. NetInv /\ Session!IInv /\ [Next]_vars => [Session!Next]_(Session!vars)
  BY StepHere
<1>3. Spec => Session!Spec
  BY <1>1, <1>2, NetworkInvariant, PTL DEF Spec, Session!Spec
<1>4. Session!Spec => []Session!NeverAborted
  BY Session!NoAbort, RepetitionsAssumption, DepthAssumption
<1>5. Session!Spec => []Session!HonestRunAccepted
  BY Session!HonestAccepted, RepetitionsAssumption, DepthAssumption
<1>6. Session!Spec => Session!ImplementsTranscript
  BY Session!TranscriptOrder, RepetitionsAssumption, DepthAssumption
<1>. QED  BY <1>3, <1>4, <1>5, <1>6
=============================================================================

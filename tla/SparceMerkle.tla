---------------------------- MODULE SparceMerkle ----------------------------
(***************************************************************************)
(* One queried matrix between the two parties: the prover collects the     *)
(* queried pairs of blocks and their paths in a SparceMerkleTree and sends *)
(* its digests as a plain vector; the verifier, who knows the indices it   *)
(* asked for, computes where each digest belongs, puts them back, computes *)
(* the root, compares it with the commitment and hands the queried blocks  *)
(* to whoever asked for them.  Neither the indices nor the shape of the    *)
(* tree travel: both parties derive them, the prover from pairs and the    *)
(* verifier from blocks.                                                   *)
(*                                                                         *)
(* The prover has kept the heap of the whole matrix, or only the roots of  *)
(* its cosets; then it evaluates the queried cosets again and joins the    *)
(* paths inside a coset with the path of the coset.                        *)
(***************************************************************************)
EXTENDS MerkleHash, SequencesExt

CONSTANTS
    LogLen,       \* log of the number of blocks
    Source(_),    \* the committed data, by block
    MaxQueries    \* bound on the blocks queried at a time

Blocks  == 0..POW2(LogLen) - 1
Layers  == 0..LogLen - 1
Data    == [b \in Blocks |-> Source(b)]
Tree    == Heights(Data, LogLen)

\* A SparceMerkleLayer: digests by index.
Empty        == [idx \in {} |-> Garbage]
EmptyLayers  == [l \in Layers |-> Empty]
Overlay(new, old) ==
    [i \in DOMAIN new \cup DOMAIN old |-> IF i \in DOMAIN new THEN new[i] ELSE old[i]]
addEntry(layer, idx, d) == Overlay([i \in {idx} |-> d], layer)
HasPair(layer, idx) == {2 * idx, 2 * idx + 1} \subseteq DOMAIN layer

VARIABLES
    queries,      \* the blocks the verifier asks for: the keys of queries
    logCosets,    \* log of the number of cosets when only their roots were
                  \* kept, 0 when the whole heap was
    todo,         \* the pairs that have no path in the results tree yet
    resultsTree,  \* the prover's SparceMerkleTree
    results,      \* the vector on its way
    honest,       \* it is the one the prover sent
    view,         \* the verifier's SparceMerkleTree
    stage,
    answers,      \* what fetchResults handed out
    accepted      \* verifyComitment

vars == <<queries, logCosets, todo, resultsTree, results, honest, view, stage,
          answers, accepted>>

getRawQuery(blocks) == {ShiftRight(b, 1) : b \in blocks}

Init ==
    /\ queries = {} /\ logCosets = 0 /\ todo = {}
    /\ resultsTree = EmptyLayers /\ view = EmptyLayers
    /\ results = <<>> /\ honest = TRUE
    /\ stage = "unasked" /\ answers = Empty /\ accepted = FALSE

ReceiveQueries(cosets) ==
    /\ stage = "unasked" /\ stage' = "answer"
    /\ queries' \in UNION {kSubset(k, Blocks) : k \in 0..MaxQueries}
    /\ logCosets' = cosets
    /\ todo' = getRawQuery(queries')
    /\ UNCHANGED <<resultsTree, results, honest, view, answers, accepted>>

-----------------------------------------------------------------------------
(* Paths. *)

\* getPathToBlock: from the leaf's parent up, the twin of every node.
getPathToBlock(tree, logLen, block) ==
    [i \in 1..logLen - 1 |-> tree[i][Twin(ShiftRight(block, i))]]

\* fillBoundaryResults: where the pair is in its coset, what
\* getPathToBlocksInPlace says there (MerkleInPlace), the root of the twin
\* coset, and the path of the coset in the tree over the cosets' roots.
cosetLen == LogLen - logCosets
mutTopPath(top, coset) == <<top[0][coset]>> \o getPathToBlock(top, logCosets, coset)
TopPath(top, coset) == <<top[0][Twin(coset)]>> \o getPathToBlock(top, logCosets, coset)

PathByCosets(pair) ==
    LET coset == ShiftRight(pair, cosetLen - 1)
        local == pair % POW2(cosetLen - 1)
        eval  == [b \in 0..POW2(cosetLen) - 1 |-> Data[coset * POW2(cosetLen) + b]]
        top   == Heights([c \in 0..POW2(logCosets) - 1 |-> Tree[cosetLen][c]], logCosets)
    IN  MerklePath(eval, cosetLen, local) \o TopPath(top, coset)

PathOf(pair) == IF logCosets = 0 THEN getPathToBlock(Tree, LogLen, 2 * pair)
                ELSE PathByCosets(pair)

-----------------------------------------------------------------------------
(* Serialisation. *)

\* Which indices of a layer are known, and whether they are in the vector
\* (explicit) or computed from the layer below.
Known(indices) ==
    LET known[l \in Layers] ==
            IF l = 0
            THEN [explicit |-> indices \cup {Twin(i) : i \in indices}, implied |-> {}]
            ELSE LET below   == known[l - 1].explicit \cup known[l - 1].implied
                     implied == {ShiftRight(i, 1) : i \in below}
                 IN  [explicit |-> {Twin(i) : i \in implied} \ implied, implied |-> implied]
    IN  known

\* Layer by layer, by index within a layer.
getSerializationMapping(indices) ==
    LET known    == Known(indices)
        entries  == UNION {{<<l, i>> : i \in known[l].explicit} : l \in Layers}
        rank(p)  == Cardinality({q \in entries : \/ q[1] < p[1]
                                                 \/ q[1] = p[1] /\ q[2] <= p[2]})
    IN  [n \in 1..Cardinality(entries) |-> CHOOSE p \in entries : rank(p) = n]

Present(layers, mapping) ==
    \A n \in DOMAIN mapping : mapping[n][2] \in DOMAIN layers[mapping[n][1]]

toVector(layers, mapping) == [n \in DOMAIN mapping |-> layers[mapping[n][1]][mapping[n][2]]]

DeSerialize(layers, mapping, vector) ==
    [l \in Layers |->
        Overlay([i \in {mapping[n][2] : n \in {k \in DOMAIN mapping : mapping[k][1] = l}} |->
                    vector[CHOOSE n \in DOMAIN mapping : mapping[n] = <<l, i>>]],
                layers[l])]

\* calculateNextLayer for every layer: what is computed replaces what was
\* received.  Every second entry is skipped, as its mate covers it.
Covered(layer) ==
    {ShiftRight(i, 1) : i \in {k \in DOMAIN layer :
                                  Cardinality({j \in DOMAIN layer : j < k}) % 2 = 0}}

NextLayer(layer, received) ==
    Overlay([j \in Covered(layer) |-> Hash(layer[2 * j], layer[2 * j + 1])], received)

Computed(layers) ==
    LET curr[l \in Layers] == IF l = 0 THEN layers[0] ELSE NextLayer(curr[l - 1], layers[l])
    IN  curr

\* hashPair reads both entries with at().
Complete(layers) ==
    LET curr == Computed(layers)
    IN  /\ \A l \in Layers : \A j \in Covered(curr[l]) : HasPair(curr[l], j)
        /\ HasPair(curr[LogLen - 1], 0)

calculateRoot(layers) ==
    LET top == Computed(layers)[LogLen - 1] IN Hash(top[0], top[1])

-----------------------------------------------------------------------------
(* The prover. *)

\* addPath, once for every queried pair.  Cosets are answered in parallel and
\* add their paths in a critical section, in any order.
addPath(layers, pair, path) ==
    [l \in Layers |->
        IF l = 0
        THEN addEntry(addEntry(layers[0], 2 * pair, Data[2 * pair]), 2 * pair + 1, Data[2 * pair + 1])
        ELSE addEntry(layers[l], Twin(ShiftRight(pair, l - 1)), path[l])]

AnswerQuery(pair) ==
    /\ stage = "answer" /\ pair \in todo
    /\ resultsTree' = addPath(resultsTree, pair, PathOf(pair))
    /\ todo' = todo \ {pair}
    /\ UNCHANGED <<queries, logCosets, results, honest, view, stage, answers, accepted>>

\* toVector derives the shape from the indices it holds.
SendResults ==
    /\ stage = "answer" /\ todo = {}
    /\ LET mapping == getSerializationMapping(DOMAIN resultsTree[0])
       IN  IF Present(resultsTree, mapping)
           THEN results' = toVector(resultsTree, mapping) /\ stage' = "sent"
           ELSE stage' = "aborted" /\ UNCHANGED results
    /\ UNCHANGED <<queries, logCosets, todo, resultsTree, honest, view, answers, accepted>>

\* The verifier need not believe the vector: one digest may be another one,
\* or the vector one digest short.
Falsify ==
    /\ stage = "sent" /\ honest /\ results # <<>>
    /\ \/ \E n \in DOMAIN results : \E d \in ({Garbage} \cup Range(results)) \ {results[n]} :
            results' = [results EXCEPT ![n] = d]
       \/ results' = Front(results)
    /\ honest' = FALSE
    /\ UNCHANGED <<queries, logCosets, todo, resultsTree, view, stage, answers, accepted>>

-----------------------------------------------------------------------------
(* The verifier: digestResults, verifyComitment, fetchResults. *)

mutDigest(indices) == getSerializationMapping(getRawQuery(indices))
Expected(indices) == getSerializationMapping(indices)

DigestResults ==
    /\ stage = "sent"
    /\ IF queries = {}
       THEN stage' = "digested" /\ UNCHANGED view
       ELSE IF Len(results) # Len(Expected(queries))
            THEN stage' = "aborted" /\ UNCHANGED view
            ELSE /\ view' = DeSerialize(view, Expected(queries), results)
                 /\ stage' = "digested"
    /\ UNCHANGED <<queries, logCosets, todo, resultsTree, results, honest, answers, accepted>>

\* A buffer that was not queried is not checked.
mutVerify == IF queries = {} THEN TRUE ELSE \A b \in queries : b \in DOMAIN view[0]
verifyComitment == IF queries = {} THEN TRUE
                   ELSE calculateRoot(view) = Tree[LogLen][0]

Verify ==
    /\ stage = "digested"
    /\ IF queries # {} /\ ~Complete(view)
       THEN stage' = "aborted" /\ UNCHANGED <<answers, accepted>>
       ELSE /\ accepted' = verifyComitment
            /\ answers'  = [b \in queries |-> view[0][b]]
            /\ stage'    = "decided"
    /\ UNCHANGED <<queries, logCosets, todo, resultsTree, results, honest, view>>

Finished == stage \in {"decided", "aborted"} /\ UNCHANGED vars

Next == (\E cosets \in Layers : ReceiveQueries(cosets))
        \/ (\E p \in todo : AnswerQuery(p)) \/ SendResults \/ Falsify
        \/ DigestResults \/ Verify \/ Finished

Spec == Init /\ [][Next]_vars

-----------------------------------------------------------------------------
\* What an honest prover sends has the shape the verifier expects, although
\* one derives it from pairs and the other from blocks, and every digest a
\* computation of either looks up is there.
ShapesAgree ==
    /\ honest => stage # "aborted"
    /\ stage = "sent" /\ honest => Len(results) = Len(Expected(queries))

\* An honest answer, in whatever order and way its paths were found, leads to
\* the commitment.
HonestAccepted == stage = "decided" /\ honest => accepted

\* An accepted answer is the committed data, whoever sent it.
AcceptedIsCommitted ==
    stage = "decided" /\ accepted => \A b \in queries : answers[b] = Data[b]
=============================================================================

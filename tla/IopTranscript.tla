--------------------------- MODULE IopTranscript ---------------------------
(***************************************************************************)
(* What the verifier of an interactive oracle proof owes its own coins.    *)
(* The prover commits to an input oracle and, per chain (a FRI instance),  *)
(* to a sequence of layers; the verifier answers every commitment with     *)
(* fresh randomness, and a coin protects only what was committed before it *)
(* was revealed.  The order below is the whole content of this module: who *)
(* sends what in which message is left to the implementations.             *)
(***************************************************************************)
EXTENDS Integers

CONSTANTS Chains,   \* the FRI instances
          Layers    \* Layers[c]: how many layers chain c commits to

VARIABLES
    committed,        \* the input oracles are committed
    challenged,       \* the random coefficients are revealed
    layerCommitted,   \* per chain, how many layers are committed
    layerChallenged,  \* per chain, how many layers' columns are revealed
    queried,          \* per chain, whether its query positions are revealed
    answered,         \* per chain, whether its data is received
    inputQueried,     \* the query positions in the input are revealed
    inputAnswered,    \* their values are received
    decision

vars == <<committed, challenged, layerCommitted, layerChallenged, queried,
          answered, inputQueried, inputAnswered, decision>>

Init ==
    /\ committed       = FALSE
    /\ challenged      = FALSE
    /\ layerCommitted  = [c \in Chains |-> 0]
    /\ layerChallenged = [c \in Chains |-> 0]
    /\ queried         = [c \in Chains |-> FALSE]
    /\ answered        = [c \in Chains |-> FALSE]
    /\ inputQueried    = FALSE
    /\ inputAnswered   = FALSE
    /\ decision        = "none"

CommitInput ==
    /\ ~committed
    /\ committed' = TRUE
    /\ UNCHANGED <<challenged, layerCommitted, layerChallenged, queried,
                   answered, inputQueried, inputAnswered, decision>>

\* Coins may be revealed for any set of chains at once: the columns of a
\* layer when the layers before it are committed, the positions queried in a
\* chain when all its layers are.
Reveal ==
    /\ committed /\ ~inputQueried
    /\ challenged' = TRUE
    /\ layerChallenged' \in [Chains -> Nat]
    /\ queried' \in [Chains -> BOOLEAN]
    /\ \A c \in Chains :
         /\ \/ layerChallenged'[c] = layerChallenged[c]
            \/ /\ layerChallenged[c] = layerCommitted[c]
               /\ layerCommitted[c] < Layers[c]
               /\ layerChallenged'[c] = layerCommitted[c] + 1
         /\ \/ queried'[c] = queried[c]
            \/ layerCommitted[c] = Layers[c] /\ queried'[c]
    /\ UNCHANGED <<committed, layerCommitted, answered, inputQueried,
                   inputAnswered, decision>>

\* A layer is committed once, after its columns; data comes after queries.
Respond ==
    /\ challenged /\ ~inputQueried
    /\ layerCommitted' \in [Chains -> Nat]
    /\ answered' \in [Chains -> BOOLEAN]
    /\ \A c \in Chains :
         /\ layerCommitted'[c] \in {layerCommitted[c], layerChallenged[c]}
         /\ answered'[c] # answered[c] => queried[c] /\ answered'[c]
    /\ UNCHANGED <<committed, challenged, layerChallenged, queried,
                   inputQueried, inputAnswered, decision>>

\* The input is opened last: its positions give away those of the chains.
QueryInput ==
    /\ \A c \in Chains : answered[c]
    /\ ~inputQueried
    /\ inputQueried' = TRUE
    /\ UNCHANGED <<committed, challenged, layerCommitted, layerChallenged,
                   queried, answered, inputAnswered, decision>>

AnswerInput ==
    /\ inputQueried /\ ~inputAnswered
    /\ inputAnswered' = TRUE
    /\ UNCHANGED <<committed, challenged, layerCommitted, layerChallenged,
                   queried, answered, inputQueried, decision>>

Decide ==
    /\ inputAnswered
    /\ decision = "none"
    /\ decision' \in {"accept", "reject"}
    /\ UNCHANGED <<committed, challenged, layerCommitted, layerChallenged,
                   queried, answered, inputQueried, inputAnswered>>

Next == CommitInput \/ Reveal \/ Respond \/ QueryInput \/ AnswerInput \/ Decide

Spec == Init /\ [][Next]_vars
=============================================================================

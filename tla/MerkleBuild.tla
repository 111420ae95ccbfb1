---------------------------- MODULE MerkleBuild -----------------------------
(***************************************************************************)
(* The two ways the prover commits to the witness matrix                   *)
(* (boundaryPolysEvaluation).  When the machine's memory holds the whole   *)
(* evaluation it is kept and hashed as MerkleTree describes; when it does  *)
(* not, each coset is evaluated into a buffer and hashed inside it as      *)
(* MerkleInPlace describes, when it is committed to and again when it is   *)
(* queried.  How much memory there is decides.                             *)
(***************************************************************************)
EXTENDS MerkleHash

CONSTANTS
    LogMatrix,   \* log of the number of blocks in the matrix
    LogCoset,    \* log of the number of blocks in a coset
    Source(_)    \* the evaluation, by block

ASSUME LogLenAssumption == {LogMatrix, LogCoset} \subseteq Nat \ {0}

VARIABLES
    entireWitnessKept,
    logSegments, matrix, tree, stage, row, did, root,   \* MerkleTree
    buffer, step, moved, hashed, res                    \* MerkleInPlace

treeVars  == <<logSegments, matrix, tree, stage, row, did, root>>
cosetVars == <<buffer, step, moved, hashed, res>>
vars      == <<entireWitnessKept, treeVars, cosetVars>>

Matrix == INSTANCE MerkleTree WITH LogLen <- LogMatrix, data <- matrix
Coset  == INSTANCE MerkleInPlace WITH LogLen <- LogCoset, data <- buffer

Init ==
    \/ /\ entireWitnessKept = TRUE /\ Matrix!Init
       /\ buffer = <<>> /\ step = 0 /\ moved = {} /\ hashed = {} /\ res = <<>>
    \/ /\ entireWitnessKept = FALSE /\ Coset!Init
       /\ logSegments = 0 /\ matrix = <<>> /\ tree = <<>> /\ stage = "none"
       /\ row = <<>> /\ did = <<>> /\ root = Garbage

Next ==
    /\ UNCHANGED entireWitnessKept
    /\ \/ entireWitnessKept /\ Matrix!Next /\ UNCHANGED cosetVars
       \/ ~entireWitnessKept /\ Coset!Next /\ UNCHANGED treeVars

Spec == Init /\ [][Next]_vars

-----------------------------------------------------------------------------
\* Whatever the segments and the schedule, the kept heap is the tree over the
\* evaluation and its root the commitment (getFinalHash).
TreeRight  == entireWitnessKept => Matrix!TreeRight

\* No iteration of constructMerkleTree runs before those that write what it
\* reads, although segments are hashed by tasks of their own.
ReadsFinal == entireWitnessKept => Matrix!ReadsFinal

\* What the buffer gives up on the way is the root and the paths of the tree
\* over the coset.
PathsRight == ~entireWitnessKept => Coset!PathsRight
=============================================================================

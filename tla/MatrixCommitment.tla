-------------------------- MODULE MatrixCommitment --------------------------
(***************************************************************************)
(* The witness matrix from its commitment to the decision about an answer: *)
(* MerkleBuild and then SparceMerkle.  The prover hashes the matrix, kept  *)
(* or coset by coset; once the commitment is out, the verifier asks for    *)
(* blocks, and the answer is found in the heap that was kept or by joining *)
(* paths inside cosets with paths over the cosets' roots.                  *)
(*                                                                         *)
(* Hashing in place is followed in one coset of LogCoset blocks; answers   *)
(* are joined for cosets of every size.                                    *)
(***************************************************************************)
EXTENDS MerkleBuild

CONSTANT MaxQueries    \* bound on the blocks queried at a time

VARIABLES queries, logCosets, todo, resultsTree, results, honest, view,
          answerStage, answers, accepted
answerVars == <<queries, logCosets, todo, resultsTree, results, honest, view,
                answerStage, answers, accepted>>

Answer == INSTANCE SparceMerkle WITH LogLen <- LogMatrix, stage <- answerStage

CommitInit == Init /\ Answer!Init

Build == answerStage = "unasked" /\ Next /\ UNCHANGED answerVars

\* The heap is complete, or the root of a coset is: getMerkleCommitmentInplace
\* asks for no paths.
Committed == IF entireWitnessKept THEN stage = "done"
             ELSE step > LogCoset /\ DOMAIN res = {}

\* The queries reach fillResults when the commitment is out; how they are
\* answered depends on what was kept.
Respond ==
    /\ answerStage = "unasked" => Committed
    /\ Answer!Next
    /\ entireWitnessKept <=> logCosets' = 0
    /\ UNCHANGED vars

MatrixNext == Build \/ Respond

MatrixSpec == CommitInit /\ [][MatrixNext]_<<vars, answerVars>>

-----------------------------------------------------------------------------
\* What an honest prover sends has the shape the verifier expects, although
\* one derives it from pairs and the other from blocks, and every digest a
\* computation of either looks up is there (getSerializationMapping).
ShapesAgree == Answer!ShapesAgree

\* An honest answer, in whatever order and way its paths were found, leads to
\* the commitment (answerQueries and fillBoundaryResults against
\* verifyComitment).
HonestAccepted == Answer!HonestAccepted

\* An accepted answer is the committed data, whoever sent it (fetchResults).
AcceptedIsCommitted == Answer!AcceptedIsCommitted
=============================================================================

---------------------------- MODULE MerkleInPlace ---------------------------
(***************************************************************************)
(* getPathToBlocksInPlace and getMerkleCommitmentInplace: the tree over    *)
(* one coset is hashed inside the buffer that holds the coset, when memory *)
(* does not allow the whole heap.  After step s the multiples of POW2(s)   *)
(* hold the digests at height s and everything between them is scratch.    *)
(* An iteration of the OpenMP loop of a step moves its right digest next   *)
(* to its left one and hashes the two into the left one; iterations are    *)
(* interleaved here move by move and hash by hash.                         *)
(***************************************************************************)
EXTENDS MerkleHash

CONSTANTS
    LogLen,       \* logLen: log of the number of blocks in the buffer
    Source(_)     \* what the buffer holds at first

Blocks == 0..POW2(LogLen) - 1
Pairs  == 0..POW2(LogLen - 1) - 1

VARIABLES
    data,       \* data
    step,       \* currStepLog
    moved,      \* the iterations of this step that moved their right digest
    hashed,     \* ... and those that are done
    res         \* res, for every pair that is asked for ({} for
                \* getMerkleCommitmentInplace, which collects nothing)

vars == <<data, step, moved, hashed, res>>

Init ==
    /\ data = [b \in Blocks |-> Source(b)]
    /\ step = 1 /\ moved = {} /\ hashed = {}
    /\ \E asked \in SUBSET Pairs : res = [q \in asked |-> <<>>]

Iterations == {i \in Blocks : i % POW2(step) = 0}

MoveRight(i) ==
    /\ step <= LogLen /\ i \in Iterations \ moved
    /\ data'  = [data EXCEPT ![i + 1] = data[i + POW2(step - 1)]]
    /\ moved' = moved \cup {i}
    /\ UNCHANGED <<step, hashed, res>>

HashPair(i) ==
    /\ i \in moved \ hashed
    /\ data'   = [data EXCEPT ![i] = Hash(data[i], data[i + 1])]
    /\ hashed' = hashed \cup {i}
    /\ UNCHANGED <<step, moved, res>>

\* The twin of the ancestor of pair q among the digests of this step.  The
\* callers pass pairs, although the parameter is called blockIndices.
mutTwinLocation(q) == Twin(ShiftRight(q, step)) * POW2(step)
TwinLocation(q) == Twin(ShiftRight(q, step - 1)) * POW2(step)

\* The join of a step, and the loop that collects paths: not at the root.
EndStep ==
    /\ step <= LogLen /\ hashed = Iterations
    /\ res' = IF step = LogLen THEN res
              ELSE [q \in DOMAIN res |-> Append(res[q], data[TwinLocation(q)])]
    /\ step' = step + 1 /\ moved' = {} /\ hashed' = {}
    /\ UNCHANGED data

Finished == step > LogLen /\ UNCHANGED vars

Next == EndStep \/ Finished \/ \E i \in Blocks : MoveRight(i) \/ HashPair(i)

Spec == Init /\ [][Next]_vars

-----------------------------------------------------------------------------
Tree == Heights([b \in Blocks |-> Source(b)], LogLen)

\* The commitment of the coset is the root of its tree, and the paths are
\* those a stored heap would give, although every row is gone by the time the
\* next one exists.
PathsRight ==
    step > LogLen =>
        /\ data[0] = Tree[LogLen][0]
        /\ \A q \in DOMAIN res :
               res[q] = MerklePath([b \in Blocks |-> Source(b)], LogLen, q)
=============================================================================

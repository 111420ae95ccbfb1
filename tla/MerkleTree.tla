----------------------------- MODULE MerkleTree -----------------------------
(***************************************************************************)
(* Construction of the heap of hashes behind a commitment (proofs.cpp,     *)
(* MerkleCommitment.cpp).  tree[1] is the root and tree[i] hashes tree[2i] *)
(* and tree[2i+1]; the last row hashes pairs of data blocks.               *)
(*                                                                         *)
(* getFinalHash gives each segment of the data to a task of an OpenMP loop *)
(* that computes the segment and its subtree, row by row; after the join   *)
(* finishTreeAfterSegments hashes what is above the segments.  The other   *)
(* constructor hashes data that is already there with one call of          *)
(* constructMerkleTree.  Every row is an OpenMP loop of its own, so its    *)
(* iterations come in any order; a row begins after the one below it in    *)
(* the same call.  One action is one iteration: it reads two digests and   *)
(* writes one, and no other task touches what it reads or writes           *)
(* (ReadsFinal, WritesOnce), so a finer grain shows nothing more.          *)
(***************************************************************************)
EXTENDS MerkleHash

CONSTANTS
    LogLen,      \* logSizeBytes_ - logBytesPerHash: log of the number of blocks
    Source(_)    \* the data the segment constructor computes, by block

Blocks == 0..POW2(LogLen) - 1
Nodes  == 1..POW2(LogLen) - 1

VARIABLES
    logSegments,  \* log of the number of segments
    data,         \* data_
    tree,         \* tree_, as new[] leaves it
    stage,        \* "segments": in getFinalHash's loop; "top": in
                  \* constructMerkleTree on behalf of the constructor
    row,          \* per task, log of the row of the heap it is writing
    did,          \* per task, the iterations of this row that are done
    root          \* root_

vars == <<logSegments, data, tree, stage, row, did, root>>

Segments == 0..POW2(logSegments) - 1
Top      == -1      \* the caller, outside the loop over the segments
Tasks    == Segments \cup {Top}

\* A segment has at least one pair of blocks (the assertion of
\* constructMerkleSubTree).
Init ==
    /\ tree = [i \in Nodes |-> Garbage]
    /\ root = Garbage
    /\ \/ /\ stage = "segments"
          /\ logSegments \in 0..LogLen - 1
          /\ data = [b \in Blocks |-> Garbage]
          /\ row  = [t \in Tasks |-> IF t = Top THEN logSegments - 1 ELSE LogLen]
       \/ /\ stage = "top"
          /\ logSegments = LogLen
          /\ data = [b \in Blocks |-> Source(b)]
          /\ row  = [t \in Tasks |-> LogLen - 1]
    /\ did = [t \in Tasks |-> {}]

\* The part of row r that a task writes, relative to the start of the row.
Slice(t, r) == IF t = Top THEN 0..POW2(r) - 1
               ELSE LET len == POW2(r - logSegments)
                    IN  len * t..len * (t + 1) - 1

\* Where an iteration of row r reads: the row below, or the data.
Below(r, k) == IF r = LogLen - 1 THEN data[k] ELSE tree[POW2(r + 1) + k]

\* sigmentConstructor_t: it fills its part of the buffer.
ConstructSegment(s) ==
    /\ stage = "segments" /\ row[s] = LogLen
    /\ data' = [b \in Blocks |->
                   IF ShiftRight(b, LogLen - logSegments) = s THEN Source(b) ELSE data[b]]
    /\ row'  = [row EXCEPT ![s] = LogLen - 1]
    /\ UNCHANGED <<logSegments, tree, stage, did, root>>

\* One iteration of a row's loop; the last one ends the row.
HashNode(t, k) ==
    LET r == row[t]
    IN  /\ k \in Slice(t, r) \ did[t]
        /\ tree' = [tree EXCEPT ![POW2(r) + k] = Hash(Below(r, 2 * k), Below(r, 2 * k + 1))]
        /\ IF did[t] \cup {k} = Slice(t, r)
           THEN /\ row' = [row EXCEPT ![t] = r - 1]
                /\ did' = [did EXCEPT ![t] = {}]
           ELSE /\ did' = [did EXCEPT ![t] = @ \cup {k}]
                /\ UNCHANGED row
        /\ UNCHANGED <<logSegments, data, stage, root>>

\* The rows of a segment's subtree end with its root, in row logSegments.
mutSegmentOver(s) == row[s] <= logSegments
SegmentOver(s) == row[s] < logSegments

constructMerkleSubTree(s, k) ==
    /\ stage = "segments" /\ row[s] < LogLen /\ ~SegmentOver(s)
    /\ HashNode(s, k)

\* The join of the loop over the segments, and finishTreeAfterSegments: with
\* one segment tree_[1] is the root already.
mutFinish ==
    /\ stage = "segments" /\ \E s \in Segments : SegmentOver(s)
    /\ IF logSegments = 0
       THEN stage' = "done" /\ root' = tree[1]
       ELSE stage' = "top" /\ UNCHANGED root
    /\ UNCHANGED <<logSegments, data, tree, row, did>>
finishTreeAfterSegments ==
    /\ stage = "segments" /\ \A s \in Segments : SegmentOver(s)
    /\ IF logSegments = 0
       THEN stage' = "done" /\ root' = tree[1]
       ELSE stage' = "top" /\ UNCHANGED root
    /\ UNCHANGED <<logSegments, data, tree, row, did>>

constructMerkleTree(k) == stage = "top" /\ row[Top] >= 0 /\ HashNode(Top, k)

ReturnRoot ==
    /\ stage = "top" /\ row[Top] < 0
    /\ stage' = "done" /\ root' = tree[1]
    /\ UNCHANGED <<logSegments, data, tree, row, did>>

Finished == stage = "done" /\ UNCHANGED vars

Next ==
    \/ \E s \in Segments : ConstructSegment(s)
    \/ \E s \in Segments : \E k \in Blocks : constructMerkleSubTree(s, k)
    \/ \E k \in Blocks : constructMerkleTree(k)
    \/ finishTreeAfterSegments \/ ReturnRoot \/ Finished

Spec == Init /\ [][Next]_vars

-----------------------------------------------------------------------------
\* Every task works on a row it has not finished.
TypeOK ==
    /\ logSegments \in 0..LogLen /\ stage \in {"segments", "top", "done"}
    /\ DOMAIN data = Blocks /\ DOMAIN tree = Nodes
    /\ row \in [Tasks -> -1..LogLen]
    /\ DOMAIN did = Tasks
    /\ \A t \in Tasks :
          did[t] # {} => /\ row[t] >= IF t = Top THEN 0 ELSE logSegments
                         /\ did[t] \subseteq Slice(t, row[t]) /\ did[t] # Slice(t, row[t])

\* Whatever the segments and the schedule, the commitment is the root of the
\* tree over the data, what the verifier will recompute from paths; and every
\* node is right, as getPathToBlock takes the twins of any of them.
TreeRight ==
    stage = "done" =>
        /\ root = MerkleRoot([b \in Blocks |-> Source(b)], LogLen)
        /\ \A h \in 1..LogLen : \A j \in 0..POW2(LogLen - h) - 1 :
               tree[POW2(LogLen - h) + j] = Heights([b \in Blocks |-> Source(b)], LogLen)[h][j]

\* At every moment, a node that was written hashes what is below it now, and
\* that was written too: no iteration ran before the tasks that write what it
\* reads.
NodeDone(i) == tree[i] # Garbage
ReadsFinal ==
    \A i \in Nodes : NodeDone(i) =>
        IF 2 * i \in Nodes
        THEN /\ NodeDone(2 * i) /\ NodeDone(2 * i + 1)
             /\ tree[i] = Hash(tree[2 * i], tree[2 * i + 1])
        ELSE LET b == 2 * i - POW2(LogLen)
             IN  /\ data[b] = Source(b) /\ data[b + 1] = Source(b + 1)
                 /\ tree[i] = Hash(data[b], data[b + 1])
=============================================================================

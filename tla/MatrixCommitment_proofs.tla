------------------------ MODULE MatrixCommitment_proofs ------------------------
(***************************************************************************)
(* Proofs about MatrixCommitment for matrices of every size, any number of *)
(* queried blocks, every way of keeping the matrix and every schedule: the *)
(* trees behind the commitment are right, an honest answer has the shape   *)
(* the verifier expects and is accepted, and, when the hash has no         *)
(* collisions, what is accepted is what was committed to.                  *)
(*                                                                         *)
(* The parties never exchange the shape of an answer.  The argument gives  *)
(* it in closed form (Above, Explicit), shows that what each party derives *)
(* from what it holds is that shape (KnownIs, ShapeOfPairs), and then      *)
(* follows the digests up and down the layers.                             *)
(*                                                                         *)
(* The first part is about MerkleBuild, for cosets of every size and every *)
(* number of segments: a stored heap is the tree over the evaluation, and  *)
(* hashing in place gives up its root and its paths.  Both inductive       *)
(* invariants say, for every place, what is in it now in terms of the tree *)
(* (Heights) and of how far the tasks have come.                           *)
(***************************************************************************)
EXTENDS MatrixCommitment, NaturalLemmas

-----------------------------------------------------------------------------
\* The tree over a sequence of blocks is the function its definition asks for:
\* every height follows from the one below.
HeightFrom(D, n, H, h) ==
    IF h = 0 THEN D
    ELSE [j \in 0..2^(n - h) - 1 |-> Hash(H[h - 1][2 * j], H[h - 1][2 * j + 1])]

LEMMA HeightsDefined ==
    ASSUME NEW D, NEW n \in Nat
    PROVE  LET H == Heights(D, n)
           IN  H = [h \in 0..n |-> HeightFrom(D, n, H, h)]
<1>. DEFINE UpTo(H, m) == H = [h \in 0..m |-> HeightFrom(D, n, H, h)]
            S == {m \in Nat : \E H : UpTo(H, m)}
<1>1. 0 \in S
  <2>. DEFINE H == [h \in 0..0 |-> D]
  <2>1. UpTo(H, 0)
    BY DEF HeightFrom
  <2>. QED  BY <2>1
<1>2. ASSUME NEW m \in Nat, m \in S PROVE m + 1 \in S
  <2>1. PICK F : UpTo(F, m)
    BY <1>2
  <2>. DEFINE G == [h \in 0..m + 1 |-> IF h = m + 1 THEN HeightFrom(D, n, F, m + 1) ELSE F[h]]
  <2>2. ASSUME NEW h \in 0..m + 1 PROVE G[h] = HeightFrom(D, n, G, h)
    <3>1. h # 0 => h - 1 \in 0..m /\ G[h - 1] = F[h - 1]
      OBVIOUS
    <3>2. HeightFrom(D, n, G, h) = HeightFrom(D, n, F, h)
      <4>. HIDE DEF G
      <4>. QED  BY <3>1 DEF HeightFrom
    <3>3. h # m + 1 => F[h] = HeightFrom(D, n, F, h)
      BY <2>1
    <3>. QED  BY <3>2, <3>3
  <2>. HIDE DEF G
  <2>3. UpTo(G, m + 1)
    <3>1. G = [h \in 0..m + 1 |-> G[h]]
      BY DEF G
    <3>. QED  BY <2>2, <3>1
  <2>. QED  BY <2>3
<1>3. n \in S
  <2>. HIDE DEF S
  <2>. QED  BY <1>1, <1>2, SetInduction
<1>4. \E H : UpTo(H, n)
  BY <1>3
<1>. QED  BY <1>4 DEF Heights, HeightFrom, POW2

\* The same, height by height: every digest is the hash of the two below.
IsTree(D, n, H) ==
    /\ H[0] = D
    /\ \A h \in 1..n : \A j \in 0..2^(n - h) - 1 :
          H[h][j] = Hash(H[h - 1][2 * j], H[h - 1][2 * j + 1])

LEMMA HeightsStep == ASSUME NEW D, NEW n \in Nat PROVE IsTree(D, n, Heights(D, n))
<1>. DEFINE H == Heights(D, n)
<1>1. H = [h \in 0..n |-> HeightFrom(D, n, H, h)]
  BY HeightsDefined
<1>. HIDE DEF H
<1>2. DOMAIN H = 0..n /\ \A h \in 0..n : H[h] = HeightFrom(D, n, H, h)
  BY <1>1
<1>3. H[0] = D
  BY <1>2 DEF HeightFrom
<1>4. \A h \in 1..n : \A j \in 0..2^(n - h) - 1 :
         H[h][j] = Hash(H[h - 1][2 * j], H[h - 1][2 * j + 1])
  BY <1>2 DEF HeightFrom
<1>5. IsTree(D, n, H)
  BY <1>3, <1>4 DEF IsTree
<1>. QED  BY <1>5 DEF H

\* The vocabulary of the trees is that of MerkleHash wherever it is instantiated.
LEMMA SameTrees ==
    ASSUME NEW D, NEW n
    PROVE  Matrix!Heights(D, n) = Heights(D, n) /\ Coset!Heights(D, n) = Heights(D, n)
BY DEF Heights, POW2, Matrix!Heights, Matrix!POW2, Coset!Heights, Coset!POW2

-----------------------------------------------------------------------------
(* The kept heap. *)

Evaluation == [b \in Matrix!Blocks |-> Source(b)]

\* What the node of row r at position k should hold.
Node(r, k) == Heights(Evaluation, LogMatrix)[LogMatrix - r][k]

\* The task that writes a node, and whether it was written.
SegmentOf(r, k) == k \div 2^(r - logSegments)
Owner(r, k) == IF stage = "segments" THEN SegmentOf(r, k) ELSE Matrix!Top
Passed(t, r, k) == row[t] < r \/ (row[t] = r /\ k \in did[t])
Written(r, k) == /\ stage = "segments" => r >= logSegments
                 /\ Passed(Owner(r, k), r, k)

\* Where the tasks are: a segment's rows end with its root, the top's with
\* the root of the tree, and the top begins after the segments.
TasksPlaced ==
    /\ logSegments \in 0..LogMatrix
    /\ stage \in {"segments", "top", "done"}
    /\ stage = "segments" => logSegments < LogMatrix
    /\ row \in [Matrix!Tasks -> -1..LogMatrix]
    /\ did \in [Matrix!Tasks -> SUBSET Nat]
    /\ \A s \in Matrix!Segments : row[s] >= logSegments - 1
    /\ row[Matrix!Top] < LogMatrix
    /\ stage = "segments" => /\ row[Matrix!Top] = logSegments - 1
                             /\ did[Matrix!Top] = {}
    /\ stage = "done" => row[Matrix!Top] = -1
    /\ \A t \in Matrix!Tasks : did[t] # {} =>
          /\ row[t] < LogMatrix
          /\ row[t] >= IF t = Matrix!Top THEN 0 ELSE logSegments
          /\ did[t] \subseteq Matrix!Slice(t, row[t])
          /\ did[t] # Matrix!Slice(t, row[t])

\* The data a segment's constructor has not reached is not there yet.
MatrixFilled ==
    matrix = [b \in Matrix!Blocks |->
                 IF /\ stage = "segments"
                    /\ row[b \div 2^(LogMatrix - logSegments)] = LogMatrix
                 THEN Garbage ELSE Source(b)]

NodesRight ==
    /\ tree = [i \in Matrix!Nodes |-> tree[i]]
    /\ \A r \in 0..LogMatrix - 1 : \A k \in 0..2^r - 1 :
          tree[2^r + k] = IF Written(r, k) THEN Node(r, k) ELSE Garbage

RootReturned == stage = "done" => root = tree[1]

HeapInv == TasksPlaced /\ MatrixFilled /\ NodesRight /\ RootReturned

-----------------------------------------------------------------------------
(* Hashing a coset in its own buffer. *)

CosetData == [b \in Coset!Blocks |-> Source(b)]

\* The digest at height h and position j of the tree over the coset.
Digest(h, j) == Heights(CosetData, LogCoset)[h][j]

\* Where iteration j of a step hashes into.
Place(j) == 2^step * j

\* What is in its places: both digests of the height below, the right one moved
\* next to the left one, or their hash.
PlaceRight(j) ==
    IF Place(j) \in hashed THEN buffer[Place(j)] = Digest(step, j)
    ELSE /\ buffer[Place(j)] = Digest(step - 1, 2 * j)
         /\ buffer[IF Place(j) \in moved THEN Place(j) + 1 ELSE Place(j) + 2^(step - 1)]
               = Digest(step - 1, 2 * j + 1)
PlacesRight == \A j \in 0..2^(LogCoset - step) - 1 : PlaceRight(j)

\* The path collected by the steps that are over.
PathUpTo(q, n) == [m \in 1..n |-> Digest(m, Coset!Twin(q \div 2^(m - 1)))]
StepsCollected == IF step <= LogCoset THEN step - 1 ELSE LogCoset - 1

BufferInv ==
    /\ step \in 1..LogCoset + 1
    /\ buffer = [b \in Coset!Blocks |-> buffer[b]]
    /\ moved \subseteq Coset!Iterations /\ hashed \subseteq moved
    /\ step <= LogCoset => PlacesRight
    /\ step > LogCoset => moved = {} /\ hashed = {} /\ buffer[0] = Digest(LogCoset, 0)
    /\ DOMAIN res \subseteq Coset!Pairs
    /\ res = [q \in DOMAIN res |-> PathUpTo(q, StepsCollected)]

IInv == IF entireWitnessKept THEN HeapInv ELSE BufferInv
-----------------------------------------------------------------------------
\* Nodes are digests of the nodes below, and the last row of the data.
LEMMA NodeStep ==
    ASSUME NEW r \in 0..LogMatrix - 1, NEW k \in 0..2^r - 1
    PROVE  /\ 2 * k \in 0..2^(r + 1) - 1 /\ 2 * k + 1 \in 0..2^(r + 1) - 1
           /\ Node(r, k) = IF r = LogMatrix - 1 THEN Hash(Source(2 * k), Source(2 * k + 1))
                           ELSE Hash(Node(r + 1, 2 * k), Node(r + 1, 2 * k + 1))
<1>. DEFINE H == Heights(Evaluation, LogMatrix)
            h == LogMatrix - r
<1>1. LogMatrix \in Nat /\ h \in 1..LogMatrix /\ LogMatrix - h = r
  BY LogLenAssumption
<1>2. 2^(r + 1) = 2^r + 2^r /\ 2^r \in Nat
  BY PowerStep
<1>3. 2 * k \in 0..2^(r + 1) - 1 /\ 2 * k + 1 \in 0..2^(r + 1) - 1
  BY <1>2
<1>4. H[0] = Evaluation /\ H[h][k] = Hash(H[h - 1][2 * k], H[h - 1][2 * k + 1])
  <2>1. /\ H[0] = Evaluation
        /\ \A i \in 1..LogMatrix : \A j \in 0..2^(LogMatrix - i) - 1 :
              H[i][j] = Hash(H[i - 1][2 * j], H[i - 1][2 * j + 1])
    <3>1. IsTree(Evaluation, LogMatrix, Heights(Evaluation, LogMatrix))
      BY <1>1, HeightsStep
    <3>. QED  BY <3>1 DEF IsTree
  <2>. HIDE DEF H, h
  <2>. QED  BY <1>1, <2>1
<1>5. h - 1 = LogMatrix - (r + 1) /\ (r = LogMatrix - 1 => h - 1 = 0)
  BY <1>1
<1>6. r = LogMatrix - 1 => /\ Evaluation[2 * k] = Source(2 * k)
                           /\ Evaluation[2 * k + 1] = Source(2 * k + 1)
  BY <1>1, <1>3 DEF Evaluation, Matrix!Blocks, Matrix!POW2
<1>. HIDE DEF H, h
<1>7. Node(r, k) = H[h][k]
  BY DEF Node, H, h
<1>8. Node(r + 1, 2 * k) = H[h - 1][2 * k] /\ Node(r + 1, 2 * k + 1) = H[h - 1][2 * k + 1]
  BY <1>5 DEF Node, H
<1>. QED  BY <1>3, <1>4, <1>5, <1>6, <1>7, <1>8

\* A segment's part of a row is where its nodes are, and its children's
\* segment is the same.
LEMMA SliceOfSegment ==
    ASSUME logSegments \in Nat, NEW r \in Nat, r >= logSegments
    PROVE  /\ \A s \in Matrix!Segments : \A k \in Int :
                 k \in Matrix!Slice(s, r) <=> k \in 0..2^r - 1 /\ SegmentOf(r, k) = s
           /\ \A k \in 0..2^r - 1 :
                 /\ SegmentOf(r, k) \in Matrix!Segments
                 /\ SegmentOf(r + 1, 2 * k) = SegmentOf(r, k)
                 /\ SegmentOf(r + 1, 2 * k + 1) = SegmentOf(r, k)
<1>. DEFINE len == 2^(r - logSegments)
            segments == 2^logSegments
<1>1. r - logSegments \in Nat /\ (r + 1) - logSegments = (r - logSegments) + 1
  OBVIOUS
<1>2. len \in Nat /\ len > 0 /\ segments \in Nat /\ segments > 0 /\ 2^r \in Nat
  BY <1>1, PowerPositive
<1>3. 2^r = segments * len
  <2>1. 2^r = len * segments
    BY PowerMonotone
  <2>. HIDE DEF len, segments
  <2>. QED  BY <2>1, <1>2
<1>4. 2^((r + 1) - logSegments) = 2 * len
  <2>1. 2^((r - logSegments) + 1) = len + len
    BY <1>1, PowerStep
  <2>. HIDE DEF len
  <2>. QED  BY <2>1, <1>1, <1>2
<1>5. Matrix!Segments = 0..segments - 1
  BY DEF Matrix!Segments, Matrix!POW2
<1>6. \A s \in Matrix!Segments : Matrix!Slice(s, r) = len * s..len * (s + 1) - 1
  BY <1>5 DEF Matrix!Slice, Matrix!POW2, Matrix!Top
<1>7. \A k \in Nat : /\ SegmentOf(r, k) = k \div len
                     /\ SegmentOf(r + 1, 2 * k) = (2 * k) \div (2 * len)
                     /\ SegmentOf(r + 1, 2 * k + 1) = (2 * k + 1) \div (2 * len)
  BY <1>4 DEF SegmentOf
<1>. HIDE DEF len, segments
<1>8. ASSUME NEW k \in 0..2^r - 1
      PROVE  /\ SegmentOf(r, k) \in Matrix!Segments
             /\ SegmentOf(r + 1, 2 * k) = SegmentOf(r, k)
             /\ SegmentOf(r + 1, 2 * k + 1) = SegmentOf(r, k)
  <2>1. k \in Nat /\ k \in 0..segments * len - 1
    BY <1>2, <1>3
  <2>2. k \div len \in 0..segments - 1
    BY <2>1, <1>2, QuotientBelow
  <2>3. (2 * k) \div (2 * len) = k \div len /\ (2 * k + 1) \div (2 * len) = k \div len
    BY <2>1, <1>2, QuotientDoubled
  <2>. QED  BY <2>1, <2>2, <2>3, <1>5, <1>7
<1>9. ASSUME NEW s \in Matrix!Segments, NEW k \in Int
      PROVE  k \in Matrix!Slice(s, r) <=> k \in 0..2^r - 1 /\ SegmentOf(r, k) = s
  <2>1. s \in Nat /\ s + 1 <= segments
    BY <1>2, <1>5
  <2>2. len * s >= 0 /\ len * (s + 1) <= segments * len /\ len * s \in Nat /\ len * (s + 1) \in Nat
    <3>1. \A x, y \in Nat : x <= y => len * x <= y * len /\ len * x >= 0
      BY <1>2
    <3>. QED  BY <3>1, <2>1, <1>2
  <2>3. k \in Matrix!Slice(s, r) => k \in 0..2^r - 1
    BY <2>2, <1>3, <1>6
  <2>4. k \in Nat => (k \div len = s <=> k \in len * s..len * (s + 1) - 1)
    BY <2>1, <1>2, QuotientRange
  <2>5. CASE k \in Nat
    <3>1. SegmentOf(r, k) = k \div len
      BY <2>5, <1>7
    <3>2. k \in Matrix!Slice(s, r) <=> k \in len * s..len * (s + 1) - 1
      BY <1>6
    <3>. QED  BY <2>3, <2>4, <2>5, <3>1, <3>2
  <2>6. CASE k \notin Nat
    <3>1. k \notin 0..2^r - 1
      BY <2>6
    <3>. QED  BY <2>3, <3>1
  <2>. QED  BY <2>5, <2>6
<1>. QED  BY <1>8, <1>9
\* The segment a block of data is in.
LEMMA SegmentOfBlock ==
    ASSUME logSegments \in 0..LogMatrix, NEW b \in Matrix!Blocks
    PROVE  b \div 2^(LogMatrix - logSegments) \in Matrix!Segments
<1>1. /\ LogMatrix \in Nat /\ LogMatrix - logSegments \in 0..LogMatrix
      /\ LogMatrix - (LogMatrix - logSegments) = logSegments
  BY LogLenAssumption
<1>2. b \in 0..2^LogMatrix - 1
  BY DEF Matrix!Blocks, Matrix!POW2
<1>3. b \div 2^(LogMatrix - logSegments) \in 0..2^(LogMatrix - (LogMatrix - logSegments)) - 1
  BY <1>1, <1>2, ShiftBelow
<1>. QED  BY <1>1, <1>3 DEF Matrix!Segments, Matrix!POW2

\* The whole of the top's part of a row.
LEMMA SliceOfTop == ASSUME NEW r PROVE Matrix!Slice(Matrix!Top, r) = 0..2^r - 1
BY DEF Matrix!Slice, Matrix!POW2

-----------------------------------------------------------------------------
\* No task has begun: every node is as new[] left it.
LEMMA HeapInit == Matrix!Init => HeapInv
<1>. SUFFICES ASSUME Matrix!Init PROVE HeapInv
  OBVIOUS
<1>. USE LogLenAssumption DEF Matrix!Init, Matrix!Top
<1>1. LogMatrix \in Nat \ {0} /\ 2^LogMatrix \in Nat /\ logSegments \in 0..LogMatrix
  BY PowerPositive
<1>2. Matrix!Top \in Matrix!Tasks /\ Matrix!Top \notin Matrix!Segments
  BY DEF Matrix!Tasks, Matrix!Segments
<1>3. TasksPlaced
  BY <1>1, <1>2 DEF TasksPlaced, Matrix!Tasks
<1>4. MatrixFilled
  <2>1. CASE stage = "segments"
    <3>1. \A b \in Matrix!Blocks : b \div 2^(LogMatrix - logSegments) \in Matrix!Segments
      BY <1>1, SegmentOfBlock
    <3>2. \A t \in Matrix!Segments : row[t] = LogMatrix
      BY <2>1, <1>2 DEF Matrix!Tasks
    <3>. QED  BY <2>1, <3>1, <3>2 DEF MatrixFilled
  <2>2. CASE stage = "top"
    BY <2>2 DEF MatrixFilled
  <2>. QED  BY <2>1, <2>2
<1>5. ASSUME NEW r \in 0..LogMatrix - 1, NEW k \in 0..2^r - 1
      PROVE  ~ Written(r, k) /\ 2^r + k \in Matrix!Nodes
  <2>1. 2^r \in Nat /\ 2^r > 0 /\ 2 * 2^r <= 2^LogMatrix
    BY <1>1, PowerPositive, PowerMonotone
  <2>2. 2^r + k \in Matrix!Nodes
    BY <2>1, <1>1 DEF Matrix!Nodes, Matrix!POW2
  <2>3. CASE stage = "segments"
    <3>1. r >= logSegments => SegmentOf(r, k) \in Matrix!Tasks /\ SegmentOf(r, k) # Matrix!Top
      BY <1>1, <1>2, SliceOfSegment DEF Matrix!Tasks
    <3>. QED  BY <2>2, <2>3, <3>1, <1>1 DEF Written, Passed, Owner
  <2>4. CASE stage = "top"
    BY <2>2, <2>4, <1>1, <1>2 DEF Written, Passed, Owner
  <2>. QED  BY <2>3, <2>4
<1>6. NodesRight
  BY <1>5 DEF NodesRight
<1>7. RootReturned
  BY DEF RootReturned
<1>. QED  BY <1>3, <1>4, <1>6, <1>7 DEF HeapInv

\* A segment's constructor fills its part of the data, and no other.
LEMMA ConstructStep ==
    ASSUME HeapInv, NEW s \in Matrix!Segments, Matrix!ConstructSegment(s)
    PROVE  HeapInv'
<1>. USE LogLenAssumption DEF Matrix!ConstructSegment, Matrix!Top
<1>1. LogMatrix \in Nat \ {0} /\ logSegments \in 0..LogMatrix - 1
  BY DEF HeapInv, TasksPlaced
<1>2. s \in Matrix!Tasks /\ s # Matrix!Top
  BY DEF Matrix!Tasks, Matrix!Segments
<1>3. did[s] = {}
  BY <1>1, <1>2 DEF HeapInv, TasksPlaced
<1>4. TasksPlaced'
  BY <1>1, <1>2, <1>3 DEF HeapInv, TasksPlaced, Matrix!Tasks, Matrix!Segments, Matrix!Slice
<1>5. MatrixFilled'
  <2>1. ASSUME NEW b \in Matrix!Blocks
        PROVE  matrix'[b] = IF row'[b \div 2^(LogMatrix - logSegments)] = LogMatrix
                            THEN Garbage ELSE Source(b)
    <3>1. b \div 2^(LogMatrix - logSegments) \in Matrix!Tasks
      BY <1>1, SegmentOfBlock DEF Matrix!Tasks
    <3>2. Matrix!ShiftRight(b, LogMatrix - logSegments) = b \div 2^(LogMatrix - logSegments)
      BY DEF Matrix!ShiftRight, Matrix!POW2
    <3>3. CASE b \div 2^(LogMatrix - logSegments) = s
      BY <1>1, <1>2, <3>2, <3>3 DEF HeapInv, TasksPlaced
    <3>4. CASE b \div 2^(LogMatrix - logSegments) # s
      BY <3>1, <3>2, <3>4 DEF HeapInv, TasksPlaced, MatrixFilled
    <3>. QED  BY <3>3, <3>4
  <2>2. matrix' = [b \in Matrix!Blocks |-> matrix'[b]] /\ stage' = "segments"
    OBVIOUS
  <2>. QED  BY <2>1, <2>2 DEF MatrixFilled
<1>6. NodesRight'
  <2>1. ASSUME NEW r \in 0..LogMatrix - 1, NEW k \in 0..2^r - 1
        PROVE  Written(r, k)' <=> Written(r, k)
    <3>1. r >= logSegments => SegmentOf(r, k) \in Matrix!Tasks
      BY <1>1, SliceOfSegment DEF Matrix!Tasks
    <3>. QED  BY <1>1, <1>3, <3>1 DEF Written, Passed, Owner, SegmentOf, HeapInv, TasksPlaced
  <2>. QED  BY <2>1 DEF HeapInv, NodesRight
<1>7. RootReturned'
  BY DEF RootReturned
<1>. QED  BY <1>4, <1>5, <1>6, <1>7 DEF HeapInv
\* A task that may hash: it has a row to write, in the stage it belongs to.
Hashing(t) ==
    \/ /\ stage = "segments" /\ t \in Matrix!Segments
       /\ row[t] < LogMatrix /\ row[t] >= logSegments
    \/ stage = "top" /\ t = Matrix!Top /\ row[t] >= 0

\* What such a task may take next: a node of its own that nobody wrote.
LEMMA HashPlace ==
    ASSUME HeapInv, NEW t, Hashing(t), NEW k, k \in Matrix!Slice(t, row[t]) \ did[t]
    PROVE  /\ t \in Matrix!Tasks /\ row[t] \in 0..LogMatrix - 1 /\ k \in 0..2^row[t] - 1
           /\ Owner(row[t], k) = t /\ ~ Written(row[t], k)
           /\ \A j \in 0..2^row[t] - 1 : j \in Matrix!Slice(t, row[t]) <=> Owner(row[t], j) = t
<1>. DEFINE r == row[t]
<1>1. t \in Matrix!Tasks /\ LogMatrix \in Nat /\ logSegments \in 0..LogMatrix
  BY LogLenAssumption DEF Hashing, Matrix!Tasks, HeapInv, TasksPlaced
<1>2. r \in 0..LogMatrix - 1
  BY <1>1 DEF Hashing, HeapInv, TasksPlaced
<1>3. CASE stage = "segments"
  <2>1. t \in Matrix!Segments /\ r >= logSegments
    BY <1>3 DEF Hashing
  <2>2. \A j \in Int : j \in Matrix!Slice(t, r) <=> j \in 0..2^r - 1 /\ SegmentOf(r, j) = t
    <3>. HIDE DEF r
    <3>. QED  BY <1>1, <1>2, <2>1, SliceOfSegment
  <2>3. k \in Int
    <3>1. Matrix!Slice(t, r) \subseteq Int
      BY <1>2, <2>1, PowerPositive, <1>1
         DEF Matrix!Slice, Matrix!POW2, Matrix!Segments, Matrix!Top
    <3>. QED  BY <3>1
  <2>. QED  BY <1>1, <1>2, <1>3, <2>1, <2>2, <2>3 DEF Owner, Written, Passed
<1>4. CASE stage = "top"
  <2>1. t = Matrix!Top /\ Matrix!Slice(t, r) = 0..2^r - 1
    BY <1>4, SliceOfTop DEF Hashing
  <2>. QED  BY <1>1, <1>2, <1>4, <2>1 DEF Owner, Written, Passed
<1>. QED  BY <1>3, <1>4 DEF Hashing

\* What it reads is final, so that it writes the node of the tree.
LEMMA HashReads ==
    ASSUME HeapInv, NEW t, Hashing(t), NEW k, k \in Matrix!Slice(t, row[t]) \ did[t]
    PROVE  Hash(Matrix!Below(row[t], 2 * k), Matrix!Below(row[t], 2 * k + 1)) = Node(row[t], k)
<1>. DEFINE r == row[t]
<1>1. /\ t \in Matrix!Tasks /\ r \in 0..LogMatrix - 1 /\ k \in 0..2^r - 1 /\ Owner(r, k) = t
      /\ LogMatrix \in Nat /\ logSegments \in 0..LogMatrix
  BY HashPlace, LogLenAssumption DEF HeapInv, TasksPlaced
<1>2. /\ 2 * k \in 0..2^(r + 1) - 1 /\ 2 * k + 1 \in 0..2^(r + 1) - 1
      /\ Node(r, k) = IF r = LogMatrix - 1 THEN Hash(Source(2 * k), Source(2 * k + 1))
                      ELSE Hash(Node(r + 1, 2 * k), Node(r + 1, 2 * k + 1))
  BY <1>1, NodeStep
<1>3. stage = "segments" => /\ r >= logSegments /\ r < LogMatrix
                            /\ SegmentOf(r + 1, 2 * k) = t /\ SegmentOf(r + 1, 2 * k + 1) = t
  <2>. SUFFICES ASSUME stage = "segments"
                PROVE  /\ r >= logSegments /\ r < LogMatrix
                       /\ SegmentOf(r + 1, 2 * k) = t /\ SegmentOf(r + 1, 2 * k + 1) = t
    OBVIOUS
  <2>1. r >= logSegments /\ r < LogMatrix /\ SegmentOf(r, k) = t
    BY <1>1 DEF Hashing, Owner
  <2>. HIDE DEF r
  <2>. QED  BY <1>1, <2>1, SliceOfSegment
<1>4. CASE r = LogMatrix - 1
  <2>1. 2 * k \in Matrix!Blocks /\ 2 * k + 1 \in Matrix!Blocks
    BY <1>1, <1>2, <1>4 DEF Matrix!Blocks, Matrix!POW2
  <2>2. stage = "segments" =>
           /\ row[(2 * k) \div 2^(LogMatrix - logSegments)] # LogMatrix
           /\ row[(2 * k + 1) \div 2^(LogMatrix - logSegments)] # LogMatrix
    BY <1>1, <1>3, <1>4 DEF SegmentOf
  <2>3. matrix[2 * k] = Source(2 * k) /\ matrix[2 * k + 1] = Source(2 * k + 1)
    BY <2>1, <2>2 DEF HeapInv, MatrixFilled
  <2>. QED  BY <1>2, <1>4, <2>3 DEF Matrix!Below
<1>5. CASE r # LogMatrix - 1
  <2>1. r + 1 \in 0..LogMatrix - 1
    BY <1>1, <1>5
  <2>2. Written(r + 1, 2 * k) /\ Written(r + 1, 2 * k + 1)
    BY <1>1, <1>3 DEF Written, Passed, Owner, Hashing
  <2>3. /\ tree[2^(r + 1) + 2 * k] = Node(r + 1, 2 * k)
        /\ tree[2^(r + 1) + (2 * k + 1)] = Node(r + 1, 2 * k + 1)
    <3>. HIDE DEF r
    <3>. QED  BY <1>2, <2>1, <2>2 DEF HeapInv, NodesRight
  <2>. QED  BY <1>2, <1>5, <2>3 DEF Matrix!Below, Matrix!POW2
<1>. QED  BY <1>4, <1>5

\* One iteration writes one node of the tree, and leaves the task where its
\* row goes on or in the row above.
LEMMA HashStep ==
    ASSUME HeapInv, NEW t, Hashing(t), NEW k, Matrix!HashNode(t, k)
    PROVE  HeapInv'
<1>. DEFINE r == row[t]
<1>1. /\ k \in Matrix!Slice(t, r) \ did[t]
      /\ tree' = [tree EXCEPT ![2^r + k] = Hash(Matrix!Below(r, 2 * k), Matrix!Below(r, 2 * k + 1))]
      /\ \/ /\ did[t] \cup {k} = Matrix!Slice(t, r)
            /\ row' = [row EXCEPT ![t] = r - 1] /\ did' = [did EXCEPT ![t] = {}]
         \/ /\ did[t] \cup {k} # Matrix!Slice(t, r)
            /\ row' = row /\ did' = [did EXCEPT ![t] = did[t] \cup {k}]
      /\ logSegments' = logSegments /\ matrix' = matrix /\ stage' = stage /\ root' = root
  BY DEF Matrix!HashNode, Matrix!POW2
<1>2. /\ t \in Matrix!Tasks /\ r \in 0..LogMatrix - 1 /\ k \in 0..2^r - 1
      /\ Owner(r, k) = t /\ ~ Written(r, k)
      /\ \A j \in 0..2^r - 1 : j \in Matrix!Slice(t, r) <=> Owner(r, j) = t
  BY <1>1, HashPlace
<1>3. tree' = [tree EXCEPT ![2^r + k] = Node(r, k)]
  BY <1>1, HashReads
<1>4. /\ row \in [Matrix!Tasks -> -1..LogMatrix] /\ did \in [Matrix!Tasks -> SUBSET Nat]
      /\ LogMatrix \in Nat /\ logSegments \in 0..LogMatrix
      /\ stage = "segments" => r >= logSegments /\ t \in Matrix!Segments
      /\ stage = "top" => t = Matrix!Top
      /\ stage \in {"segments", "top"}
  BY LogLenAssumption DEF HeapInv, TasksPlaced, Hashing
<1>5. Matrix!Top \notin Matrix!Segments /\ Matrix!Top \in Matrix!Tasks
  BY DEF Matrix!Top, Matrix!Segments, Matrix!Tasks
<1>6. TasksPlaced'
  <2>1. k \in Nat /\ did[t] \cup {k} \subseteq Nat
    BY <1>2, <1>4
  <2>2. row' \in [Matrix!Tasks -> -1..LogMatrix] /\ did' \in [Matrix!Tasks -> SUBSET Nat]
    BY <1>1, <1>2, <1>4, <2>1
  <2>3. did[t] \cup {k} \subseteq Matrix!Slice(t, r)
    BY <1>1, <1>2 DEF HeapInv, TasksPlaced
  <2>4. \A u \in Matrix!Tasks : row'[u] <= row[u] /\ (u # t => row'[u] = row[u] /\ did'[u] = did[u])
    BY <1>1, <1>2, <1>4
  <2>6. \A s \in Matrix!Segments : row'[s] >= logSegments - 1
    <3>1. \A s \in Matrix!Segments : row[s] >= logSegments - 1 /\ s \in Matrix!Tasks
      BY DEF HeapInv, TasksPlaced, Matrix!Tasks
    <3>2. stage = "top" => t \notin Matrix!Segments
      BY <1>4, <1>5
    <3>. QED  BY <1>1, <1>2, <1>4, <2>4, <3>1, <3>2
  <2>7. did'[t] # {} => /\ row'[t] = r /\ did'[t] = did[t] \cup {k}
                        /\ did'[t] # Matrix!Slice(t, r)
    BY <1>1, <1>2, <1>4
  <2>9. \A u \in Matrix!Tasks : did'[u] # {} =>
           /\ row'[u] < LogMatrix
           /\ row'[u] >= IF u = Matrix!Top THEN 0 ELSE logSegments
           /\ did'[u] \subseteq Matrix!Slice(u, row'[u])
           /\ did'[u] # Matrix!Slice(u, row'[u])
    <3>. SUFFICES ASSUME NEW u \in Matrix!Tasks, did'[u] # {}
                  PROVE  /\ row'[u] < LogMatrix
                         /\ row'[u] >= IF u = Matrix!Top THEN 0 ELSE logSegments
                         /\ did'[u] \subseteq Matrix!Slice(u, row'[u])
                         /\ did'[u] # Matrix!Slice(u, row'[u])
      OBVIOUS
    <3>1. CASE u = t
      BY <3>1, <1>2, <1>4, <1>5, <2>3, <2>7
    <3>2. CASE u # t
      BY <3>2, <2>4 DEF HeapInv, TasksPlaced
    <3>. QED  BY <3>1, <3>2
  <2>11. Matrix!Tasks' = Matrix!Tasks /\ Matrix!Segments' = Matrix!Segments
    BY <1>1 DEF Matrix!Tasks, Matrix!Segments
  <2>12. /\ row'[Matrix!Top] < LogMatrix
         /\ stage = "segments" => row'[Matrix!Top] = logSegments - 1 /\ did'[Matrix!Top] = {}
    BY <1>4, <1>5, <2>2, <2>4 DEF HeapInv, TasksPlaced
  <2>. QED  BY <1>1, <1>4, <2>2, <2>6, <2>9, <2>11, <2>12 DEF TasksPlaced, HeapInv, Matrix!Slice
<1>7. MatrixFilled'
  <2>1. ASSUME NEW b \in Matrix!Blocks
        PROVE  row'[b \div 2^(LogMatrix - logSegments)] = LogMatrix
               <=> row[b \div 2^(LogMatrix - logSegments)] = LogMatrix
    <3>1. b \div 2^(LogMatrix - logSegments) \in Matrix!Tasks
      BY <1>4, SegmentOfBlock DEF Matrix!Tasks
    <3>2. row'[t] < LogMatrix /\ r < LogMatrix
      BY <1>1, <1>2, <1>4
    <3>. QED  BY <1>1, <1>2, <1>4, <3>1, <3>2
  <2>. QED  BY <1>1, <2>1 DEF HeapInv, MatrixFilled
<1>8. ASSUME NEW q \in 0..LogMatrix - 1, NEW j \in 0..2^q - 1
      PROVE  Written(q, j)' <=> Written(q, j) \/ (q = r /\ j = k)
  <2>. DEFINE u == Owner(q, j)
  <2>1. Owner(q, j)' = u
    BY <1>1 DEF Owner, SegmentOf
  <2>2. (stage = "segments" => q >= logSegments) => u \in Matrix!Tasks
    BY <1>4, <1>5, SliceOfSegment DEF Owner, Matrix!Tasks
  <2>3. q = r /\ j = k => u = t
    BY <1>2
  <2>4. u = t /\ q = r => j \in Matrix!Slice(t, r)
    BY <1>2
  <2>. HIDE DEF u, r
  <2>5. CASE ~ (stage = "segments" => q >= logSegments)
    BY <2>5, <1>1, <1>4 DEF Written
  <2>6. CASE (stage = "segments" => q >= logSegments) /\ u # t
    BY <2>6, <1>1, <1>2, <1>4, <2>1, <2>2, <2>3 DEF Written, Passed, u
  <2>7. CASE (stage = "segments" => q >= logSegments) /\ u = t
    <3>1. Passed(t, q, j)' <=> Passed(t, q, j) \/ (q = r /\ j = k)
      BY <2>7, <1>1, <1>2, <1>4, <2>4 DEF Passed, r
    <3>2. Written(q, j)' <=> Passed(t, q, j)'
      BY <2>7, <2>1, <1>1 DEF Written, Passed
    <3>3. Written(q, j) <=> Passed(t, q, j)
      BY <2>7 DEF Written, u
    <3>. QED  BY <3>1, <3>2, <3>3
  <2>. QED  BY <2>5, <2>6, <2>7
<1>9. NodesRight'
  <2>1. ASSUME NEW q \in 0..LogMatrix - 1, NEW j \in 0..2^q - 1
        PROVE  tree'[2^q + j] = IF Written(q, j)' THEN Node(q, j) ELSE Garbage
    <3>1. 2^q + j = 2^r + k <=> q = r /\ j = k
      <4>. HIDE DEF r
      <4>. QED  BY <1>2, <1>4, RowsDisjoint
    <3>2. 2^q + j \in Matrix!Nodes
      <4>1. 2^q \in Nat /\ 2^q > 0 /\ 2 * 2^q <= 2^LogMatrix /\ 2^LogMatrix \in Nat
        BY <1>4, PowerPositive, PowerMonotone
      <4>. QED  BY <4>1 DEF Matrix!Nodes, Matrix!POW2
    <3>3. tree[2^q + j] = IF Written(q, j) THEN Node(q, j) ELSE Garbage
      BY DEF HeapInv, NodesRight
    <3>4. tree = [i \in Matrix!Nodes |-> tree[i]]
      BY DEF HeapInv, NodesRight
    <3>5. tree'[2^q + j] = IF q = r /\ j = k THEN Node(r, k) ELSE tree[2^q + j]
      <4>. HIDE DEF r
      <4>. QED  BY <1>3, <3>1, <3>2, <3>4
    <3>. QED  BY <1>2, <1>8, <3>3, <3>5
  <2>2. tree' = [i \in Matrix!Nodes |-> tree'[i]]
    <3>1. tree = [i \in Matrix!Nodes |-> tree[i]]
      BY DEF HeapInv, NodesRight
    <3>. QED  BY <1>3, <3>1
  <2>3. \A q \in 0..LogMatrix - 1 : \A j \in 0..2^q - 1 : Node(q, j)' = Node(q, j)
    BY DEF Node, Evaluation
  <2>. QED  BY <2>1, <2>2, <2>3 DEF NodesRight
<1>10. RootReturned'
  BY <1>1, <1>4 DEF RootReturned
<1>. QED  BY <1>6, <1>7, <1>9, <1>10 DEF HeapInv

\* The join of the segments: they wrote every row from theirs down, and the
\* top begins above it.
LEMMA JoinStep == HeapInv /\ Matrix!finishTreeAfterSegments => HeapInv'
<1>. SUFFICES ASSUME HeapInv, Matrix!finishTreeAfterSegments PROVE HeapInv'
  OBVIOUS
<1>. USE LogLenAssumption DEF Matrix!finishTreeAfterSegments, Matrix!SegmentOver
<1>1. /\ LogMatrix \in Nat \ {0} /\ logSegments \in 0..LogMatrix - 1
      /\ row[Matrix!Top] = logSegments - 1 /\ did[Matrix!Top] = {}
      /\ stage' \in {"top", "done"} /\ (stage' = "done" => logSegments = 0)
  BY DEF HeapInv, TasksPlaced
<1>2. \A s \in Matrix!Segments : row[s] < logSegments /\ row[s] # LogMatrix
  BY <1>1 DEF HeapInv, TasksPlaced
<1>3. TasksPlaced'
  BY <1>1 DEF HeapInv, TasksPlaced, Matrix!Tasks, Matrix!Segments, Matrix!Slice
<1>4. MatrixFilled'
  <2>1. \A b \in Matrix!Blocks : b \div 2^(LogMatrix - logSegments) \in Matrix!Segments
    BY <1>1, SegmentOfBlock
  <2>. QED  BY <1>1, <1>2, <2>1 DEF HeapInv, MatrixFilled
<1>5. NodesRight'
  <2>1. ASSUME NEW r \in 0..LogMatrix - 1, NEW k \in 0..2^r - 1
        PROVE  Written(r, k)' <=> Written(r, k)
    <3>1. r >= logSegments => SegmentOf(r, k) \in Matrix!Segments
      BY <1>1, SliceOfSegment
    <3>2. Written(r, k) <=> r >= logSegments
      BY <1>1, <1>2, <3>1 DEF Written, Passed, Owner, HeapInv, TasksPlaced, Matrix!Tasks
    <3>3. Written(r, k)' <=> r >= logSegments
      BY <1>1 DEF Written, Passed, Owner
    <3>. QED  BY <3>2, <3>3
  <2>. QED  BY <2>1 DEF HeapInv, NodesRight
<1>6. RootReturned'
  BY <1>1 DEF RootReturned
<1>. QED  BY <1>3, <1>4, <1>5, <1>6 DEF HeapInv

\* Nothing is written any more once the top has hashed the root.
LEMMA ReturnStep == HeapInv /\ Matrix!ReturnRoot => HeapInv'
<1>. SUFFICES ASSUME HeapInv, Matrix!ReturnRoot PROVE HeapInv'
  OBVIOUS
<1>. USE DEF Matrix!ReturnRoot
<1>1. row[Matrix!Top] = -1
  BY DEF HeapInv, TasksPlaced, Matrix!Tasks
<1>2. TasksPlaced'
  BY <1>1 DEF HeapInv, TasksPlaced, Matrix!Tasks, Matrix!Segments, Matrix!Slice
<1>3. MatrixFilled' /\ RootReturned'
  BY DEF HeapInv, MatrixFilled, RootReturned
<1>4. \A r \in 0..LogMatrix - 1 : \A k \in 0..2^r - 1 : Written(r, k)' <=> Written(r, k)
  BY DEF Written, Passed, Owner
<1>5. NodesRight'
  BY <1>4 DEF HeapInv, NodesRight
<1>. QED  BY <1>2, <1>3, <1>5 DEF HeapInv

\* Every step keeps the heap's invariant.
LEMMA HeapStep == HeapInv /\ [Matrix!Next]_treeVars => HeapInv'
<1>. SUFFICES ASSUME HeapInv, [Matrix!Next]_treeVars PROVE HeapInv'
  OBVIOUS
<1>1. ASSUME NEW s \in Matrix!Segments, Matrix!ConstructSegment(s) PROVE HeapInv'
  BY <1>1, ConstructStep
<1>2. ASSUME NEW s \in Matrix!Segments, NEW k, Matrix!constructMerkleSubTree(s, k)
      PROVE  HeapInv'
  <2>1. Matrix!HashNode(s, k) /\ Hashing(s)
    <3>1. row[s] \in Int /\ logSegments \in Int
      BY DEF HeapInv, TasksPlaced, Matrix!Tasks
    <3>. QED  BY <1>2, <3>1 DEF Matrix!constructMerkleSubTree, Matrix!SegmentOver, Hashing
  <2>. QED  BY <2>1, HashStep
<1>3. ASSUME NEW k, Matrix!constructMerkleTree(k) PROVE HeapInv'
  <2>1. Matrix!HashNode(Matrix!Top, k) /\ Hashing(Matrix!Top)
    BY <1>3 DEF Matrix!constructMerkleTree, Hashing
  <2>. QED  BY <2>1, HashStep
<1>4. CASE UNCHANGED treeVars
  <2>1. TasksPlaced'
    BY <1>4 DEF treeVars, HeapInv, TasksPlaced, Matrix!Tasks, Matrix!Segments, Matrix!Slice
  <2>2. MatrixFilled'
    BY <1>4 DEF treeVars, HeapInv, MatrixFilled
  <2>3. \A r, k : Written(r, k)' = Written(r, k) /\ Node(r, k)' = Node(r, k)
    BY <1>4 DEF treeVars, Written, Passed, Owner, SegmentOf, Node, Evaluation
  <2>4. NodesRight'
    BY <1>4, <2>3 DEF treeVars, HeapInv, NodesRight
  <2>5. RootReturned'
    BY <1>4 DEF treeVars, HeapInv, RootReturned
  <2>. QED  BY <2>1, <2>2, <2>4, <2>5 DEF HeapInv
<1>5. Matrix!Finished => UNCHANGED treeVars
  BY DEF Matrix!Finished, Matrix!vars, treeVars
<1>. QED  BY <1>1, <1>2, <1>3, <1>4, <1>5, JoinStep, ReturnStep DEF Matrix!Next

-----------------------------------------------------------------------------
\* A finished heap is the tree over the evaluation.
LEMMA HeapTreeRight == HeapInv => Matrix!TreeRight
<1>. SUFFICES ASSUME HeapInv, stage = "done" PROVE Matrix!TreeRight
  BY DEF Matrix!TreeRight
<1>1. LogMatrix \in Nat \ {0} /\ row[Matrix!Top] = -1
  BY LogLenAssumption DEF HeapInv, TasksPlaced
<1>2. \A r \in 0..LogMatrix - 1 : \A k \in 0..2^r - 1 : tree[2^r + k] = Node(r, k)
  BY <1>1 DEF HeapInv, NodesRight, Written, Passed, Owner
<1>3. root = Node(0, 0)
  <2>1. tree[2^0 + 0] = Node(0, 0)
    <3>1. 0 \in 0..LogMatrix - 1 /\ 0 \in 0..2^0 - 1
      BY <1>1
    <3>. QED  BY <1>2, <3>1
  <2>. QED  BY <2>1 DEF HeapInv, RootReturned
<1>4. Node(0, 0) = Matrix!MerkleRoot(Evaluation, LogMatrix)
  BY <1>1, SameTrees DEF Node, Matrix!MerkleRoot
<1>5. ASSUME NEW h \in 1..LogMatrix, NEW j \in 0..2^(LogMatrix - h) - 1
      PROVE  tree[2^(LogMatrix - h) + j] = Matrix!Heights(Evaluation, LogMatrix)[h][j]
  <2>1. LogMatrix - h \in 0..LogMatrix - 1 /\ LogMatrix - (LogMatrix - h) = h
    BY <1>1
  <2>2. tree[2^(LogMatrix - h) + j] = Node(LogMatrix - h, j)
    BY <1>2, <2>1
  <2>3. Node(LogMatrix - h, j) = Heights(Evaluation, LogMatrix)[h][j]
    BY <2>1 DEF Node
  <2>. QED  BY <2>2, <2>3, SameTrees
<1>. QED  BY <1>3, <1>4, <1>5 DEF Matrix!TreeRight, Matrix!POW2, Evaluation

\* A digest somebody computed can be told from memory nobody wrote: what
\* ReadsFinal needs to know which nodes were written.
DigestsTellable == \A x, y : Hash(x, y) # Garbage

\* A node that was written rests on two that were.
LEMMA HeapReadsFinal == DigestsTellable /\ HeapInv => Matrix!ReadsFinal
<1>. SUFFICES ASSUME DigestsTellable, HeapInv, NEW i \in Matrix!Nodes, tree[i] # Garbage
              PROVE  IF 2 * i \in Matrix!Nodes
                     THEN /\ tree[2 * i] # Garbage /\ tree[2 * i + 1] # Garbage
                          /\ tree[i] = Hash(tree[2 * i], tree[2 * i + 1])
                     ELSE LET b == 2 * i - 2^LogMatrix
                          IN  /\ matrix[b] = Source(b) /\ matrix[b + 1] = Source(b + 1)
                              /\ tree[i] = Hash(matrix[b], matrix[b + 1])
  BY DEF Matrix!ReadsFinal, Matrix!NodeDone, Matrix!POW2
<1>1. LogMatrix \in Nat \ {0} /\ logSegments \in 0..LogMatrix
  BY LogLenAssumption DEF HeapInv, TasksPlaced
<1>2. PICK r \in 0..LogMatrix - 1 : \E k \in 0..2^r - 1 : i = 2^r + k
  <2>1. i \in 1..2^LogMatrix - 1
    BY DEF Matrix!Nodes, Matrix!POW2
  <2>. QED  BY <1>1, <2>1, RowOfNode
<1>3. PICK k \in 0..2^r - 1 : i = 2^r + k
  BY <1>2
<1>4. Written(r, k) /\ tree[i] = Node(r, k)
  BY <1>3 DEF HeapInv, NodesRight
<1>5. /\ 2 * k \in 0..2^(r + 1) - 1 /\ 2 * k + 1 \in 0..2^(r + 1) - 1
      /\ Node(r, k) = IF r = LogMatrix - 1 THEN Hash(Source(2 * k), Source(2 * k + 1))
                      ELSE Hash(Node(r + 1, 2 * k), Node(r + 1, 2 * k + 1))
  BY NodeStep
<1>6. 2^(r + 1) = 2^r + 2^r /\ 2^r \in Nat /\ 2^(r + 1) \in Nat
  BY <1>1, PowerStep
<1>7. 2 * i = 2^(r + 1) + 2 * k /\ 2 * i + 1 = 2^(r + 1) + (2 * k + 1)
  BY <1>3, <1>6
<1>8. /\ Owner(r, k) \in Matrix!Tasks /\ row[Owner(r, k)] <= r
      /\ stage = "segments" => /\ r >= logSegments
                               /\ SegmentOf(r + 1, 2 * k) = SegmentOf(r, k)
                               /\ SegmentOf(r + 1, 2 * k + 1) = SegmentOf(r, k)
                               /\ SegmentOf(r, k) \in Matrix!Segments
  <2>1. stage = "segments" => r >= logSegments
    BY <1>4 DEF Written
  <2>2. stage = "segments" => /\ SegmentOf(r, k) \in Matrix!Segments
                              /\ SegmentOf(r + 1, 2 * k) = SegmentOf(r, k)
                              /\ SegmentOf(r + 1, 2 * k + 1) = SegmentOf(r, k)
    BY <1>1, <2>1, SliceOfSegment
  <2>3. Owner(r, k) \in Matrix!Tasks
    BY <2>2 DEF Owner, Matrix!Tasks
  <2>4. row[Owner(r, k)] \in Int
    BY <2>3 DEF HeapInv, TasksPlaced
  <2>. QED  BY <1>4, <2>1, <2>2, <2>3, <2>4 DEF Written, Passed
<1>9. CASE r = LogMatrix - 1
  <2>1. 2 * i \notin Matrix!Nodes /\ 2 * i - 2^LogMatrix = 2 * k
    BY <1>1, <1>5, <1>6, <1>7, <1>9 DEF Matrix!Nodes, Matrix!POW2
  <2>2. 2 * k \in Matrix!Blocks /\ 2 * k + 1 \in Matrix!Blocks
    BY <1>1, <1>5, <1>9 DEF Matrix!Blocks, Matrix!POW2
  <2>3. stage = "segments" =>
           /\ row[(2 * k) \div 2^(LogMatrix - logSegments)] # LogMatrix
           /\ row[(2 * k + 1) \div 2^(LogMatrix - logSegments)] # LogMatrix
    BY <1>1, <1>8, <1>9 DEF SegmentOf, Owner
  <2>4. matrix[2 * k] = Source(2 * k) /\ matrix[2 * k + 1] = Source(2 * k + 1)
    BY <2>2, <2>3 DEF HeapInv, MatrixFilled
  <2>. QED  BY <1>4, <1>5, <1>9, <2>1, <2>4
<1>10. CASE r # LogMatrix - 1
  <2>1. r + 1 \in 0..LogMatrix - 1 /\ 2 * 2^(r + 1) <= 2^LogMatrix /\ 2^LogMatrix \in Nat
    BY <1>1, <1>10, PowerMonotone, PowerPositive
  <2>2. 2 * i \in Matrix!Nodes
    BY <1>3, <1>5, <1>6, <1>7, <2>1 DEF Matrix!Nodes, Matrix!POW2
  <2>3. Written(r + 1, 2 * k) /\ Written(r + 1, 2 * k + 1)
    <3>1. Owner(r + 1, 2 * k) = Owner(r, k) /\ Owner(r + 1, 2 * k + 1) = Owner(r, k)
      BY <1>8 DEF Owner
    <3>2. row[Owner(r, k)] \in Int
      BY <1>8 DEF HeapInv, TasksPlaced
    <3>. QED  BY <1>1, <1>8, <3>1, <3>2 DEF Written, Passed
  <2>4. tree[2 * i] = Node(r + 1, 2 * k) /\ tree[2 * i + 1] = Node(r + 1, 2 * k + 1)
    BY <1>5, <1>7, <2>1, <2>3 DEF HeapInv, NodesRight
  <2>5. Node(r + 1, 2 * k) # Garbage /\ Node(r + 1, 2 * k + 1) # Garbage
    BY <1>5, <2>1, NodeStep DEF DigestsTellable
  <2>. QED  BY <1>4, <1>5, <1>10, <2>2, <2>4, <2>5
<1>. QED  BY <1>9, <1>10

-----------------------------------------------------------------------------
(* Hashing in place. *)

\* The iterations of a step are the multiples of POW2(step); the right digest
\* of an iteration is POW2(step - 1) away and its new home next to the left one,
\* and none of these is a place of another iteration.
LEMMA PlacesOfStep ==
    ASSUME step \in 1..LogCoset
    PROVE  /\ \A i \in Coset!Blocks :
                 i \in Coset!Iterations <=> \E j \in 0..2^(LogCoset - step) - 1 : i = Place(j)
           /\ \A j \in 0..2^(LogCoset - step) - 1 :
                 {Place(j), Place(j) + 1, Place(j) + 2^(step - 1)} \subseteq Coset!Blocks
           /\ \A j, l \in 0..2^(LogCoset - step) - 1 :
                 /\ Place(j) # Place(l) + 1 /\ Place(j) # Place(l) + 2^(step - 1)
                 /\ j # l => /\ Place(j) # Place(l) /\ Place(j) + 1 # Place(l) + 1
                             /\ Place(j) + 1 # Place(l) + 2^(step - 1)
<1>1. LogCoset \in Nat \ {0} /\ step \in 0..LogCoset
  BY LogLenAssumption
<1>. DEFINE half == 2^(step - 1)
<1>2. 2^step = 2 * half /\ half \in Nat /\ half > 0
  <2>1. step - 1 \in Nat /\ (step - 1) + 1 = step
    BY <1>1
  <2>2. 2^((step - 1) + 1) = half + half /\ half \in Nat /\ half > 0
    BY <2>1, PowerStep, PowerPositive
  <2>. HIDE DEF half
  <2>. QED  BY <2>1, <2>2
<1>3. half = 1 \/ \E m \in Nat : half = 2 * m
  <2>1. CASE step = 1
    BY <2>1, PowerPositive
  <2>2. CASE step # 1
    <3>1. step - 2 \in Nat /\ (step - 2) + 1 = step - 1
      BY <1>1, <2>2
    <3>2. 2^((step - 2) + 1) = 2^(step - 2) + 2^(step - 2) /\ 2^(step - 2) \in Nat
      BY <3>1, PowerStep
    <3>3. half = 2 * 2^(step - 2)
      BY <3>1, <3>2
    <3>. QED  BY <3>2, <3>3
  <2>. QED  BY <2>1, <2>2
<1>4. Coset!Blocks = 0..2^LogCoset - 1 /\ Coset!Iterations = {i \in Coset!Blocks : i % 2^step = 0}
  BY DEF Coset!Blocks, Coset!Iterations, Coset!POW2
<1>5. \A i \in 0..2^LogCoset - 1 :
         i % 2^step = 0 <=> \E j \in 0..2^(LogCoset - step) - 1 : i = Place(j)
  BY <1>1, Multiples DEF Place
<1>. DEFINE places == 0..2^(LogCoset - step) - 1
<1>6. \A j \in places : Place(j) \in Nat /\ Place(j) + 2^step - 1 \in 0..2^LogCoset - 1
  BY <1>1, Multiples DEF Place
<1>7. places \subseteq Nat /\ 2^LogCoset \in Nat
  BY <1>1, PowerPositive
<1>. HIDE DEF half, places
<1>8. \A j \in places : {Place(j), Place(j) + 1, Place(j) + half} \subseteq Coset!Blocks
  BY <1>2, <1>4, <1>6, <1>7
<1>9. ASSUME NEW j \in places, NEW l \in places
      PROVE  /\ Place(j) # Place(l) + 1 /\ Place(j) # Place(l) + half
             /\ j # l => /\ Place(j) # Place(l) /\ Place(j) + 1 # Place(l) + 1
                         /\ Place(j) + 1 # Place(l) + half
  <2>1. Place(j) = 2 * (half * j) /\ Place(l) = 2 * (half * l)
    BY <1>2, <1>7 DEF Place
  <2>. DEFINE x == half * j
              y == half * l
  <2>2. x \in Nat /\ y \in Nat
    BY <1>2, <1>7
  <2>3. j # l => x # y
    <3>1. \A u, v \in Nat : u < v => half * u < half * v
      BY <1>2
    <3>. QED  BY <3>1, <1>7, <2>2
  <2>4. 2 * x # 2 * y + half
    <3>1. j \in Nat /\ l \in Nat
      BY <1>7
    <3>2. CASE j <= l
      <4>1. half * j <= half * l
        BY <1>2, <3>1, <3>2
      <4>. QED  BY <4>1, <1>2, <2>2
    <3>3. CASE j > l
      <4>1. PICK e \in Nat : j = l + 1 + e
        BY <3>1, <3>3
      <4>2. half * j = half * l + half + half * e /\ half * e >= 0
        BY <4>1, <3>1, <1>2
      <4>. QED  BY <4>2, <1>2, <2>2
    <3>. QED  BY <3>1, <3>2, <3>3
  <2>5. j # l => 2 * x + 1 # 2 * y + half
    <3>1. CASE half = 1
      BY <3>1, <2>2, <2>3
    <3>2. CASE half # 1
      <4>1. PICK m \in Nat : half = 2 * m
        BY <1>3, <3>2
      <4>. HIDE DEF x, y
      <4>. QED  BY <4>1, <2>2
    <3>. QED  BY <3>1, <3>2
  <2>. HIDE DEF x, y
  <2>6. Place(j) = 2 * x /\ Place(l) = 2 * y
    BY <2>1 DEF x, y
  <2>. QED  BY <2>2, <2>3, <2>4, <2>5, <2>6, <1>2
<1>. QED  BY <1>4, <1>5, <1>8, <1>9 DEF half, places

\* Digests are hashes of the two below.
LEMMA DigestStep ==
    /\ \A j \in Coset!Blocks : Digest(0, j) = Source(j)
    /\ \A h \in 1..LogCoset : \A j \in 0..2^(LogCoset - h) - 1 :
          Digest(h, j) = Hash(Digest(h - 1, 2 * j), Digest(h - 1, 2 * j + 1))
<1>. DEFINE H == Heights(CosetData, LogCoset)
<1>1. /\ H[0] = CosetData
      /\ \A h \in 1..LogCoset : \A j \in 0..2^(LogCoset - h) - 1 :
            H[h][j] = Hash(H[h - 1][2 * j], H[h - 1][2 * j + 1])
  <2>1. LogCoset \in Nat
    BY LogLenAssumption
  <2>2. IsTree(CosetData, LogCoset, Heights(CosetData, LogCoset))
    BY <2>1, HeightsStep
  <2>. QED  BY <2>2 DEF IsTree
<1>. HIDE DEF H
<1>2. \A h, j : Digest(h, j) = H[h][j]
  BY DEF Digest, H
<1>. QED  BY <1>1, <1>2 DEF CosetData

\* Nothing is hashed: every pair of blocks is in its places.
LEMMA BufferInit == Coset!Init => BufferInv
<1>. SUFFICES ASSUME Coset!Init PROVE BufferInv
  OBVIOUS
<1>. USE DEF Coset!Init
<1>1. LogCoset \in Nat \ {0} /\ step = 1 /\ moved = {} /\ hashed = {}
  BY LogLenAssumption
<1>2. PlacesRight
  <2>. SUFFICES ASSUME NEW j \in 0..2^(LogCoset - step) - 1
                PROVE  /\ buffer[Place(j)] = Digest(step - 1, 2 * j)
                       /\ buffer[Place(j) + 2^(step - 1)] = Digest(step - 1, 2 * j + 1)
    BY <1>1 DEF PlacesRight, PlaceRight
  <2>1. {Place(j), Place(j) + 2^(step - 1)} \subseteq Coset!Blocks
    BY <1>1, PlacesOfStep
  <2>2. Place(j) = 2 * j /\ 2^(step - 1) = 1
    <3>1. 2^1 = 2
      BY PowerStep, PowerPositive
    <3>. QED  BY <1>1, <3>1, PowerPositive DEF Place
  <2>3. step - 1 = 0
    BY <1>1
  <2>. QED  BY <2>1, <2>2, <2>3, DigestStep
<1>3. PICK asked \in SUBSET Coset!Pairs : res = [q \in asked |-> <<>>]
  OBVIOUS
<1>4. \A q : PathUpTo(q, step - 1) = <<>>
  BY <1>1 DEF PathUpTo
<1>5. buffer = [b \in Coset!Blocks |-> buffer[b]] /\ DOMAIN res = asked
  BY <1>3
<1>6. StepsCollected = step - 1
  BY <1>1 DEF StepsCollected
<1>. QED  BY <1>1, <1>2, <1>3, <1>4, <1>5, <1>6 DEF BufferInv

\* Moving a right digest next to its left one disturbs no other iteration.
LEMMA MoveStep ==
    ASSUME BufferInv, NEW i \in Coset!Blocks, Coset!MoveRight(i)
    PROVE  BufferInv'
<1>. USE DEF Coset!MoveRight
<1>1. /\ step \in 1..LogCoset /\ LogCoset \in Nat /\ i \in Coset!Iterations /\ i \notin moved
      /\ i \notin hashed /\ PlacesRight /\ buffer = [b \in Coset!Blocks |-> buffer[b]]
      /\ moved' = moved \cup {i} /\ hashed' = hashed /\ step' = step /\ res' = res
      /\ buffer' = [buffer EXCEPT ![i + 1] = buffer[i + 2^(step - 1)]]
  BY LogLenAssumption DEF BufferInv, Coset!POW2
<1>. DEFINE places == 0..2^(LogCoset - step) - 1
<1>2. PICK l \in places : i = Place(l)
  BY <1>1, PlacesOfStep
<1>3. \A j \in places : /\ {Place(j), Place(j) + 1, Place(j) + 2^(step - 1)} \subseteq Coset!Blocks
                        /\ Place(j) # i + 1
                        /\ j # l => /\ Place(j) # i /\ Place(j) + 1 # i + 1
                                    /\ Place(j) + 2^(step - 1) # i + 1
  <2>1. \A j, k \in places :
           /\ {Place(j), Place(j) + 1, Place(j) + 2^(step - 1)} \subseteq Coset!Blocks
           /\ Place(j) # Place(k) + 1
           /\ j # k => /\ Place(j) # Place(k) /\ Place(j) + 1 # Place(k) + 1
                       /\ Place(j) + 1 # Place(k) + 2^(step - 1)
    BY <1>1, PlacesOfStep
  <2>. HIDE DEF places
  <2>. QED  BY <1>2, <2>1
<1>4. ASSUME NEW j \in places
      PROVE  PlaceRight(j)'
  <2>1. PlaceRight(j)
    BY <1>1 DEF PlacesRight
  <2>2. \A b \in Coset!Blocks : buffer'[b] = IF b = i + 1 THEN buffer[i + 2^(step - 1)] ELSE buffer[b]
    BY <1>1
  <2>3. /\ {Place(j), Place(j) + 1, Place(j) + 2^(step - 1)} \subseteq Coset!Blocks
        /\ Place(j) # i + 1
        /\ j # l => /\ Place(j) # i /\ Place(j) + 1 # i + 1 /\ Place(j) + 2^(step - 1) # i + 1
    BY <1>3
  <2>. HIDE DEF places
  <2>4. Place(j)' = Place(j) /\ \A h, k : Digest(h, k)' = Digest(h, k)
    BY <1>1 DEF Place, Digest, CosetData
  <2>5. CASE j = l
    BY <2>5, <1>1, <1>2, <2>1, <2>2, <2>3, <2>4 DEF PlaceRight
  <2>6. CASE j # l
    BY <2>6, <1>1, <2>1, <2>2, <2>3, <2>4 DEF PlaceRight
  <2>. QED  BY <2>5, <2>6
<1>5. PlacesRight'
  BY <1>1, <1>4 DEF PlacesRight
<1>6. Coset!Iterations' = Coset!Iterations
  BY <1>1 DEF Coset!Iterations
<1>7. buffer' = [b \in Coset!Blocks |-> buffer'[b]]
  BY <1>1
<1>. QED  BY <1>1, <1>5, <1>6, <1>7 DEF BufferInv, StepsCollected, PathUpTo, Digest, CosetData

\* Hashing a pair puts the digest where the next step looks for it.
LEMMA HashPairStep ==
    ASSUME BufferInv, NEW i \in Coset!Blocks, Coset!HashPair(i)
    PROVE  BufferInv'
<1>. USE DEF Coset!HashPair
<1>1. /\ step \in 1..LogCoset /\ LogCoset \in Nat /\ i \in Coset!Iterations /\ i \in moved
      /\ i \notin hashed /\ PlacesRight /\ buffer = [b \in Coset!Blocks |-> buffer[b]]
      /\ moved' = moved /\ hashed' = hashed \cup {i} /\ step' = step /\ res' = res
      /\ buffer' = [buffer EXCEPT ![i] = Hash(buffer[i], buffer[i + 1])]
  BY LogLenAssumption DEF BufferInv
<1>. DEFINE places == 0..2^(LogCoset - step) - 1
<1>2. PICK l \in places : i = Place(l)
  BY <1>1, PlacesOfStep
<1>3. \A j \in places : /\ {Place(j), Place(j) + 1, Place(j) + 2^(step - 1)} \subseteq Coset!Blocks
                        /\ Place(j) + 1 # i /\ Place(j) + 2^(step - 1) # i
                        /\ j # l => Place(j) # i
  <2>1. \A j, k \in places :
           /\ {Place(j), Place(j) + 1, Place(j) + 2^(step - 1)} \subseteq Coset!Blocks
           /\ Place(j) # Place(k) + 1 /\ Place(j) # Place(k) + 2^(step - 1)
           /\ j # k => Place(j) # Place(k)
    BY <1>1, PlacesOfStep
  <2>. HIDE DEF places
  <2>. QED  BY <1>2, <2>1
<1>4. ASSUME NEW j \in places
      PROVE  PlaceRight(j)'
  <2>1. PlaceRight(j)
    BY <1>1 DEF PlacesRight
  <2>2. \A b \in Coset!Blocks : buffer'[b] = IF b = i THEN Hash(buffer[i], buffer[i + 1]) ELSE buffer[b]
    BY <1>1
  <2>3. /\ {Place(j), Place(j) + 1, Place(j) + 2^(step - 1)} \subseteq Coset!Blocks
        /\ Place(j) + 1 # i /\ Place(j) + 2^(step - 1) # i
        /\ j # l => Place(j) # i
    BY <1>3
  <2>4. Digest(step, j) = Hash(Digest(step - 1, 2 * j), Digest(step - 1, 2 * j + 1))
    BY <1>1, DigestStep
  <2>5. Place(j)' = Place(j) /\ \A h, k : Digest(h, k)' = Digest(h, k)
    BY <1>1 DEF Place, Digest, CosetData
  <2>. HIDE DEF places
  <2>6. CASE j = l
    BY <2>6, <1>1, <1>2, <2>1, <2>2, <2>4, <2>5 DEF PlaceRight
  <2>7. CASE j # l
    BY <2>7, <1>1, <2>1, <2>2, <2>3, <2>5 DEF PlaceRight
  <2>. QED  BY <2>6, <2>7
<1>5. PlacesRight'
  BY <1>1, <1>4 DEF PlacesRight
<1>6. Coset!Iterations' = Coset!Iterations
  BY <1>1 DEF Coset!Iterations
<1>7. buffer' = [b \in Coset!Blocks |-> buffer'[b]]
  BY <1>1
<1>. QED  BY <1>1, <1>5, <1>6, <1>7 DEF BufferInv, StepsCollected, PathUpTo, Digest, CosetData

\* A path grows by the digest the step ends with.
LEMMA PathGrows ==
    ASSUME NEW q, NEW n \in Nat
    PROVE  /\ PathUpTo(q, n) \in Seq({Digest(m, Coset!Twin(q \div 2^(m - 1))) : m \in 1..n + 1})
           /\ Append(PathUpTo(q, n), Digest(n + 1, Coset!Twin(q \div 2^n))) = PathUpTo(q, n + 1)
<1>. DEFINE D(m) == Digest(m, Coset!Twin(q \div 2^(m - 1)))
            T == {D(m) : m \in 1..n + 1}
            path == [m \in 1..n |-> D(m)]
<1>1. PathUpTo(q, n) = path /\ PathUpTo(q, n + 1) = [m \in 1..n + 1 |-> D(m)]
  BY DEF PathUpTo
<1>2. D(n + 1) = Digest(n + 1, Coset!Twin(q \div 2^n))
  <2>1. (n + 1) - 1 = n
    OBVIOUS
  <2>. QED  BY <2>1
<1>. HIDE DEF D
<1>3. path \in Seq(T) /\ D(n + 1) \in T /\ Len(path) = n
  OBVIOUS
<1>4. Append(path, D(n + 1)) = [m \in 1..n + 1 |-> D(m)]
  <2>. HIDE DEF T
  <2>. QED  BY <1>3
<1>5. T = {Digest(m, Coset!Twin(q \div 2^(m - 1))) : m \in 1..n + 1}
  BY DEF D
<1>. QED  BY <1>1, <1>2, <1>3, <1>4, <1>5

\* The digests of a step are the data of the next one, and the paths grow by
\* the twins among them.
LEMMA EndStepStep == BufferInv /\ Coset!EndStep => BufferInv'
<1>. SUFFICES ASSUME BufferInv, Coset!EndStep PROVE BufferInv'
  OBVIOUS
<1>. USE DEF Coset!EndStep
<1>1. /\ step \in 1..LogCoset /\ LogCoset \in Nat \ {0} /\ PlacesRight
      /\ buffer' = buffer /\ buffer = [b \in Coset!Blocks |-> buffer[b]]
      /\ hashed = Coset!Iterations /\ step' = step + 1 /\ moved' = {} /\ hashed' = {}
  BY LogLenAssumption DEF BufferInv
<1>. DEFINE places == 0..2^(LogCoset - step) - 1
<1>2. \A j \in places : buffer[Place(j)] = Digest(step, j)
  <2>1. \A j \in places : Place(j) \in hashed
    BY <1>1, PlacesOfStep
  <2>. QED  BY <1>1, <2>1 DEF PlacesRight, PlaceRight
<1>3. \A h, k : Digest(h, k)' = Digest(h, k)
  BY DEF Digest, CosetData
<1>4. 2^(step + 1) = 2 * 2^step /\ 2^step \in Nat
  BY <1>1, PowerStep
<1>5. ASSUME step < LogCoset PROVE PlacesRight'
  <2>1. 2^(LogCoset - step) = 2 * 2^(LogCoset - (step + 1)) /\ 2^(LogCoset - (step + 1)) \in Nat
    <3>1. LogCoset - (step + 1) \in Nat /\ (LogCoset - (step + 1)) + 1 = LogCoset - step
      BY <1>1, <1>5
    <3>2. /\ 2^((LogCoset - (step + 1)) + 1) = 2^(LogCoset - (step + 1)) + 2^(LogCoset - (step + 1))
          /\ 2^(LogCoset - (step + 1)) \in Nat
      BY <3>1, PowerStep
    <3>. QED  BY <3>1, <3>2
  <2>2. ASSUME NEW j \in 0..2^(LogCoset - (step + 1)) - 1
        PROVE  /\ buffer[2^(step + 1) * j] = Digest(step, 2 * j)
               /\ buffer[2^(step + 1) * j + 2^step] = Digest(step, 2 * j + 1)
    <3>1. 2 * j \in places /\ 2 * j + 1 \in places
      BY <2>1
    <3>2. 2^(step + 1) * j = Place(2 * j) /\ 2^(step + 1) * j + 2^step = Place(2 * j + 1)
      <4>1. \A d \in Nat : (2 * d) * j = d * (2 * j) /\ (2 * d) * j + d = d * (2 * j + 1)
        BY <2>1
      <4>. QED  BY <4>1, <1>4 DEF Place
    <3>. QED  BY <1>2, <3>1, <3>2
  <2>3. (step + 1) - 1 = step
    BY <1>1
  <2>. QED  BY <1>1, <1>3, <2>2, <2>3 DEF PlacesRight, PlaceRight, Place
<1>6. ASSUME step = LogCoset PROVE buffer[0] = Digest(LogCoset, 0)
  <2>1. 0 \in places /\ Place(0) = 0
    BY <1>1, <1>4, <1>6, PowerPositive DEF Place
  <2>. QED  BY <1>2, <1>6, <2>1
<1>7. DOMAIN res' = DOMAIN res /\ DOMAIN res \subseteq Coset!Pairs
  BY DEF BufferInv
<1>8. ASSUME NEW q \in DOMAIN res
      PROVE  res'[q] = PathUpTo(q, IF step = LogCoset THEN step - 1 ELSE step)
  <2>1. res[q] = PathUpTo(q, step - 1)
    BY <1>1 DEF BufferInv, StepsCollected
  <2>2. CASE step = LogCoset
    BY <1>1, <2>1, <2>2
  <2>3. CASE step # LogCoset
    <3>1. step - 1 \in Nat /\ (step - 1) + 1 = step /\ LogCoset - step \in Nat \ {0}
      BY <1>1, <2>3
    <3>2. q \in 0..2^(LogCoset - 1) - 1
      BY <1>7 DEF Coset!Pairs, Coset!POW2
    <3>3. q \div 2^(step - 1) \in 0..2^(LogCoset - step) - 1
      <4>1. LogCoset - 1 \in Nat /\ step - 1 \in 0..LogCoset - 1
            /\ (LogCoset - 1) - (step - 1) = LogCoset - step
        BY <1>1
      <4>. QED  BY <4>1, <3>2, ShiftBelow
    <3>4. Coset!Twin(q \div 2^(step - 1)) \in places
      <4>. DEFINE m == LogCoset - step
                  k == q \div 2^(step - 1)
      <4>1. m \in Nat \ {0} /\ k \in 0..2^m - 1
        BY <3>1, <3>3
      <4>2. places = 0..2^m - 1
        OBVIOUS
      <4>. HIDE DEF m, k, places
      <4>. QED  BY <4>1, <4>2, TwinRange DEF Coset!Twin, k
    <3>5. buffer[Coset!TwinLocation(q)] = Digest(step, Coset!Twin(q \div 2^(step - 1)))
      <4>1. Coset!TwinLocation(q) = Place(Coset!Twin(q \div 2^(step - 1)))
        <5>1. \A x \in places : x * 2^step = 2^step * x
          BY <1>4
        <5>. QED  BY <5>1, <3>4 DEF Coset!TwinLocation, Coset!ShiftRight, Coset!POW2, Place
      <4>. QED  BY <4>1, <1>2, <3>4
    <3>6. res'[q] = Append(res[q], buffer[Coset!TwinLocation(q)])
      BY <1>1, <2>3
    <3>7. Append(PathUpTo(q, step - 1), Digest((step - 1) + 1, Coset!Twin(q \div 2^(step - 1))))
            = PathUpTo(q, (step - 1) + 1)
      BY <3>1, PathGrows
    <3>8. Append(PathUpTo(q, step - 1), Digest(step, Coset!Twin(q \div 2^(step - 1))))
            = PathUpTo(q, step)
      BY <3>1, <3>7
    <3>. QED  BY <2>1, <2>3, <3>5, <3>6, <3>8
  <2>. QED  BY <2>2, <2>3
<1>9. res' = [q \in DOMAIN res |-> res'[q]]
  BY DEF BufferInv
<1>10. \A q : PathUpTo(q, StepsCollected)' = PathUpTo(q, StepsCollected')
  BY <1>3 DEF PathUpTo
<1>11. Coset!Iterations' \subseteq Coset!Blocks /\ step + 1 \in 1..LogCoset + 1
  BY <1>1 DEF Coset!Iterations
<1>12. StepsCollected' = IF step = LogCoset THEN step - 1 ELSE step
  BY <1>1 DEF StepsCollected
<1>13. step' <= LogCoset => PlacesRight'
  BY <1>1, <1>5
<1>14. step' > LogCoset => moved' = {} /\ hashed' = {} /\ buffer'[0] = Digest(LogCoset, 0)'
  BY <1>1, <1>3, <1>6
<1>15. res' = [q \in DOMAIN res' |-> PathUpTo(q, StepsCollected)']
  BY <1>7, <1>8, <1>9, <1>10, <1>12
<1>. QED  BY <1>1, <1>7, <1>11, <1>13, <1>14, <1>15 DEF BufferInv

\* Every step keeps the buffer's invariant.
LEMMA BufferStep == BufferInv /\ [Coset!Next]_cosetVars => BufferInv'
<1>. SUFFICES ASSUME BufferInv, [Coset!Next]_cosetVars PROVE BufferInv'
  OBVIOUS
<1>1. CASE UNCHANGED cosetVars
  BY <1>1 DEF cosetVars, BufferInv, PlacesRight, PlaceRight, Place, StepsCollected, PathUpTo, Digest, CosetData,
              Coset!Iterations
<1>2. Coset!Finished => UNCHANGED cosetVars
  BY DEF Coset!Finished, Coset!vars, cosetVars
<1>. QED  BY <1>1, <1>2, MoveStep, HashPairStep, EndStepStep DEF Coset!Next

\* A finished buffer has given up the root and the paths of its tree.
LEMMA BufferPathsRight == BufferInv => Coset!PathsRight
<1>. SUFFICES ASSUME BufferInv, step > LogCoset PROVE Coset!PathsRight
  BY DEF Coset!PathsRight
<1>1. LogCoset \in Nat \ {0} /\ step = LogCoset + 1
  BY LogLenAssumption DEF BufferInv
<1>2. buffer[0] = Coset!Tree[LogCoset][0]
  BY SameTrees DEF BufferInv, Digest, CosetData, Coset!Tree
<1>3. ASSUME NEW q \in DOMAIN res
      PROVE  res[q] = Coset!MerklePath(CosetData, LogCoset, q)
  <2>1. res[q] = PathUpTo(q, LogCoset - 1)
    BY <1>1 DEF BufferInv, StepsCollected
  <2>. QED  BY <2>1, SameTrees
            DEF PathUpTo, Digest, Coset!MerklePath, Coset!ShiftRight, Coset!POW2
<1>. QED  BY <1>2, <1>3 DEF Coset!PathsRight, CosetData

-----------------------------------------------------------------------------
\* Whichever way the machine's memory decides, its invariant holds.
LEMMA BuildInit == Init => IInv
BY HeapInit, BufferInit DEF Init, IInv

\* The way is decided once, and each step is one of that way.
LEMMA BuildStep == IInv /\ [Next]_vars => IInv'
BY HeapStep, BufferStep DEF IInv, Next, vars

\* Where each task is determines what every place of the heap or the buffer
\* holds.
THEOREM BuildInvariant == Spec => []IInv
<1>. QED  BY BuildInit, BuildStep, PTL DEF Spec

\* What the invariant says of commitments.
LEMMA BuildRight ==
    IInv => TreeRight /\ PathsRight /\ (DigestsTellable => ReadsFinal)
BY HeapTreeRight, HeapReadsFinal, BufferPathsRight DEF IInv, TreeRight, PathsRight, ReadsFinal

-----------------------------------------------------------------------------
(* The vocabulary of the answers is that of the trees. *)

AllBlocks == 0..2^LogMatrix - 1

\* The digest of layer l at index i of the committed tree.
TreeAt(l, i) == Heights(Evaluation, LogMatrix)[l][i]

\* SparceMerkle's names for the matrix and its tree.
LEMMA AnswerVocabulary ==
    /\ LogMatrix \in Nat \ {0}
    /\ Answer!Blocks = AllBlocks /\ AllBlocks \subseteq Nat
    /\ Answer!Layers = 0..LogMatrix - 1
    /\ Answer!Data = Evaluation
    /\ \A b \in AllBlocks : Evaluation[b] = Source(b)
    /\ \A D, n : Answer!Heights(D, n) = Heights(D, n)
    /\ Answer!Tree = Heights(Evaluation, LogMatrix)
<1>1. \A D, n : Answer!Heights(D, n) = Heights(D, n)
  BY DEF Answer!Heights, Heights, Answer!POW2, POW2
<1>2. Answer!Data = Evaluation /\ Answer!Blocks = AllBlocks
  BY DEF Answer!Data, Answer!Blocks, Answer!POW2, Evaluation, Matrix!Blocks, Matrix!POW2, AllBlocks
<1>3. Answer!Tree = Heights(Evaluation, LogMatrix)
  BY <1>1, <1>2 DEF Answer!Tree
<1>. QED  BY <1>1, <1>2, <1>3, LogLenAssumption
          DEF Answer!Layers, AllBlocks, Evaluation, Matrix!Blocks, Matrix!POW2

\* The tree, layer by layer.
LEMMA TreeAtStep ==
    /\ \A b \in AllBlocks : TreeAt(0, b) = Source(b) /\ Evaluation[b] = Source(b)
    /\ \A l \in 1..LogMatrix : \A j \in 0..2^(LogMatrix - l) - 1 :
          TreeAt(l, j) = Hash(TreeAt(l - 1, 2 * j), TreeAt(l - 1, 2 * j + 1))
<1>. DEFINE H == Heights(Evaluation, LogMatrix)
<1>1. /\ H[0] = Evaluation
      /\ \A h \in 1..LogMatrix : \A j \in 0..2^(LogMatrix - h) - 1 :
            H[h][j] = Hash(H[h - 1][2 * j], H[h - 1][2 * j + 1])
  <2>1. LogMatrix \in Nat
    BY AnswerVocabulary
  <2>2. IsTree(Evaluation, LogMatrix, Heights(Evaluation, LogMatrix))
    BY <2>1, HeightsStep
  <2>. QED  BY <2>2 DEF IsTree
<1>. HIDE DEF H
<1>2. \A h, j : TreeAt(h, j) = H[h][j]
  BY DEF TreeAt, H
<1>. QED  BY <1>1, <1>2, AnswerVocabulary

-----------------------------------------------------------------------------
(* The shape of an answer. *)

\* With the other block of every pair.
PairUp(Q) == Q \cup {Answer!Twin(i) : i \in Q}

\* The ancestors of the queried indices, which are computed in every layer but
\* the lowest, and what a layer has to receive for them.
Above(Q, l) == {q \div 2^l : q \in Q}
Implied(Q, l) == IF l = 0 THEN {} ELSE Above(Q, l)
Explicit(Q, l) == IF l = 0 THEN PairUp(Q) ELSE PairUp(Above(Q, l)) \ Above(Q, l)

\* The other one of a pair has the same parent, and nobody else.
LEMMA TwinFacts ==
    ASSUME NEW x \in Nat
    PROVE  /\ Answer!Twin(x) \in Nat /\ Answer!Twin(Answer!Twin(x)) = x /\ Answer!Twin(x) # x
           /\ Answer!Twin(x) \div 2 = x \div 2 /\ x \div 2 \in Nat
           /\ {2 * (x \div 2), 2 * (x \div 2) + 1} = {x, Answer!Twin(x)}
BY DEF Answer!Twin

\* Pairs complete each other, and twins have the same ancestors.
LEMMA AboveFacts ==
    ASSUME NEW Q \in SUBSET Nat
    PROVE  /\ PairUp(Q) \subseteq Nat /\ PairUp(PairUp(Q)) = PairUp(Q)
           /\ \A i \in PairUp(Q) : Answer!Twin(i) \in PairUp(Q)
           /\ \A l \in Nat : Above(Q, l) \subseteq Nat
           /\ Above(Q, 0) = Q
           /\ \A l \in Nat : {i \div 2 : i \in PairUp(Above(Q, l))} = Above(Q, l + 1)
           /\ \A l \in Nat : Above(PairUp(Q), l + 1) = Above(Q, l + 1)
<1>1. /\ PairUp(Q) \subseteq Nat /\ PairUp(PairUp(Q)) = PairUp(Q)
      /\ \A i \in PairUp(Q) : Answer!Twin(i) \in PairUp(Q)
  <2>1. \A x \in Q : Answer!Twin(x) \in Nat /\ Answer!Twin(Answer!Twin(x)) = x
    BY TwinFacts
  <2>2. PairUp(Q) \subseteq Nat /\ \A i \in PairUp(Q) : Answer!Twin(i) \in PairUp(Q)
    BY <2>1 DEF PairUp
  <2>3. PairUp(PairUp(Q)) = PairUp(Q) \cup {Answer!Twin(i) : i \in PairUp(Q)}
    BY DEF PairUp
  <2>. QED  BY <2>2, <2>3
<1>2. \A l \in Nat : Above(Q, l) \subseteq Nat
  BY PowerPositive, Quotient DEF Above
<1>3. Above(Q, 0) = Q
  <2>1. \A q \in Q : q \div 2^0 = q
    BY PowerPositive
  <2>. QED  BY <2>1 DEF Above
<1>4. ASSUME NEW l \in Nat
      PROVE  {i \div 2 : i \in PairUp(Above(Q, l))} = Above(Q, l + 1)
  <2>1. \A q \in Q : (q \div 2^l) \div 2 = q \div 2^(l + 1) /\ q \div 2^l \in Nat
    <3>1. \A q \in Nat : (q \div 2^l) \div 2^1 = q \div 2^(l + 1)
      BY ShiftSum
    <3>2. 2^1 = 2
      BY PowerStep, PowerPositive
    <3>. QED  BY <3>1, <3>2, <1>2 DEF Above
  <2>2. \A q \in Q : Answer!Twin(q \div 2^l) \div 2 = q \div 2^(l + 1)
    BY <2>1, TwinFacts
  <2>3. PairUp(Above(Q, l)) = {q \div 2^l : q \in Q} \cup {Answer!Twin(q \div 2^l) : q \in Q}
    BY DEF PairUp, Above
  <2>. DEFINE A == {q \div 2^l : q \in Q}
              B == {Answer!Twin(q \div 2^l) : q \in Q}
  <2>4. {i \div 2 : i \in A} = Above(Q, l + 1) /\ {i \div 2 : i \in B} \subseteq Above(Q, l + 1)
    <3>1. {i \div 2 : i \in A} = {(q \div 2^l) \div 2 : q \in Q}
      OBVIOUS
    <3>2. {i \div 2 : i \in B} = {Answer!Twin(q \div 2^l) \div 2 : q \in Q}
      OBVIOUS
    <3>. HIDE DEF A, B
    <3>. QED  BY <2>1, <2>2, <3>1, <3>2 DEF Above
  <2>5. {i \div 2 : i \in A \cup B} = {i \div 2 : i \in A} \cup {i \div 2 : i \in B}
    OBVIOUS
  <2>. HIDE DEF A, B
  <2>6. PairUp(Above(Q, l)) = A \cup B
    BY <2>3 DEF A, B
  <2>. QED  BY <2>4, <2>5, <2>6
<1>5. ASSUME NEW l \in Nat
      PROVE  Above(PairUp(Q), l + 1) = Above(Q, l + 1)
  <2>1. \A q \in Nat : (q \div 2) \div 2^l = q \div 2^(l + 1)
    <3>1. \A q \in Nat : (q \div 2^1) \div 2^l = q \div 2^(1 + l)
      BY ShiftSum
    <3>2. 2^1 = 2 /\ 1 + l = l + 1
      BY PowerStep, PowerPositive
    <3>. QED  BY <3>1, <3>2
  <2>2. \A q \in Q : Answer!Twin(q) \div 2^(l + 1) = q \div 2^(l + 1)
    <3>. SUFFICES ASSUME NEW q \in Q PROVE Answer!Twin(q) \div 2^(l + 1) = q \div 2^(l + 1)
      OBVIOUS
    <3>1. q \in Nat /\ Answer!Twin(q) \in Nat /\ Answer!Twin(q) \div 2 = q \div 2
      BY TwinFacts
    <3>2. /\ (Answer!Twin(q) \div 2) \div 2^l = Answer!Twin(q) \div 2^(l + 1)
          /\ (q \div 2) \div 2^l = q \div 2^(l + 1)
      BY <2>1, <3>1
    <3>. QED  BY <3>1, <3>2
  <2>. QED  BY <2>2 DEF Above, PairUp
<1>. QED  BY <1>1, <1>2, <1>3, <1>4, <1>5

\* A recursive definition over the layers, applied to the layers it names.
KnownFrom(Q, K, l) ==
    IF l = 0 THEN [explicit |-> PairUp(Q), implied |-> {}]
    ELSE LET implied == {Answer!ShiftRight(i, 1) : i \in K[l - 1].explicit \cup K[l - 1].implied}
         IN  [explicit |-> {Answer!Twin(i) : i \in implied} \ implied, implied |-> implied]

\* Which indices are known, in closed form.
LEMMA KnownIs ==
    ASSUME NEW Q \in SUBSET Nat
    PROVE  \A l \in Answer!Layers :
              Answer!Known(Q)[l] = [explicit |-> Explicit(Q, l), implied |-> Implied(Q, l)]
<1>. DEFINE F == [l \in Answer!Layers |-> [explicit |-> Explicit(Q, l), implied |-> Implied(Q, l)]]
            K == Answer!Known(Q)
<1>1. 2^1 = 2
  BY PowerStep, PowerPositive
<1>2. \A i : Answer!ShiftRight(i, 1) = i \div 2
  BY <1>1 DEF Answer!ShiftRight, Answer!POW2
<1>3. Answer!Layers = 0..LogMatrix - 1 /\ LogMatrix \in Nat
  BY AnswerVocabulary
<1>4. ASSUME NEW l \in Answer!Layers PROVE F[l] = KnownFrom(Q, F, l)
  <2>1. CASE l = 0
    BY <2>1 DEF KnownFrom, Explicit, Implied
  <2>2. CASE l # 0
    <3>1. l - 1 \in Answer!Layers /\ l - 1 \in Nat /\ (l - 1) + 1 = l
      BY <1>3, <2>2
    <3>2. F[l - 1] = [explicit |-> Explicit(Q, l - 1), implied |-> Implied(Q, l - 1)]
      BY <3>1
    <3>3. Explicit(Q, l - 1) \cup Implied(Q, l - 1) = PairUp(Above(Q, l - 1))
      BY AboveFacts DEF Explicit, Implied, PairUp
    <3>4. {i \div 2 : i \in PairUp(Above(Q, l - 1))} = Above(Q, l)
      BY <3>1, AboveFacts
    <3>5. PairUp(Above(Q, l)) \ Above(Q, l) = {Answer!Twin(i) : i \in Above(Q, l)} \ Above(Q, l)
      BY DEF PairUp
    <3>6. {Answer!ShiftRight(i, 1) : i \in F[l - 1].explicit \cup F[l - 1].implied} = Above(Q, l)
      BY <1>2, <3>2, <3>3, <3>4
    <3>7. F[l] = [explicit |-> PairUp(Above(Q, l)) \ Above(Q, l), implied |-> Above(Q, l)]
      BY <2>2 DEF Explicit, Implied
    <3>. HIDE DEF F
    <3>. QED  BY <2>2, <3>5, <3>6, <3>7 DEF KnownFrom
  <2>. QED  BY <2>1, <2>2
<1>5. F = [l \in Answer!Layers |-> KnownFrom(Q, F, l)]
  BY <1>4
<1>. HIDE DEF F
<1>6. K = [l \in Answer!Layers |-> KnownFrom(Q, K, l)]
  BY <1>5 DEF Answer!Known, KnownFrom, PairUp
<1>. HIDE DEF K
<1>. DEFINE S == {l \in Nat : l \in Answer!Layers => K[l] = F[l]}
<1>7. 0 \in S
  BY <1>5, <1>6 DEF KnownFrom
<1>8. ASSUME NEW l \in Nat, l \in S PROVE l + 1 \in S
  <2>1. l + 1 \in Answer!Layers => l \in Answer!Layers /\ (l + 1) - 1 = l /\ l + 1 # 0
    BY <1>3
  <2>2. l + 1 \in Answer!Layers => KnownFrom(Q, K, l + 1) = KnownFrom(Q, F, l + 1)
    BY <1>8, <2>1 DEF KnownFrom
  <2>. QED  BY <1>5, <1>6, <2>2
<1>9. \A l \in Nat : l \in S
  <2>. HIDE DEF S
  <2>. QED  BY <1>7, <1>8, SetInduction
<1>10. Answer!Layers \subseteq Nat
  BY <1>3
<1>. QED  BY <1>9, <1>10 DEF F, K

\* The prover holds both blocks of every pair it answers, the verifier the
\* blocks it asked for: both derive the same shape.
LEMMA ShapeOfPairs ==
    ASSUME NEW Q \in SUBSET Nat, NEW l \in Nat
    PROVE  Explicit(PairUp(Q), l) = Explicit(Q, l)
<1>1. CASE l = 0
  BY <1>1, AboveFacts DEF Explicit
<1>2. CASE l # 0
  <2>1. l - 1 \in Nat /\ (l - 1) + 1 = l
    BY <1>2
  <2>2. Above(PairUp(Q), l) = Above(Q, l)
    BY <2>1, AboveFacts
  <2>. QED  BY <1>2, <2>2 DEF Explicit
<1>. QED  BY <1>1, <1>2

\* What belongs to a layer is within it.
LEMMA ShapeInTree ==
    ASSUME NEW Q \in SUBSET AllBlocks, NEW l \in 0..LogMatrix - 1
    PROVE  /\ Above(Q, l) \subseteq 0..2^(LogMatrix - l) - 1
           /\ PairUp(Above(Q, l)) \subseteq 0..2^(LogMatrix - l) - 1
           /\ Explicit(Q, l) \subseteq PairUp(Above(Q, l))
           /\ Explicit(Q, l) \subseteq AllBlocks
<1>1. LogMatrix \in Nat \ {0} /\ Q \subseteq Nat
  BY AnswerVocabulary
<1>2. Above(Q, l) \subseteq 0..2^(LogMatrix - l) - 1
  <2>1. \A q \in 0..2^LogMatrix - 1 : q \div 2^l \in 0..2^(LogMatrix - l) - 1
    BY <1>1, ShiftBelow
  <2>. QED  BY <2>1 DEF Above, AllBlocks
<1>3. PairUp(Above(Q, l)) \subseteq 0..2^(LogMatrix - l) - 1
  <2>1. LogMatrix - l \in Nat \ {0}
    BY <1>1
  <2>2. \A x \in 0..2^(LogMatrix - l) - 1 : Answer!Twin(x) \in 0..2^(LogMatrix - l) - 1
    BY <2>1, TwinRange DEF Answer!Twin
  <2>. QED  BY <1>2, <2>2 DEF PairUp
<1>4. Explicit(Q, l) \subseteq PairUp(Above(Q, l))
  BY <1>1, AboveFacts DEF Explicit
<1>5. 2^(LogMatrix - l) <= 2^LogMatrix /\ 2^LogMatrix \in Nat /\ 2^(LogMatrix - l) \in Nat
  <2>1. LogMatrix - l \in Nat /\ LogMatrix - l <= LogMatrix
    BY <1>1
  <2>. QED  BY <1>1, <2>1, PowerMonotone, PowerPositive
<1>6. Explicit(Q, l) \subseteq AllBlocks
  BY <1>3, <1>4, <1>5 DEF AllBlocks
<1>. QED  BY <1>2, <1>3, <1>4, <1>6

\* The places of an answer's digests, and the order in which they are sent.
Entries(Q) == UNION {{<<l, i>> : i \in Explicit(Q, l)} : l \in Answer!Layers}
UpTo(E, p) == {q \in E : \/ q[1] < p[1]
                         \/ q[1] = p[1] /\ q[2] <= p[2]}
InOrder(E) == [n \in 1..Answer!Cardinality(E) |->
                  CHOOSE p \in E : Answer!Cardinality(UpTo(E, p)) = n]

\* The size of a set is the same in the instance.
LEMMA SameCardinality == \A S : Answer!Cardinality(S) = Cardinality(S)
BY DEF Answer!Cardinality, Cardinality, Answer!IsFiniteSet, IsFiniteSet

\* Sending a finite set of places in order leaves none out and sends none
\* twice.
LEMMA InOrderRight ==
    ASSUME NEW E \in SUBSET (Nat \X Nat), IsFiniteSet(E)
    PROVE  /\ InOrder(E) = [n \in 1..Cardinality(E) |-> InOrder(E)[n]]
           /\ Cardinality(E) \in Nat
           /\ \A n \in 1..Cardinality(E) : InOrder(E)[n] \in E
           /\ \A p \in E : \E n \in 1..Cardinality(E) : InOrder(E)[n] = p
           /\ \A m, n \in 1..Cardinality(E) : InOrder(E)[m] = InOrder(E)[n] => m = n
<1>. DEFINE N == Cardinality(E)
            rank == [p \in E |-> Cardinality(UpTo(E, p))]
            M == InOrder(E)
<1>1. N \in Nat /\ IsFiniteSet(1..N) /\ Cardinality(1..N) = N
  BY FS_CardinalityType, FS_Interval
<1>2. M = [n \in 1..N |-> CHOOSE p \in E : Answer!Cardinality(UpTo(E, p)) = n]
  BY SameCardinality DEF InOrder
<1>3. \A p \in E : IsFiniteSet(UpTo(E, p)) /\ rank[p] \in 1..N
  <2>. SUFFICES ASSUME NEW p \in E PROVE IsFiniteSet(UpTo(E, p)) /\ rank[p] \in 1..N
    OBVIOUS
  <2>1. UpTo(E, p) \subseteq E /\ p \in UpTo(E, p)
    BY DEF UpTo
  <2>2. IsFiniteSet(UpTo(E, p)) /\ rank[p] <= N /\ rank[p] \in Nat
    BY <2>1, FS_Subset, FS_CardinalityType
  <2>3. rank[p] # 0
    BY <2>1, <2>2, FS_EmptySet
  <2>. QED  BY <1>1, <2>2, <2>3
<1>4. ASSUME NEW p \in E, NEW q \in E, p # q PROVE rank[p] # rank[q]
  <2>1. ASSUME NEW x \in E, NEW y \in E, x # y, x \in UpTo(E, y) PROVE rank[x] # rank[y]
    <3>1. UpTo(E, x) \subseteq UpTo(E, y)
      BY <2>1 DEF UpTo
    <3>2. y \in UpTo(E, y) /\ y \notin UpTo(E, x)
      BY <2>1 DEF UpTo
    <3>3. rank[x] = rank[y] => UpTo(E, y) = UpTo(E, x)
      BY <1>3, <3>1, FS_Subset
    <3>. QED  BY <3>2, <3>3
  <2>2. p \in UpTo(E, q) \/ q \in UpTo(E, p)
    BY DEF UpTo
  <2>. QED  BY <1>4, <2>1, <2>2
<1>5. rank \in Injection(E, 1..N)
  BY <1>3, <1>4 DEF Injection, IsInjective
<1>6. rank \in Surjection(E, 1..N)
  BY <1>1, <1>5, FS_Injection
<1>7. \A n \in 1..N : \E p \in E : rank[p] = n
  BY <1>6 DEF Surjection
<1>8. \A n \in 1..N : M[n] \in E /\ rank[M[n]] = n
  <2>. SUFFICES ASSUME NEW n \in 1..N PROVE M[n] \in E /\ rank[M[n]] = n
    OBVIOUS
  <2>1. M[n] = CHOOSE p \in E : Answer!Cardinality(UpTo(E, p)) = n
    <3>. HIDE DEF M, N
    <3>. QED  BY <1>2
  <2>2. \E p \in E : Answer!Cardinality(UpTo(E, p)) = n
    BY <1>7, SameCardinality
  <2>3. M[n] \in E /\ Answer!Cardinality(UpTo(E, M[n])) = n
    <3>. HIDE DEF M
    <3>. QED  BY <2>1, <2>2
  <2>. QED  BY <2>3, SameCardinality
<1>9. \A p \in E : M[rank[p]] = p
  BY <1>3, <1>4, <1>8
<1>. HIDE DEF rank, N
<1>10. \A p \in E : \E n \in 1..N : M[n] = p
  BY <1>3, <1>9
<1>11. M = [n \in 1..N |-> M[n]]
  BY <1>2
<1>. QED  BY <1>1, <1>8, <1>10, <1>11 DEF N

\* The mapping of both parties sends the places of the shape, each once.
LEMMA MappingRight ==
    ASSUME NEW Q \in SUBSET AllBlocks
    PROVE  LET M == Answer!getSerializationMapping(Q)
               N == Cardinality(Entries(Q))
           IN  /\ N \in Nat /\ M = [n \in 1..N |-> M[n]]
               /\ \A n \in 1..N : M[n] \in Entries(Q)
               /\ \A p \in Entries(Q) : \E n \in 1..N : M[n] = p
               /\ \A m, n \in 1..N : M[m] = M[n] => m = n
               /\ Answer!getSerializationMapping(PairUp(Q)) = M
<1>1. \A K : Answer!getSerializationMapping(K)
                = InOrder(UNION {{<<l, i>> : i \in Answer!Known(K)[l].explicit} : l \in Answer!Layers})
  BY DEF Answer!getSerializationMapping, InOrder, UpTo
<1>2. ASSUME NEW K \in SUBSET Nat
      PROVE  Answer!getSerializationMapping(K) = InOrder(Entries(K))
  <2>1. \A l \in Answer!Layers : Answer!Known(K)[l].explicit = Explicit(K, l)
    <3>. SUFFICES ASSUME NEW l \in Answer!Layers
                  PROVE  Answer!Known(K)[l].explicit = Explicit(K, l)
      OBVIOUS
    <3>1. Answer!Known(K)[l] = [explicit |-> Explicit(K, l), implied |-> Implied(K, l)]
      BY KnownIs
    <3>. QED  BY <3>1
  <2>2. UNION {{<<l, i>> : i \in Answer!Known(K)[l].explicit} : l \in Answer!Layers} = Entries(K)
    BY <2>1 DEF Entries
  <2>. QED  BY <1>1, <2>2
<1>3. Answer!Layers = 0..LogMatrix - 1 /\ AllBlocks \subseteq Nat /\ LogMatrix \in Nat
  BY AnswerVocabulary
<1>4. Entries(Q) \subseteq (0..LogMatrix - 1) \X AllBlocks
  <2>1. \A l \in 0..LogMatrix - 1 : Explicit(Q, l) \subseteq AllBlocks
    BY ShapeInTree
  <2>2. \A p \in Entries(Q) : \E l \in 0..LogMatrix - 1 : \E i \in Explicit(Q, l) : p = <<l, i>>
    BY <1>3 DEF Entries
  <2>. QED  BY <2>1, <2>2
<1>5. IsFiniteSet(Entries(Q))
  <2>1. IsFiniteSet(0..LogMatrix - 1) /\ IsFiniteSet(AllBlocks)
    BY <1>3, FS_Interval, PowerPositive DEF AllBlocks
  <2>2. IsFiniteSet((0..LogMatrix - 1) \X AllBlocks)
    BY <2>1, FS_Product
  <2>. QED  BY <1>4, <2>2, FS_Subset
<1>6. Entries(Q) \in SUBSET (Nat \X Nat)
  <2>1. 0..LogMatrix - 1 \subseteq Nat
    BY <1>3
  <2>2. (0..LogMatrix - 1) \X AllBlocks \subseteq Nat \X Nat
    BY <1>3, <2>1
  <2>. QED  BY <1>4, <2>2
<1>7. Entries(PairUp(Q)) = Entries(Q)
  <2>1. \A l \in Answer!Layers : Explicit(PairUp(Q), l) = Explicit(Q, l)
    BY <1>3, ShapeOfPairs
  <2>. QED  BY <2>1 DEF Entries
<1>8. PairUp(Q) \in SUBSET Nat /\ Q \in SUBSET Nat
  BY <1>3, AboveFacts
<1>. QED  BY <1>2, <1>5, <1>6, <1>7, <1>8, InOrderRight

-----------------------------------------------------------------------------
(* What the verifier puts back. *)

Received(Q, vector) ==
    Answer!DeSerialize(Answer!EmptyLayers, Answer!getSerializationMapping(Q), vector)

\* Whoever sent a vector, its digests are put where the shape has them.
LEMMA ReceivedShape ==
    ASSUME NEW Q \in SUBSET AllBlocks, NEW vector
    PROVE  \A l \in 0..LogMatrix - 1 :
              /\ DOMAIN Received(Q, vector)[l] = Explicit(Q, l)
              /\ \A i \in Explicit(Q, l) :
                    \E n \in DOMAIN Answer!getSerializationMapping(Q) :
                       /\ Answer!getSerializationMapping(Q)[n] = <<l, i>>
                       /\ Received(Q, vector)[l][i] = vector[n]
<1>. DEFINE M == Answer!getSerializationMapping(Q)
            N == Cardinality(Entries(Q))
            V == Received(Q, vector)
<1>1. /\ DOMAIN M = 1..N
      /\ \A n \in 1..N : M[n] \in Entries(Q)
      /\ \A p \in Entries(Q) : \E n \in 1..N : M[n] = p
  <2>1. M = [n \in 1..N |-> M[n]]
    BY MappingRight
  <2>2. DOMAIN M = 1..N
    <3>. HIDE DEF M, N
    <3>. QED  BY <2>1
  <2>. QED  BY <2>2, MappingRight
<1>2. Answer!Layers = 0..LogMatrix - 1
  BY AnswerVocabulary
<1>3. \A l \in 0..LogMatrix - 1 : \A i : <<l, i>> \in Entries(Q) <=> i \in Explicit(Q, l)
  BY <1>2 DEF Entries
<1>4. \A p \in Entries(Q) : \E l \in 0..LogMatrix - 1 : \E i \in Explicit(Q, l) : p = <<l, i>>
  BY <1>2 DEF Entries
<1>5. V = [l \in Answer!Layers |->
             Answer!Overlay([i \in {M[n][2] : n \in {k \in DOMAIN M : M[k][1] = l}} |->
                                vector[CHOOSE n \in DOMAIN M : M[n] = <<l, i>>]],
                            Answer!EmptyLayers[l])]
  BY DEF Received, Answer!DeSerialize
<1>. HIDE DEF M, N, V
<1>6. ASSUME NEW l \in 0..LogMatrix - 1
      PROVE  /\ DOMAIN V[l] = Explicit(Q, l)
             /\ \A i \in Explicit(Q, l) :
                   \E n \in DOMAIN M : M[n] = <<l, i>> /\ V[l][i] = vector[n]
  <2>. DEFINE I == {M[n][2] : n \in {k \in DOMAIN M : M[k][1] = l}}
              F == [i \in I |-> vector[CHOOSE n \in DOMAIN M : M[n] = <<l, i>>]]
  <2>1. I = Explicit(Q, l)
    <3>1. ASSUME NEW i \in I PROVE i \in Explicit(Q, l)
      <4>1. PICK n \in DOMAIN M : M[n][1] = l /\ M[n][2] = i
        OBVIOUS
      <4>2. M[n] \in Entries(Q)
        BY <1>1
      <4>3. PICK k \in 0..LogMatrix - 1 : \E j \in Explicit(Q, k) : M[n] = <<k, j>>
        BY <1>4, <4>2
      <4>. QED  BY <4>1, <4>3
    <3>2. ASSUME NEW i \in Explicit(Q, l) PROVE i \in I
      <4>1. PICK n \in 1..N : M[n] = <<l, i>>
        BY <1>1, <1>3
      <4>. QED  BY <1>1, <4>1
    <3>. QED  BY <3>1, <3>2
  <2>2. Answer!EmptyLayers[l] = [i \in {} |-> Garbage]
    BY <1>2 DEF Answer!EmptyLayers, Answer!Empty
  <2>3. V[l] = Answer!Overlay(F, Answer!EmptyLayers[l])
    BY <1>2, <1>5
  <2>. HIDE DEF I
  <2>4. V[l] = [i \in I |-> F[i]]
    <3>. HIDE DEF F
    <3>1. DOMAIN F = I
      BY DEF F
    <3>. QED  BY <2>2, <2>3, <3>1 DEF Answer!Overlay
  <2>5. \A i \in I : F[i] = vector[CHOOSE n \in DOMAIN M : M[n] = <<l, i>>]
    OBVIOUS
  <2>. HIDE DEF F
  <2>6. ASSUME NEW i \in Explicit(Q, l)
        PROVE  \E n \in DOMAIN M : M[n] = <<l, i>> /\ V[l][i] = vector[n]
    <3>. DEFINE n == CHOOSE k \in DOMAIN M : M[k] = <<l, i>>
    <3>1. \E k \in DOMAIN M : M[k] = <<l, i>>
      BY <1>1, <1>3
    <3>2. n \in DOMAIN M /\ M[n] = <<l, i>>
      BY <3>1
    <3>3. V[l][i] = vector[n]
      BY <2>1, <2>4, <2>5
    <3>. QED  BY <3>2, <3>3
  <2>. QED  BY <2>1, <2>4, <2>6
<1>. QED  BY <1>6 DEF M, V

\* What an honest prover sends comes back as it was.
LEMMA ReceivedIsSent ==
    ASSUME NEW Q \in SUBSET AllBlocks, NEW layers,
           NEW l \in 0..LogMatrix - 1, NEW i \in Explicit(Q, l)
    PROVE  Received(Q, Answer!toVector(layers, Answer!getSerializationMapping(Q)))[l][i] = layers[l][i]
<1>. DEFINE M == Answer!getSerializationMapping(Q)
            vector == Answer!toVector(layers, M)
<1>1. PICK n \in DOMAIN M : M[n] = <<l, i>> /\ Received(Q, vector)[l][i] = vector[n]
  BY ReceivedShape
<1>2. vector[n] = layers[M[n][1]][M[n][2]]
  <2>. HIDE DEF M
  <2>. QED  BY DEF Answer!toVector
<1>. HIDE DEF M, vector
<1>3. Received(Q, vector)[l][i] = layers[l][i]
  BY <1>1, <1>2
<1>. QED  BY <1>3 DEF vector, M

-----------------------------------------------------------------------------
(* What it computes from them. *)

\* Below an even index of indices that come in pairs there is an even number
\* of them.
LEMMA PairsBelow ==
    ASSUME NEW D \in SUBSET Nat, \A i \in D : Answer!Twin(i) \in D
    PROVE  \A m \in Nat : /\ IsFiniteSet({j \in D : j < 2 * m})
                          /\ Cardinality({j \in D : j < 2 * m}) \in Nat
                          /\ Cardinality({j \in D : j < 2 * m}) % 2 = 0
<1>. DEFINE Lower(m) == {j \in D : j < 2 * m}
            S == {m \in Nat : /\ IsFiniteSet(Lower(m)) /\ Cardinality(Lower(m)) \in Nat
                              /\ Cardinality(Lower(m)) % 2 = 0}
<1>0. \A m \in Nat : \A j \in D : /\ ~ j < 2 * 0
                                  /\ j < 2 * (m + 1) <=> j < 2 * m \/ j = 2 * m \/ j = 2 * m + 1
  OBVIOUS
<1>1. 0 \in S
  <2>1. Lower(0) = {}
    BY <1>0
  <2>. QED  BY <2>1, FS_EmptySet
<1>2. ASSUME NEW m \in Nat, m \in S PROVE m + 1 \in S
  <2>1. IsFiniteSet(Lower(m)) /\ Cardinality(Lower(m)) \in Nat /\ Cardinality(Lower(m)) % 2 = 0
    BY <1>2
  <2>0. \A j : j \in Lower(m + 1) <=> \/ j \in Lower(m)
                                      \/ j \in D /\ (j = 2 * m \/ j = 2 * m + 1)
    BY <1>0
  <2>2. 2 * m \in D <=> 2 * m + 1 \in D
    <3>1. Answer!Twin(2 * m) = 2 * m + 1 /\ Answer!Twin(2 * m + 1) = 2 * m
      BY DEF Answer!Twin
    <3>. QED  BY <3>1
  <2>3. CASE 2 * m \in D
    <3>1. Lower(m + 1) = (Lower(m) \cup {2 * m}) \cup {2 * m + 1}
      <4>. HIDE DEF Lower
      <4>. QED  BY <2>0, <2>2, <2>3
    <3>2. 2 * m \notin Lower(m) /\ 2 * m + 1 \notin Lower(m) \cup {2 * m}
      OBVIOUS
    <3>. HIDE DEF Lower
    <3>3. /\ IsFiniteSet(Lower(m) \cup {2 * m})
          /\ Cardinality(Lower(m) \cup {2 * m}) = Cardinality(Lower(m)) + 1
      BY <2>1, <3>2, FS_AddElement
    <3>4. IsFiniteSet(Lower(m + 1)) /\ Cardinality(Lower(m + 1)) = (Cardinality(Lower(m)) + 1) + 1
      BY <3>1, <3>2, <3>3, FS_AddElement
    <3>. QED  BY <2>1, <3>4
  <2>4. CASE 2 * m \notin D
    <3>2. Lower(m + 1) = Lower(m)
      <4>. HIDE DEF Lower
      <4>. QED  BY <2>0, <2>2, <2>4
    <3>. HIDE DEF Lower
    <3>. QED  BY <2>1, <3>2
  <2>. QED  BY <2>3, <2>4
<1>3. \A m \in Nat : m \in S
  <2>. HIDE DEF S
  <2>. QED  BY <1>1, <1>2, SetInduction
<1>. QED  BY <1>3

\* Taking every second entry of such a layer finds each pair once.
LEMMA CoveredIs ==
    ASSUME NEW layer, DOMAIN layer \subseteq Nat,
           \A i \in DOMAIN layer : Answer!Twin(i) \in DOMAIN layer
    PROVE  /\ Answer!Covered(layer) = {i \div 2 : i \in DOMAIN layer}
           /\ \A j \in Answer!Covered(layer) : 2 * j \in DOMAIN layer /\ 2 * j + 1 \in DOMAIN layer
<1>. DEFINE D == DOMAIN layer
            Even == {k \in D : Cardinality({j \in D : j < k}) % 2 = 0}
<1>1. D \subseteq Nat /\ \A i \in D : Answer!Twin(i) \in D
  OBVIOUS
<1>2. Answer!Covered(layer) = {k \div 2 : k \in Even}
  <2>1. 2^1 = 2
    BY PowerStep, PowerPositive
  <2>2. \A i : Answer!ShiftRight(i, 1) = i \div 2
    BY <2>1 DEF Answer!ShiftRight, Answer!POW2
  <2>3. \A k : Answer!Cardinality({j \in D : j < k}) = Cardinality({j \in D : j < k})
    BY SameCardinality
  <2>. DEFINE Even2 == {k \in D : Answer!Cardinality({j \in D : j < k}) % 2 = 0}
  <2>4. Even2 = Even
    BY <2>3
  <2>5. Answer!Covered(layer) = {Answer!ShiftRight(k, 1) : k \in Even2}
    BY DEF Answer!Covered
  <2>. HIDE DEF Even, Even2
  <2>. QED  BY <2>2, <2>4, <2>5
<1>. HIDE DEF D
<1>3. ASSUME NEW i \in D
      PROVE  {2 * (i \div 2), 2 * (i \div 2) + 1} \subseteq D /\ i \div 2 \in Nat
  <2>1. i \in Nat /\ Answer!Twin(i) \in D
    BY <1>1
  <2>2. {2 * (i \div 2), 2 * (i \div 2) + 1} = {i, Answer!Twin(i)} /\ i \div 2 \in Nat
    BY <2>1, TwinFacts
  <2>. QED  BY <2>1, <2>2
<1>4. \A i \in D : 2 * (i \div 2) \in Even /\ (2 * (i \div 2)) \div 2 = i \div 2
  <2>1. \A m \in Nat : Cardinality({j \in D : j < 2 * m}) % 2 = 0
    BY <1>1, PairsBelow
  <2>2. \A m \in Nat : (2 * m) \div 2 = m
    OBVIOUS
  <2>. QED  BY <1>3, <2>1, <2>2
<1>5. {k \div 2 : k \in Even} = {i \div 2 : i \in D}
  BY <1>4
<1>6. \A j \in {i \div 2 : i \in D} : 2 * j \in D /\ 2 * j + 1 \in D
  BY <1>3
<1>. QED  BY <1>2, <1>5, <1>6 DEF D

\* Every layer follows from the one below and from what was received for it.
NextFrom(V, K, l) == IF l = 0 THEN V[0] ELSE Answer!NextLayer(K[l - 1], V[l])

LEMMA ComputedDefined ==
    ASSUME NEW V
    PROVE  Answer!Computed(V) = [l \in Answer!Layers |-> NextFrom(V, Answer!Computed(V), l)]
<1>. DEFINE Holds(K, m) == K = [l \in 0..m |-> NextFrom(V, K, l)]
            S == {m \in Nat : \E K : Holds(K, m)}
<1>1. 0 \in S
  <2>. DEFINE K == [l \in 0..0 |-> V[0]]
  <2>1. Holds(K, 0)
    BY DEF NextFrom
  <2>. QED  BY <2>1
<1>2. ASSUME NEW m \in Nat, m \in S PROVE m + 1 \in S
  <2>1. PICK F : Holds(F, m)
    BY <1>2
  <2>. DEFINE G == [l \in 0..m + 1 |-> IF l = m + 1 THEN NextFrom(V, F, m + 1) ELSE F[l]]
  <2>2. ASSUME NEW l \in 0..m + 1 PROVE G[l] = NextFrom(V, G, l)
    <3>1. l # 0 => l - 1 \in 0..m /\ G[l - 1] = F[l - 1]
      OBVIOUS
    <3>2. NextFrom(V, G, l) = NextFrom(V, F, l)
      BY <3>1 DEF NextFrom
    <3>3. l # m + 1 => F[l] = NextFrom(V, F, l)
      BY <2>1
    <3>. QED  BY <3>2, <3>3
  <2>. HIDE DEF G
  <2>3. Holds(G, m + 1)
    <3>1. G = [l \in 0..m + 1 |-> G[l]]
      BY DEF G
    <3>. QED  BY <2>2, <3>1
  <2>. QED  BY <2>3
<1>3. \A m \in Nat : m \in S
  <2>. HIDE DEF S
  <2>. QED  BY <1>1, <1>2, SetInduction
<1>4. Answer!Layers = 0..LogMatrix - 1 /\ LogMatrix - 1 \in Nat
  BY AnswerVocabulary
<1>5. \E K : K = [l \in Answer!Layers |-> NextFrom(V, K, l)]
  BY <1>3, <1>4
<1>. QED  BY <1>5 DEF Answer!Computed, NextFrom

\* What hashPair finds and makes in a layer.
ComputedRight(Q, V, l) ==
    /\ DOMAIN Answer!Computed(V)[l] = PairUp(Above(Q, l))
    /\ Answer!Covered(Answer!Computed(V)[l]) = Above(Q, l + 1)
    /\ \A j \in Above(Q, l + 1) : 2 * j \in PairUp(Above(Q, l)) /\ 2 * j + 1 \in PairUp(Above(Q, l))
    /\ \A i \in Explicit(Q, l) : Answer!Computed(V)[l][i] = V[l][i]
    /\ l # 0 => \A j \in Above(Q, l) :
          Answer!Computed(V)[l][j]
            = Hash(Answer!Computed(V)[l - 1][2 * j], Answer!Computed(V)[l - 1][2 * j + 1])

\* Whatever the digests, a received answer of the right shape can be computed
\* with: the entries of every layer come in pairs, what is received is exactly
\* what cannot be computed, and the top layer is one pair.
LEMMA ComputedIs ==
    ASSUME NEW Q \in SUBSET AllBlocks, NEW V,
           \A l \in 0..LogMatrix - 1 : DOMAIN V[l] = Explicit(Q, l)
    PROVE  \A l \in 0..LogMatrix - 1 : ComputedRight(Q, V, l)
<1>. DEFINE K == Answer!Computed(V)
            top == LogMatrix - 1
<1>1. Answer!Layers = 0..top /\ top \in Nat /\ Q \subseteq Nat
  BY AnswerVocabulary
<1>2. \A l \in 0..top : K[l] = NextFrom(V, K, l)
  <2>1. K = [l \in Answer!Layers |-> NextFrom(V, K, l)]
    BY ComputedDefined
  <2>. HIDE DEF K, top
  <2>. QED  BY <1>1, <2>1
<1>. HIDE DEF K
<1>3. ASSUME NEW l \in Nat, DOMAIN K[l] = PairUp(Above(Q, l))
      PROVE  /\ Answer!Covered(K[l]) = Above(Q, l + 1)
             /\ \A j \in Above(Q, l + 1) : /\ 2 * j \in PairUp(Above(Q, l))
                                           /\ 2 * j + 1 \in PairUp(Above(Q, l))
  <2>1. Above(Q, l) \in SUBSET Nat /\ {i \div 2 : i \in PairUp(Above(Q, l))} = Above(Q, l + 1)
    BY <1>1, AboveFacts
  <2>2. /\ PairUp(Above(Q, l)) \subseteq Nat
        /\ \A i \in PairUp(Above(Q, l)) : Answer!Twin(i) \in PairUp(Above(Q, l))
    BY <2>1, AboveFacts
  <2>3. /\ Answer!Covered(K[l]) = {i \div 2 : i \in DOMAIN K[l]}
        /\ \A j \in Answer!Covered(K[l]) : 2 * j \in DOMAIN K[l] /\ 2 * j + 1 \in DOMAIN K[l]
    BY <1>3, <2>2, CoveredIs
  <2>. QED  BY <1>3, <2>1, <2>3
<1>. DEFINE Layer(l) ==
      /\ DOMAIN K[l] = PairUp(Above(Q, l))
      /\ \A i \in Explicit(Q, l) : K[l][i] = V[l][i]
      /\ l # 0 => \A j \in Above(Q, l) : K[l][j] = Hash(K[l - 1][2 * j], K[l - 1][2 * j + 1])
<1>4. Layer(0)
  <2>1. K[0] = V[0] /\ DOMAIN V[0] = Explicit(Q, 0)
    BY <1>1, <1>2 DEF NextFrom
  <2>2. Explicit(Q, 0) = PairUp(Above(Q, 0))
    BY <1>1, AboveFacts DEF Explicit
  <2>. QED  BY <2>1, <2>2
<1>5. ASSUME NEW l \in Nat, l + 1 \in 0..top, Layer(l) PROVE Layer(l + 1)
  <2>1. /\ K[l + 1] = Answer!NextLayer(K[l], V[l + 1])
        /\ DOMAIN V[l + 1] = Explicit(Q, l + 1)
    <3>1. l + 1 # 0 /\ (l + 1) - 1 = l
      OBVIOUS
    <3>2. K[l + 1] = NextFrom(V, K, l + 1)
      BY <1>2, <1>5
    <3>. QED  BY <1>5, <3>1, <3>2 DEF NextFrom
  <2>2. Answer!Covered(K[l]) = Above(Q, l + 1)
    BY <1>3, <1>5
  <2>3. Explicit(Q, l + 1) = PairUp(Above(Q, l + 1)) \ Above(Q, l + 1)
    BY DEF Explicit
  <2>4. K[l + 1] = [j \in Above(Q, l + 1) \cup Explicit(Q, l + 1) |->
                      IF j \in Above(Q, l + 1) THEN Hash(K[l][2 * j], K[l][2 * j + 1])
                      ELSE V[l + 1][j]]
    <3>. DEFINE A == Above(Q, l + 1)
                F == [j \in A |-> Hash(K[l][2 * j], K[l][2 * j + 1])]
    <3>1. Answer!NextLayer(K[l], V[l + 1]) = Answer!Overlay(F, V[l + 1])
      BY <2>2 DEF Answer!NextLayer
    <3>2. DOMAIN F = A /\ \A j \in A : F[j] = Hash(K[l][2 * j], K[l][2 * j + 1])
      OBVIOUS
    <3>. HIDE DEF A, F
    <3>3. K[l + 1] = [j \in A \cup Explicit(Q, l + 1) |->
                        IF j \in A THEN Hash(K[l][2 * j], K[l][2 * j + 1]) ELSE V[l + 1][j]]
      BY <2>1, <3>1, <3>2 DEF Answer!Overlay
    <3>. QED  BY <3>3 DEF A
  <2>5. Above(Q, l + 1) \cup Explicit(Q, l + 1) = PairUp(Above(Q, l + 1))
    BY <2>3 DEF PairUp
  <2>6. (l + 1) - 1 = l
    OBVIOUS
  <2>. QED  BY <2>3, <2>4, <2>5, <2>6
<1>6. \A l \in 0..top : Layer(l)
  <2>. DEFINE S == {l \in Nat : l \in 0..top => Layer(l)}
  <2>. HIDE DEF Layer, top
  <2>1. 0 \in S
    BY <1>4
  <2>2. ASSUME NEW l \in Nat, l \in S PROVE l + 1 \in S
    BY <1>1, <1>5, <2>2
  <2>3. \A l \in Nat : l \in S
    <3>. HIDE DEF S
    <3>. QED  BY <2>1, <2>2, SetInduction
  <2>. QED  BY <2>3
<1>7. ASSUME NEW l \in 0..top PROVE ComputedRight(Q, V, l)
  <2>1. l \in Nat /\ Layer(l)
    BY <1>1, <1>6
  <2>2. /\ Answer!Covered(K[l]) = Above(Q, l + 1)
        /\ \A j \in Above(Q, l + 1) : /\ 2 * j \in PairUp(Above(Q, l))
                                      /\ 2 * j + 1 \in PairUp(Above(Q, l))
    BY <1>3, <2>1
  <2>. QED  BY <2>1, <2>2 DEF ComputedRight, K
<1>. QED  BY <1>7

\* The top layer is the pair below the root.
LEMMA TopPair ==
    ASSUME NEW Q \in SUBSET AllBlocks, Q # {}
    PROVE  PairUp(Above(Q, LogMatrix - 1)) = {0, 1} /\ Above(Q, LogMatrix) = {0}
<1>1. LogMatrix - 1 \in 0..LogMatrix - 1 /\ LogMatrix - (LogMatrix - 1) = 1 /\ Q \subseteq Nat
      /\ (LogMatrix - 1) + 1 = LogMatrix /\ LogMatrix - 1 \in Nat
  BY AnswerVocabulary
<1>2. 2^1 = 2
  BY PowerStep, PowerPositive
<1>3. PairUp(Above(Q, LogMatrix - 1)) \subseteq {0, 1}
  <2>1. PairUp(Above(Q, LogMatrix - 1)) \subseteq 0..2^(LogMatrix - (LogMatrix - 1)) - 1
    BY <1>1, ShapeInTree
  <2>2. 2^(LogMatrix - (LogMatrix - 1)) = 2^1
    BY <1>1, Zenon
  <2>3. 0..2^1 - 1 = {0, 1}
    BY <1>2
  <2>. QED  BY <2>1, <2>2, <2>3
<1>4. PICK q \in Q : TRUE
  OBVIOUS
<1>5. q \div 2^(LogMatrix - 1) \in PairUp(Above(Q, LogMatrix - 1))
  BY DEF Above, PairUp
<1>6. \A i \in PairUp(Above(Q, LogMatrix - 1)) : Answer!Twin(i) \in PairUp(Above(Q, LogMatrix - 1))
  <2>1. Above(Q, LogMatrix - 1) \in SUBSET Nat
    BY <1>1, AboveFacts
  <2>. QED  BY <2>1, AboveFacts
<1>7. Answer!Twin(0) = 1 /\ Answer!Twin(1) = 0
  BY DEF Answer!Twin
<1>8. PairUp(Above(Q, LogMatrix - 1)) = {0, 1}
  BY <1>3, <1>5, <1>6, <1>7
<1>9. {i \div 2 : i \in PairUp(Above(Q, LogMatrix - 1))} = Above(Q, LogMatrix)
  <2>1. {i \div 2 : i \in PairUp(Above(Q, LogMatrix - 1))} = Above(Q, (LogMatrix - 1) + 1)
    BY <1>1, AboveFacts
  <2>. QED  BY <1>1, <2>1
<1>10. {i \div 2 : i \in {0, 1}} = {0}
  OBVIOUS
<1>. QED  BY <1>8, <1>9, <1>10

\* hashPair finds both entries, in every layer.
LEMMA ReceivedComplete ==
    ASSUME NEW Q \in SUBSET AllBlocks, Q # {}, NEW V,
           \A l \in 0..LogMatrix - 1 : DOMAIN V[l] = Explicit(Q, l)
    PROVE  Answer!Complete(V)
<1>1. LogMatrix - 1 \in 0..LogMatrix - 1 /\ Answer!Layers = 0..LogMatrix - 1
  BY AnswerVocabulary
<1>2. \A l \in 0..LogMatrix - 1 :
         /\ DOMAIN Answer!Computed(V)[l] = PairUp(Above(Q, l))
         /\ Answer!Covered(Answer!Computed(V)[l]) = Above(Q, l + 1)
         /\ \A j \in Above(Q, l + 1) : /\ 2 * j \in PairUp(Above(Q, l))
                                       /\ 2 * j + 1 \in PairUp(Above(Q, l))
  <2>1. \A l \in 0..LogMatrix - 1 : ComputedRight(Q, V, l)
    BY ComputedIs
  <2>. QED  BY <2>1 DEF ComputedRight
<1>3. PairUp(Above(Q, LogMatrix - 1)) = {0, 1}
  BY TopPair
<1>. QED  BY <1>1, <1>2, <1>3 DEF Answer!Complete, Answer!HasPair

\* The digests of the tree lead to its root.
LEMMA TreeLeadsToRoot ==
    ASSUME NEW Q \in SUBSET AllBlocks, Q # {}, NEW V,
           \A l \in 0..LogMatrix - 1 : /\ DOMAIN V[l] = Explicit(Q, l)
                                      /\ \A i \in Explicit(Q, l) : V[l][i] = TreeAt(l, i)
    PROVE  Answer!calculateRoot(V) = TreeAt(LogMatrix, 0)
<1>. DEFINE K == Answer!Computed(V)
            top == LogMatrix - 1
            Right(l) == \A i \in PairUp(Above(Q, l)) : K[l][i] = TreeAt(l, i)
<1>1. top \in Nat /\ Q \subseteq Nat /\ top + 1 = LogMatrix /\ LogMatrix \in Nat \ {0}
  BY AnswerVocabulary
<1>2. \A l \in 0..top :
         /\ \A i \in Explicit(Q, l) : K[l][i] = TreeAt(l, i)
         /\ l # 0 => \A j \in Above(Q, l) : K[l][j] = Hash(K[l - 1][2 * j], K[l - 1][2 * j + 1])
         /\ \A j \in Above(Q, l + 1) : /\ 2 * j \in PairUp(Above(Q, l))
                                       /\ 2 * j + 1 \in PairUp(Above(Q, l))
  <2>1. \A l \in 0..top :
           /\ \A i \in Explicit(Q, l) : K[l][i] = V[l][i]
           /\ l # 0 => \A j \in Above(Q, l) : K[l][j] = Hash(K[l - 1][2 * j], K[l - 1][2 * j + 1])
           /\ \A j \in Above(Q, l + 1) : /\ 2 * j \in PairUp(Above(Q, l))
                                         /\ 2 * j + 1 \in PairUp(Above(Q, l))
    <3>1. \A l \in 0..LogMatrix - 1 : ComputedRight(Q, V, l)
      BY ComputedIs
    <3>. QED  BY <3>1 DEF ComputedRight
  <2>2. \A l \in 0..top : \A i \in Explicit(Q, l) : V[l][i] = TreeAt(l, i)
    OBVIOUS
  <2>. HIDE DEF K, top
  <2>. QED  BY <2>1, <2>2
<1>3. Right(0)
  <2>1. Explicit(Q, 0) = PairUp(Above(Q, 0))
    BY <1>1, AboveFacts DEF Explicit
  <2>. QED  BY <1>1, <1>2, <2>1
<1>4. ASSUME NEW l \in Nat, l + 1 \in 0..top, Right(l) PROVE Right(l + 1)
  <2>1. l \in 0..top /\ l + 1 # 0 /\ (l + 1) - 1 = l /\ l + 1 \in 1..LogMatrix
    BY <1>1, <1>4
  <2>2. \A j \in Above(Q, l + 1) : TreeAt(l + 1, j) = Hash(TreeAt(l, 2 * j), TreeAt(l, 2 * j + 1))
    <3>1. Above(Q, l + 1) \subseteq 0..2^(LogMatrix - (l + 1)) - 1
      BY <1>4, ShapeInTree
    <3>2. \A j \in 0..2^(LogMatrix - (l + 1)) - 1 :
             TreeAt(l + 1, j) = Hash(TreeAt((l + 1) - 1, 2 * j), TreeAt((l + 1) - 1, 2 * j + 1))
      BY <2>1, TreeAtStep
    <3>. QED  BY <2>1, <3>1, <3>2
  <2>3. ASSUME NEW j \in Above(Q, l + 1) PROVE K[l + 1][j] = TreeAt(l + 1, j)
    <3>1. K[l][2 * j] = TreeAt(l, 2 * j) /\ K[l][2 * j + 1] = TreeAt(l, 2 * j + 1)
      BY <1>2, <1>4, <2>1
    <3>2. K[l + 1][j] = Hash(K[l][2 * j], K[l][2 * j + 1])
      <4>. HIDE DEF K, top
      <4>. QED  BY <1>2, <1>4, <2>1
    <3>. QED  BY <2>2, <3>1, <3>2
  <2>4. PairUp(Above(Q, l + 1)) \subseteq Above(Q, l + 1) \cup Explicit(Q, l + 1)
    BY DEF Explicit
  <2>. QED  BY <1>2, <1>4, <2>3, <2>4
<1>5. Right(top)
  <2>. DEFINE S == {l \in Nat : l \in 0..top => Right(l)}
  <2>. HIDE DEF Right, top
  <2>1. 0 \in S
    BY <1>3
  <2>2. ASSUME NEW l \in Nat, l \in S PROVE l + 1 \in S
    BY <1>1, <1>4, <2>2
  <2>3. \A l \in Nat : l \in S
    <3>. HIDE DEF S
    <3>. QED  BY <2>1, <2>2, SetInduction
  <2>. QED  BY <1>1, <2>3
<1>6. K[top][0] = TreeAt(top, 0) /\ K[top][1] = TreeAt(top, 1)
  BY <1>5, TopPair
<1>7. TreeAt(LogMatrix, 0) = Hash(TreeAt(top, 0), TreeAt(top, 1))
  <2>1. LogMatrix \in 1..LogMatrix /\ 0 \in 0..2^(LogMatrix - LogMatrix) - 1
    BY <1>1, PowerPositive
  <2>2. TreeAt(LogMatrix, 0) = Hash(TreeAt(LogMatrix - 1, 2 * 0), TreeAt(LogMatrix - 1, 2 * 0 + 1))
    BY <2>1, TreeAtStep
  <2>. QED  BY <2>2
<1>. QED  BY <1>6, <1>7 DEF Answer!calculateRoot

\* Among the pairs computed from an answer is one that has the hash of the
\* pair in its place in the committed tree and is another pair.
Collision(Q, V) ==
    \E l \in 0..LogMatrix - 1 : \E j \in Above(Q, l + 1) :
       /\ Hash(Answer!Computed(V)[l][2 * j], Answer!Computed(V)[l][2 * j + 1])
            = Hash(TreeAt(l, 2 * j), TreeAt(l, 2 * j + 1))
       /\ ~ /\ Answer!Computed(V)[l][2 * j] = TreeAt(l, 2 * j)
            /\ Answer!Computed(V)[l][2 * j + 1] = TreeAt(l, 2 * j + 1)

\* Without such a pair only the digests of the tree lead to its root.
LEMMA RootLeadsToTree ==
    ASSUME NEW Q \in SUBSET AllBlocks, Q # {}, NEW V, ~ Collision(Q, V),
           \A l \in 0..LogMatrix - 1 : DOMAIN V[l] = Explicit(Q, l),
           Answer!calculateRoot(V) = TreeAt(LogMatrix, 0)
    PROVE  \A b \in Q : V[0][b] = TreeAt(0, b)
<1>. DEFINE K == Answer!Computed(V)
            top == LogMatrix - 1
            Right(l) == \A i \in PairUp(Above(Q, l)) : K[l][i] = TreeAt(l, i)
<1>1. top \in Nat /\ Q \subseteq Nat /\ top + 1 = LogMatrix /\ LogMatrix \in Nat \ {0}
  BY AnswerVocabulary
<1>2. \A l \in 0..top :
         /\ \A i \in Explicit(Q, l) : K[l][i] = V[l][i]
         /\ l # 0 => \A j \in Above(Q, l) : K[l][j] = Hash(K[l - 1][2 * j], K[l - 1][2 * j + 1])
  <2>1. \A l \in 0..LogMatrix - 1 : ComputedRight(Q, V, l)
    BY ComputedIs
  <2>. QED  BY <2>1 DEF ComputedRight
<1>3. \A l \in 0..top : \A j \in Above(Q, l + 1) :
         Hash(K[l][2 * j], K[l][2 * j + 1]) = Hash(TreeAt(l, 2 * j), TreeAt(l, 2 * j + 1))
            => K[l][2 * j] = TreeAt(l, 2 * j) /\ K[l][2 * j + 1] = TreeAt(l, 2 * j + 1)
  BY DEF Collision
<1>4. Right(top)
  <2>1. LogMatrix \in 1..LogMatrix /\ 0 \in 0..2^(LogMatrix - LogMatrix) - 1
    BY <1>1, PowerPositive
  <2>2. TreeAt(LogMatrix, 0) = Hash(TreeAt(LogMatrix - 1, 2 * 0), TreeAt(LogMatrix - 1, 2 * 0 + 1))
    BY <2>1, TreeAtStep
  <2>3. Hash(K[top][0], K[top][1]) = Hash(TreeAt(top, 0), TreeAt(top, 1))
    BY <2>2 DEF Answer!calculateRoot
  <2>4. K[top][0] = TreeAt(top, 0) /\ K[top][1] = TreeAt(top, 1)
    <3>1. top \in 0..top /\ 0 \in Above(Q, top + 1) /\ 2 * 0 = 0 /\ 2 * 0 + 1 = 1
      BY <1>1, TopPair
    <3>. HIDE DEF K, top
    <3>. QED  BY <1>3, <2>3, <3>1
  <2>. QED  BY <2>4, TopPair
<1>5. ASSUME NEW l \in Nat, l + 1 \in 0..top, Right(l + 1) PROVE Right(l)
  <2>1. l \in 0..top /\ l + 1 # 0 /\ (l + 1) - 1 = l /\ l + 1 \in 1..LogMatrix
    BY <1>1, <1>5
  <2>2. \A j \in Above(Q, l + 1) : TreeAt(l + 1, j) = Hash(TreeAt(l, 2 * j), TreeAt(l, 2 * j + 1))
    <3>1. Above(Q, l + 1) \subseteq 0..2^(LogMatrix - (l + 1)) - 1
      BY <1>5, ShapeInTree
    <3>2. \A j \in 0..2^(LogMatrix - (l + 1)) - 1 :
             TreeAt(l + 1, j) = Hash(TreeAt((l + 1) - 1, 2 * j), TreeAt((l + 1) - 1, 2 * j + 1))
      BY <2>1, TreeAtStep
    <3>. QED  BY <2>1, <3>1, <3>2
  <2>3. ASSUME NEW j \in Above(Q, l + 1)
        PROVE  K[l][2 * j] = TreeAt(l, 2 * j) /\ K[l][2 * j + 1] = TreeAt(l, 2 * j + 1)
    <3>1. K[l + 1][j] = TreeAt(l + 1, j)
      BY <1>5 DEF PairUp
    <3>2. K[l + 1][j] = Hash(K[l][2 * j], K[l][2 * j + 1])
      <4>. HIDE DEF K, top
      <4>. QED  BY <1>2, <1>5, <2>1
    <3>3. Hash(K[l][2 * j], K[l][2 * j + 1]) = Hash(TreeAt(l, 2 * j), TreeAt(l, 2 * j + 1))
      BY <2>2, <3>1, <3>2
    <3>. HIDE DEF K
    <3>. QED  BY <1>3, <2>1, <3>3
  <2>4. ASSUME NEW i \in PairUp(Above(Q, l)) PROVE K[l][i] = TreeAt(l, i)
    <3>1. Above(Q, l) \in SUBSET Nat /\ {x \div 2 : x \in PairUp(Above(Q, l))} = Above(Q, l + 1)
      BY <1>1, AboveFacts
    <3>2. i \in Nat /\ i \div 2 \in Above(Q, l + 1)
      BY <3>1, AboveFacts
    <3>3. i = 2 * (i \div 2) \/ i = 2 * (i \div 2) + 1
      BY <3>2
    <3>. HIDE DEF K
    <3>. QED  BY <2>3, <3>2, <3>3
  <2>. QED  BY <2>4
<1>6. Right(0)
  <2>. DEFINE S == {d \in Nat : d \in 0..top => Right(top - d)}
  <2>. HIDE DEF Right, top
  <2>1. 0 \in S
    BY <1>1, <1>4
  <2>2. ASSUME NEW d \in Nat, d \in S PROVE d + 1 \in S
    <3>1. d + 1 \in 0..top => /\ d \in 0..top /\ top - (d + 1) \in Nat
                              /\ (top - (d + 1)) + 1 = top - d /\ top - d \in 0..top
      BY <1>1
    <3>2. d + 1 \in 0..top => Right(top - (d + 1))
      BY <1>5, <2>2, <3>1
    <3>. QED  BY <3>2
  <2>3. \A d \in Nat : d \in S
    <3>. HIDE DEF S
    <3>. QED  BY <2>1, <2>2, SetInduction
  <2>4. top - top = 0 /\ top \in 0..top
    BY <1>1
  <2>. QED  BY <1>1, <2>3, <2>4
<1>7. Explicit(Q, 0) = PairUp(Above(Q, 0)) /\ Q \subseteq Explicit(Q, 0) /\ 0 \in 0..top
  BY <1>1, AboveFacts DEF Explicit, PairUp
<1>. QED  BY <1>2, <1>6, <1>7
-----------------------------------------------------------------------------
(* Paths. *)

\* The tree over consecutive nodes of one height is a part of the tree.
LEMMA TreeInTree ==
    ASSUME NEW n \in 0..LogMatrix, NEW g \in 0..LogMatrix - n,
           NEW c \in 0..2^(LogMatrix - g - n) - 1, NEW D,
           \A b \in 0..2^n - 1 : D[b] = TreeAt(g, 2^n * c + b)
    PROVE  \A h \in 0..n : \A j \in 0..2^(n - h) - 1 :
              Heights(D, n)[h][j] = TreeAt(g + h, 2^(n - h) * c + j)
<1>. DEFINE H == Heights(D, n)
            Same(h) == \A j \in 0..2^(n - h) - 1 : H[h][j] = TreeAt(g + h, 2^(n - h) * c + j)
            S == {h \in Nat : h \in 0..n => Same(h)}
<1>1. n \in Nat /\ g \in Nat /\ c \in Nat /\ g + n <= LogMatrix /\ LogMatrix \in Nat
  BY LogLenAssumption
<1>2. H[0] = D /\ \A h \in 1..n : \A j \in 0..2^(n - h) - 1 :
                     H[h][j] = Hash(H[h - 1][2 * j], H[h - 1][2 * j + 1])
  <2>1. IsTree(D, n, Heights(D, n))
    BY <1>1, HeightsStep
  <2>. QED  BY <2>1 DEF IsTree
<1>. HIDE DEF H
<1>3. 0 \in S
  <2>1. g + 0 = g /\ n - 0 = n
    BY <1>1
  <2>. QED  BY <1>2, <2>1
<1>4. ASSUME NEW h \in Nat, h \in S PROVE h + 1 \in S
  <2>. SUFFICES ASSUME h + 1 \in 0..n, NEW j \in 0..2^(n - (h + 1)) - 1
                PROVE  H[h + 1][j] = TreeAt(g + (h + 1), 2^(n - (h + 1)) * c + j)
    OBVIOUS
  <2>. DEFINE e == 2^(n - (h + 1))
              k == e * c + j
  <2>1. /\ n - (h + 1) \in Nat /\ (n - (h + 1)) + 1 = n - h /\ h \in 0..n /\ h + 1 \in 1..n
        /\ (h + 1) - 1 = h /\ g + (h + 1) \in 1..LogMatrix /\ (g + (h + 1)) - 1 = g + h
        /\ LogMatrix - g - n \in Nat
        /\ LogMatrix - (g + (h + 1)) = (LogMatrix - g - n) + (n - (h + 1))
    BY <1>1
  <2>2. e \in Nat /\ 2^(n - h) = e + e
    BY <2>1, PowerStep
  <2>3. k \in 0..2^(LogMatrix - (g + (h + 1))) - 1
    <3>1. 2^(LogMatrix - (g + (h + 1))) = 2^(LogMatrix - g - n) * e /\ 2^(LogMatrix - g - n) \in Nat
      <4>1. 2^((LogMatrix - g - n) + (n - (h + 1))) = 2^(LogMatrix - g - n) * 2^(n - (h + 1))
        BY <2>1, PowerSum
      <4>. QED  BY <2>1, <4>1, PowerPositive
    <3>. HIDE DEF e
    <3>2. j \in 0..e - 1 /\ e * c + j \in 0..2^(LogMatrix - g - n) * e - 1
      <4>1. j \in 0..e - 1
        BY DEF e
      <4>. QED  BY <2>2, <3>1, <4>1, PositionInBlock
    <3>. QED  BY <3>1, <3>2
  <2>4. 2 * k = (e + e) * c + 2 * j /\ 2 * k + 1 = (e + e) * c + (2 * j + 1)
        /\ 2 * j \in 0..(e + e) - 1 /\ 2 * j + 1 \in 0..(e + e) - 1
    <3>1. j \in 0..e - 1
      OBVIOUS
    <3>. HIDE DEF e
    <3>2. 2 * (e * c) = (e + e) * c /\ e * c \in Nat
      BY <1>1, <2>2
    <3>. QED  BY <2>2, <3>1, <3>2
  <2>5. Same(h)
    BY <1>4, <2>1
  <2>6. /\ H[h][2 * j] = TreeAt(g + h, 2 * k)
        /\ H[h][2 * j + 1] = TreeAt(g + h, 2 * k + 1)
    <3>. HIDE DEF e, k
    <3>. QED  BY <2>2, <2>4, <2>5
  <2>7. H[h + 1][j] = Hash(H[h][2 * j], H[h][2 * j + 1])
    BY <1>2, <2>1
  <2>8. TreeAt(g + (h + 1), k) = Hash(TreeAt(g + h, 2 * k), TreeAt(g + h, 2 * k + 1))
    <3>. HIDE DEF k
    <3>1. TreeAt(g + (h + 1), k)
            = Hash(TreeAt((g + (h + 1)) - 1, 2 * k), TreeAt((g + (h + 1)) - 1, 2 * k + 1))
      BY <2>1, <2>3, TreeAtStep
    <3>. QED  BY <2>1, <3>1
  <2>. QED  BY <2>6, <2>7, <2>8
<1>5. \A h \in Nat : h \in S
  <2>. HIDE DEF S
  <2>. QED  BY <1>3, <1>4, SetInduction
<1>. QED  BY <1>1, <1>5 DEF H
\* Adding an even number to both blocks of a pair.
LEMMA TwinOfSum ==
    ASSUME NEW e \in Nat, NEW x \in Nat
    PROVE  Answer!Twin((e + e) + x) = (e + e) + Answer!Twin(x)
BY DEF Answer!Twin

\* A pair's place in its coset.
LEMMA PairInCoset ==
    ASSUME NEW m \in 1..LogMatrix, NEW pair \in 0..2^(LogMatrix - 1) - 1
    PROVE  /\ pair \div 2^(m - 1) \in 0..2^(LogMatrix - m) - 1
           /\ pair % 2^(m - 1) \in 0..2^(m - 1) - 1
           /\ \A i \in 1..m :
                 pair \div 2^(i - 1)
                    = 2^(m - i) * (pair \div 2^(m - 1)) + ((pair % 2^(m - 1)) \div 2^(i - 1))
<1>. DEFINE d == 2^(m - 1)
            q == pair \div d
            r == pair % d
<1>1. /\ LogMatrix - 1 \in Nat /\ m - 1 \in 0..LogMatrix - 1
      /\ (LogMatrix - 1) - (m - 1) = LogMatrix - m
  BY LogLenAssumption
<1>2. d \in Nat /\ d > 0 /\ pair \in Nat
  BY <1>1, PowerPositive
<1>3. q \in 0..2^(LogMatrix - m) - 1
  BY <1>1, ShiftBelow
<1>4. q \in Nat /\ r \in 0..d - 1 /\ pair = d * q + r
  <2>. HIDE DEF d
  <2>. QED  BY <1>2, Quotient
<1>5. ASSUME NEW i \in 1..m PROVE pair \div 2^(i - 1) = 2^(m - i) * q + (r \div 2^(i - 1))
  <2>. DEFINE e == 2^(i - 1)
              f == 2^(m - i)
  <2>1. i - 1 \in Nat /\ m - i \in Nat /\ (i - 1) + (m - i) = m - 1
    OBVIOUS
  <2>2. e \in Nat /\ e > 0 /\ f \in Nat /\ d = e * f
    <3>1. 2^((i - 1) + (m - i)) = 2^(i - 1) * 2^(m - i)
      BY <2>1, PowerSum
    <3>. QED  BY <2>1, <3>1, PowerPositive
  <2>. HIDE DEF e, f, d, q, r
  <2>3. pair = e * (f * q) + r /\ f * q \in Nat /\ r \in Nat
    BY <1>4, <2>2
  <2>4. pair \div e = f * q + (r \div e)
    BY <2>2, <2>3, QuotientOfSum
  <2>. QED  BY <2>4 DEF e, f
<1>. QED  BY <1>3, <1>4, <1>5
\* The path of a pair in the committed tree.
Twins(pair) == [i \in 1..LogMatrix - 1 |-> TreeAt(i, Answer!Twin(pair \div 2^(i - 1)))]

\* In the kept heap it is found at the heap's nodes.
LEMMA PathInHeap ==
    ASSUME NEW pair \in 0..2^(LogMatrix - 1) - 1
    PROVE  Answer!getPathToBlock(Answer!Tree, LogMatrix, 2 * pair) = Twins(pair)
<1>1. ASSUME NEW i \in 1..LogMatrix - 1
      PROVE  Answer!ShiftRight(2 * pair, i) = pair \div 2^(i - 1)
  <2>1. i - 1 \in Nat /\ (i - 1) + 1 = i /\ pair \in Nat
    BY LogLenAssumption
  <2>2. 2^i = 2 * 2^(i - 1) /\ 2^(i - 1) \in Nat /\ 2^(i - 1) > 0
    <3>1. 2^((i - 1) + 1) = 2^(i - 1) + 2^(i - 1) /\ 2^(i - 1) \in Nat /\ 2^(i - 1) > 0
      BY <2>1, PowerStep, PowerPositive
    <3>. QED  BY <2>1, <3>1
  <2>3. (2 * pair) \div (2 * 2^(i - 1)) = pair \div 2^(i - 1)
    BY <2>1, <2>2, QuotientDoubled
  <2>. QED  BY <2>2, <2>3 DEF Answer!ShiftRight, Answer!POW2
<1>2. Answer!Tree = Heights(Evaluation, LogMatrix)
  BY AnswerVocabulary
<1>. QED  BY <1>1, <1>2 DEF Answer!getPathToBlock, Twins, TreeAt

\* Inside a coset it is found in the tree over the coset.
LEMMA PathInCoset ==
    ASSUME NEW m \in 1..LogMatrix, NEW pair \in 0..2^(LogMatrix - 1) - 1, NEW D,
           \A b \in 0..2^m - 1 : D[b] = Evaluation[(pair \div 2^(m - 1)) * 2^m + b]
    PROVE  LET P == Answer!MerklePath(D, m, pair % 2^(m - 1))
           IN  /\ Lists(P, m - 1)
               /\ \A i \in 1..m - 1 : P[i] = Twins(pair)[i]
<1>. DEFINE c == pair \div 2^(m - 1)
            r == pair % 2^(m - 1)
            P == Answer!MerklePath(D, m, r)
<1>1. /\ c \in 0..2^(LogMatrix - m) - 1 /\ r \in 0..2^(m - 1) - 1
      /\ \A i \in 1..m : pair \div 2^(i - 1) = 2^(m - i) * c + (r \div 2^(i - 1))
  BY PairInCoset
<1>2. m \in Nat /\ LogMatrix \in Nat \ {0} /\ m - 1 \in Nat
  BY LogLenAssumption
<1>3. \A b \in 0..2^m - 1 : D[b] = TreeAt(0, 2^m * c + b)
  <2>1. 2^LogMatrix = 2^(LogMatrix - m) * 2^m /\ 2^m \in Nat /\ 2^(LogMatrix - m) \in Nat
    <3>1. m <= LogMatrix
      OBVIOUS
    <3>. QED  BY <1>2, <3>1, PowerMonotone, PowerPositive
  <2>. HIDE DEF c
  <2>2. ASSUME NEW b \in 0..2^m - 1
        PROVE  c * 2^m + b \in AllBlocks /\ c * 2^m + b = 2^m * c + b
    <3>. DEFINE w == 2^(LogMatrix - m)
                y == 2^m
    <3>1. w \in Nat /\ y \in Nat /\ 2^LogMatrix = w * y /\ c \in 0..w - 1 /\ b \in 0..y - 1
      BY <1>1, <2>1
    <3>. HIDE DEF w, y
    <3>2. y * c + b \in 0..w * y - 1 /\ c * y + b = y * c + b
      BY <3>1, PositionInBlock
    <3>. QED  BY <3>1, <3>2 DEF AllBlocks, y
  <2>3. ASSUME NEW b \in 0..2^m - 1 PROVE D[b] = Evaluation[c * 2^m + b]
    BY DEF c
  <2>4. \A b \in AllBlocks : Evaluation[b] = TreeAt(0, b)
    BY TreeAtStep
  <2>. QED  BY <2>2, <2>3, <2>4
<1>. HIDE DEF c, r
<1>4. \A h \in 0..m : \A j \in 0..2^(m - h) - 1 : Heights(D, m)[h][j] = TreeAt(h, 2^(m - h) * c + j)
  <2>1. m \in 0..LogMatrix /\ 0 \in 0..LogMatrix - m /\ LogMatrix - 0 - m = LogMatrix - m
    BY <1>2
  <2>2. \A h \in 0..m : \A j \in 0..2^(m - h) - 1 :
           Heights(D, m)[h][j] = TreeAt(0 + h, 2^(m - h) * c + j)
    BY <1>1, <1>3, <2>1, TreeInTree
  <2>3. \A h \in 0..m : 0 + h = h
    OBVIOUS
  <2>. QED  BY <2>2, <2>3
<1>5. P = [i \in 1..m - 1 |-> Heights(D, m)[i][Answer!Twin(r \div 2^(i - 1))]]
  BY AnswerVocabulary DEF Answer!MerklePath, Answer!ShiftRight, Answer!POW2
<1>6. ASSUME NEW i \in 1..m - 1
      PROVE  Heights(D, m)[i][Answer!Twin(r \div 2^(i - 1))] = Twins(pair)[i]
  <2>1. /\ i - 1 \in Nat /\ i - 1 \in 0..m - 1 /\ m - i \in Nat \ {0} /\ i \in 0..m /\ i \in 1..m
        /\ (m - 1) - (i - 1) = m - i /\ i \in 1..LogMatrix - 1
        /\ m - i - 1 \in Nat /\ (m - i - 1) + 1 = m - i
    BY <1>2
  <2>. DEFINE x == r \div 2^(i - 1)
              e == 2^(m - i - 1) * c
  <2>2. x \in 0..2^(m - i) - 1
    <3>1. r \div 2^(i - 1) \in 0..2^((m - 1) - (i - 1)) - 1
      BY <1>1, <1>2, <2>1, ShiftBelow
    <3>. QED  BY <2>1, <3>1
  <2>3. Answer!Twin(x) \in 0..2^(m - i) - 1
    <3>. HIDE DEF x
    <3>. QED  BY <2>1, <2>2, TwinRange DEF Answer!Twin
  <2>4. 2^(m - i) * c = e + e /\ e \in Nat
    <3>1. 2^((m - i - 1) + 1) = 2^(m - i - 1) + 2^(m - i - 1) /\ 2^(m - i - 1) \in Nat
      BY <2>1, PowerStep
    <3>2. \A y, z \in Nat : (y + y) * z = y * z + y * z /\ y * z \in Nat
      OBVIOUS
    <3>3. c \in Nat
      BY <1>1
    <3>. QED  BY <2>1, <3>1, <3>2, <3>3
  <2>5. pair \div 2^(i - 1) = (e + e) + x
    BY <1>1, <2>1, <2>4
  <2>6. Answer!Twin(pair \div 2^(i - 1)) = (e + e) + Answer!Twin(x)
    <3>1. x \in Nat
      BY <2>2
    <3>. HIDE DEF x, e
    <3>. QED  BY <2>4, <2>5, <3>1, TwinOfSum
  <2>. HIDE DEF x, e
  <2>7. Heights(D, m)[i][Answer!Twin(x)] = TreeAt(i, (e + e) + Answer!Twin(x))
    BY <1>4, <2>1, <2>3, <2>4
  <2>. QED  BY <2>1, <2>6, <2>7 DEF Twins, x
<1>7. \A i \in 1..m - 1 : P[i] = Twins(pair)[i]
  <2>. HIDE DEF P
  <2>. QED  BY <1>5, <1>6
<1>8. Lists(P, m - 1)
  BY <1>5 DEF Lists
<1>. QED  BY <1>7, <1>8 DEF P, r

\* Above the cosets it is found in the tree over their roots.
LEMMA PathAboveCosets ==
    ASSUME NEW k \in 1..LogMatrix - 1, k = logCosets, NEW pair \in 0..2^(LogMatrix - 1) - 1, NEW D,
           \A c \in 0..2^k - 1 : D[c] = Answer!Tree[LogMatrix - k][c]
    PROVE  LET P == Answer!TopPath(Heights(D, k), pair \div 2^(LogMatrix - k - 1))
           IN  /\ Lists(P, k)
               /\ \A i \in 1..k : P[i] = Twins(pair)[LogMatrix - k - 1 + i]
<1>. DEFINE m == LogMatrix - k
            c == pair \div 2^(m - 1)
            H == Heights(D, k)
            s == <<H[0][Answer!Twin(c)]>>
            t == Answer!getPathToBlock(H, k, c)
            P == Answer!TopPath(H, c)
<1>1. /\ LogMatrix \in Nat \ {0} /\ k \in Nat \ {0} /\ m \in 1..LogMatrix /\ m - 1 \in Nat
      /\ k - 1 \in Nat /\ 1 + (k - 1) = k /\ LogMatrix - m = k /\ LogMatrix - m - k = 0
  BY LogLenAssumption
<1>2. c \in 0..2^k - 1 /\ c \in Nat /\ pair \in Nat
  <2>1. pair \div 2^(m - 1) \in 0..2^(LogMatrix - m) - 1
    <3>. HIDE DEF m
    <3>. QED  BY <1>1, PairInCoset
  <2>. QED  BY <1>1, <2>1
<1>3. \A h \in 0..k : \A j \in 0..2^(k - h) - 1 : H[h][j] = TreeAt(m + h, j)
  <2>1. /\ k \in 0..LogMatrix /\ m \in 0..LogMatrix - k
        /\ 0 \in 0..2^(LogMatrix - m - k) - 1
    BY <1>1, PowerPositive
  <2>2. \A b \in 0..2^k - 1 : D[b] = TreeAt(m, 2^k * 0 + b)
    <3>1. \A b \in 0..2^k - 1 : D[b] = TreeAt(m, b)
      BY AnswerVocabulary DEF TreeAt
    <3>2. \A b \in 0..2^k - 1 : 2^k * 0 + b = b
      BY <1>1, PowerPositive
    <3>. QED  BY <3>1, <3>2
  <2>3. \A h \in 0..k : \A j \in 0..2^(k - h) - 1 :
           H[h][j] = TreeAt(m + h, 2^(k - h) * 0 + j)
    <3>. HIDE DEF m
    <3>. QED  BY <2>1, <2>2, TreeInTree
  <2>4. \A h \in 0..k : \A j \in 0..2^(k - h) - 1 : 2^(k - h) * 0 + j = j
    <3>1. \A h \in 0..k : k - h \in Nat
      BY <1>1
    <3>. QED  BY <3>1, PowerPositive
  <2>. HIDE DEF H, m
  <2>. QED  BY <2>3, <2>4
<1>4. \A i \in 1..LogMatrix - 1 : Twins(pair)[i] = TreeAt(i, Answer!Twin(pair \div 2^(i - 1)))
  BY DEF Twins
<1>5. s[1] = Twins(pair)[m]
  <2>1. Answer!Twin(c) \in 0..2^k - 1
    <3>. HIDE DEF c, m, H
    <3>. QED  BY <1>1, <1>2, TwinRange DEF Answer!Twin
  <2>2. H[0][Answer!Twin(c)] = TreeAt(m, Answer!Twin(c))
    <3>1. 0 \in 0..k /\ k - 0 = k /\ m + 0 = m
      BY <1>1
    <3>. HIDE DEF H, m, c
    <3>2. \A j \in 0..2^(k - 0) - 1 : H[0][j] = TreeAt(m + 0, j)
      BY <1>3, <3>1
    <3>. QED  BY <2>1, <3>1, <3>2
  <2>3. m \in 1..LogMatrix - 1
    BY <1>1
  <2>. QED  BY <1>4, <2>2, <2>3
<1>6. \A i \in 1..k - 1 : t[i] = Twins(pair)[m + i]
  <2>. SUFFICES ASSUME NEW i \in 1..k - 1 PROVE t[i] = Twins(pair)[m + i]
    OBVIOUS
  <2>1. t[i] = H[i][Answer!Twin(c \div 2^i)]
    BY DEF Answer!getPathToBlock, Answer!ShiftRight, Answer!POW2
  <2>2. /\ i \in Nat /\ i \in 0..k /\ m + i \in 1..LogMatrix - 1 /\ (m - 1) + i = (m + i) - 1
        /\ k - i \in Nat \ {0}
    BY <1>1
  <2>3. c \div 2^i = pair \div 2^((m + i) - 1)
    BY <1>1, <1>2, <2>2, ShiftSum
  <2>4. c \div 2^i \in 0..2^(k - i) - 1
    BY <1>1, <1>2, <2>2, ShiftBelow
  <2>5. Answer!Twin(c \div 2^i) \in 0..2^(k - i) - 1
    <3>. HIDE DEF c
    <3>. QED  BY <2>2, <2>4, TwinRange DEF Answer!Twin
  <2>6. H[i][Answer!Twin(c \div 2^i)] = TreeAt(m + i, Answer!Twin(c \div 2^i))
    <3>. HIDE DEF H, m, c
    <3>. QED  BY <1>3, <2>2, <2>5
  <2>. QED  BY <1>4, <2>1, <2>2, <2>3, <2>6
<1>7. Lists(s, 1) /\ Lists(t, k - 1)
  <2>1. Lists(s, 1)
    BY DEF Lists
  <2>2. Lists(t, k - 1)
    BY DEF Lists, Answer!getPathToBlock
  <2>. QED  BY <2>1, <2>2
<1>8. P = Joined(s, t)
  BY DEF Answer!TopPath, Joined
<1>. HIDE DEF s, t, P, H, c, m
<1>9. /\ Lists(P, 1 + (k - 1))
      /\ \A i \in 1..1 : P[i] = s[i]
      /\ \A i \in 1..k - 1 : P[1 + i] = t[i]
  BY <1>1, <1>7, <1>8, Concatenation
<1>10. ASSUME NEW i \in 1..k PROVE P[i] = Twins(pair)[m - 1 + i]
  <2>1. CASE i = 1
    <3>1. m - 1 + i = m
      BY <1>1, <2>1
    <3>. QED  BY <1>5, <1>8, <1>9, <2>1, <3>1
  <2>2. CASE i # 1
    <3>1. i - 1 \in 1..k - 1 /\ 1 + (i - 1) = i /\ m + (i - 1) = m - 1 + i
      BY <1>1, <2>2
    <3>2. P[1 + (i - 1)] = t[i - 1] /\ t[i - 1] = Twins(pair)[m + (i - 1)]
      BY <1>6, <1>8, <1>9, <3>1
    <3>. QED  BY <3>1, <3>2
  <2>. QED  BY <2>1, <2>2
<1>. QED  BY <1>1, <1>8, <1>9, <1>10 DEF P, H, c, m

\* However the matrix was kept, the prover finds the path of the pair.
LEMMA PathRight ==
    ASSUME logCosets \in 0..LogMatrix - 1, NEW pair \in 0..2^(LogMatrix - 1) - 1
    PROVE  \A i \in 1..LogMatrix - 1 : Answer!PathOf(pair)[i] = Twins(pair)[i]
<1>1. CASE logCosets = 0
  BY <1>1, PathInHeap DEF Answer!PathOf
<1>2. CASE logCosets # 0
  <2>. DEFINE k == logCosets
              m == LogMatrix - k
              c == pair \div 2^(m - 1)
              r == pair % 2^(m - 1)
              D == [b \in 0..2^m - 1 |-> Evaluation[c * 2^m + b]]
              E == [b \in 0..2^k - 1 |-> Answer!Tree[m][b]]
              s == Answer!MerklePath(D, m, r)
              t == Answer!TopPath(Heights(E, k), c)
  <2>1. /\ k \in 1..LogMatrix - 1 /\ m \in 1..LogMatrix /\ LogMatrix \in Nat \ {0}
        /\ m - 1 \in Nat /\ k \in Nat /\ (m - 1) + k = LogMatrix - 1
    BY <1>2, LogLenAssumption
  <2>2. Answer!PathOf(pair) = Joined(s, t)
    <3>1. Answer!cosetLen = m
      BY DEF Answer!cosetLen
    <3>2. Answer!Heights(E, k) = Heights(E, k) /\ Answer!Data = Evaluation
      BY AnswerVocabulary
    <3>3. Answer!PathOf(pair) = Answer!PathByCosets(pair)
      BY <1>2 DEF Answer!PathOf
    <3>4. Answer!PathByCosets(pair) = s \o Answer!TopPath(Answer!Heights(E, k), c)
      BY <3>1, <3>2 DEF Answer!PathByCosets, Answer!ShiftRight, Answer!POW2
    <3>. QED  BY <3>2, <3>3, <3>4 DEF Joined
  <2>3. Lists(s, m - 1) /\ \A i \in 1..m - 1 : s[i] = Twins(pair)[i]
    <3>1. \A b \in 0..2^m - 1 : D[b] = Evaluation[(pair \div 2^(m - 1)) * 2^m + b]
      OBVIOUS
    <3>. HIDE DEF D, m
    <3>. QED  BY <2>1, <3>1, PathInCoset
  <2>4. Lists(t, k) /\ \A i \in 1..k : t[i] = Twins(pair)[m - 1 + i]
    <3>1. \A b \in 0..2^k - 1 : E[b] = Answer!Tree[LogMatrix - k][b]
      OBVIOUS
    <3>. HIDE DEF E
    <3>. QED  BY <2>1, <3>1, PathAboveCosets
  <2>. HIDE DEF s, t, m, k
  <2>5. /\ \A i \in 1..m - 1 : Joined(s, t)[i] = s[i]
        /\ \A i \in 1..k : Joined(s, t)[(m - 1) + i] = t[i]
    <3>1. m - 1 \in Nat /\ k \in Nat /\ Lists(s, m - 1) /\ Lists(t, k)
      BY <2>1, <2>3, <2>4
    <3>. QED  BY <3>1, Concatenation
  <2>6. ASSUME NEW i \in 1..LogMatrix - 1 PROVE Joined(s, t)[i] = Twins(pair)[i]
    <3>1. CASE i \in 1..m - 1
      BY <2>3, <2>5, <3>1
    <3>2. CASE i \notin 1..m - 1
      <4>1. i - (m - 1) \in 1..k /\ (m - 1) + (i - (m - 1)) = i
        BY <2>1, <3>2
      <4>2. Joined(s, t)[(m - 1) + (i - (m - 1))] = Twins(pair)[(m - 1) + (i - (m - 1))]
        BY <2>4, <2>5, <4>1
      <4>. QED  BY <4>1, <4>2
    <3>. QED  BY <3>1, <3>2
  <2>. QED  BY <2>2, <2>6 DEF s, t, m, k
<1>. QED  BY <1>1, <1>2
-----------------------------------------------------------------------------
(* What is true of every state of an answer. *)

\* The pairs that were answered, and the places of the results tree they reach:
\* both blocks, and the twins on the way up.
Answered == Above(queries, 1) \ todo
Reached(P, l) == IF l = 0 THEN {2 * p : p \in P} \cup {2 * p + 1 : p \in P}
                 ELSE {Answer!Twin(p \div 2^(l - 1)) : p \in P}

\* Nothing is in the results tree but digests of the tree, where they belong.
ResultsRight ==
    \A l \in 0..LogMatrix - 1 :
       /\ DOMAIN resultsTree[l] = Reached(Answered, l)
       /\ \A i \in Reached(Answered, l) : resultsTree[l][i] = TreeAt(l, i)

\* How far the parties are.
PhasesRight ==
    /\ queries \subseteq AllBlocks /\ logCosets \in 0..LogMatrix - 1
    /\ todo \subseteq Above(queries, 1)
    /\ answerStage \in {"unasked", "answer", "sent", "digested", "decided", "aborted"}
    /\ answerStage = "unasked" => queries = {}
    /\ answerStage \notin {"unasked", "answer"} => todo = {}
    /\ answerStage \in {"unasked", "answer"} => honest
    /\ answerStage \in {"unasked", "answer", "sent"} => view = Answer!EmptyLayers
    /\ answerStage = "aborted" => ~ honest

\* The vector is what the results tree holds, in the order of the shape.
SentRight ==
    answerStage = "sent" /\ honest =>
       results = Answer!toVector(resultsTree, Answer!getSerializationMapping(queries))

\* What was put back has the shape of the answer, whoever sent it.
ViewRight ==
    answerStage \in {"digested", "decided"} /\ queries # {} =>
       \A l \in 0..LogMatrix - 1 :
          /\ DOMAIN view[l] = Explicit(queries, l)
          /\ honest => \A i \in Explicit(queries, l) : view[l][i] = TreeAt(l, i)

DecisionRight ==
    answerStage = "decided" => /\ accepted = Answer!verifyComitment
                               /\ answers = [b \in queries |-> view[0][b]]

AnswerInv == PhasesRight /\ ResultsRight /\ SentRight /\ ViewRight /\ DecisionRight
\* Every pair reaches places of its own accord, and all of them the shape.
LEMMA ReachedFacts ==
    ASSUME NEW Q \in SUBSET AllBlocks
    PROVE  /\ Above(Q, 1) \subseteq 0..2^(LogMatrix - 1) - 1
           /\ Reached(Above(Q, 1), 0) = PairUp(Q)
           /\ \A l \in 0..LogMatrix - 1 : Explicit(Q, l) \subseteq Reached(Above(Q, 1), l)
<1>1. LogMatrix \in Nat \ {0} /\ Q \subseteq Nat /\ 2^1 = 2 /\ 1 \in 0..LogMatrix
  BY AnswerVocabulary, PowerStep, PowerPositive
<1>2. Above(Q, 1) \subseteq 0..2^(LogMatrix - 1) - 1
  <2>1. \A q \in 0..2^LogMatrix - 1 : q \div 2^1 \in 0..2^(LogMatrix - 1) - 1
    BY <1>1, ShiftBelow
  <2>. QED  BY <2>1 DEF Above, AllBlocks
<1>3. Reached(Above(Q, 1), 0) = PairUp(Q)
  <2>1. Reached(Above(Q, 1), 0) = {2 * (q \div 2) : q \in Q} \cup {2 * (q \div 2) + 1 : q \in Q}
    BY <1>1 DEF Reached, Above
  <2>2. \A q \in Q : {2 * (q \div 2), 2 * (q \div 2) + 1} = {q, Answer!Twin(q)}
    BY <1>1, TwinFacts
  <2>3. ASSUME NEW i \in PairUp(Q) PROVE i \in Reached(Above(Q, 1), 0)
    <3>1. PICK q \in Q : i = q \/ i = Answer!Twin(q)
      BY DEF PairUp
    <3>2. i \in {2 * (q \div 2), 2 * (q \div 2) + 1}
      BY <2>2, <3>1
    <3>. QED  BY <2>1, <3>2
  <2>4. ASSUME NEW i \in Reached(Above(Q, 1), 0) PROVE i \in PairUp(Q)
    <3>1. PICK q \in Q : i = 2 * (q \div 2) \/ i = 2 * (q \div 2) + 1
      BY <2>1
    <3>2. i \in {q, Answer!Twin(q)}
      BY <2>2, <3>1
    <3>. QED  BY <3>2 DEF PairUp
  <2>. QED  BY <2>3, <2>4
<1>4. ASSUME NEW l \in 0..LogMatrix - 1 PROVE Explicit(Q, l) \subseteq Reached(Above(Q, 1), l)
  <2>1. CASE l = 0
    BY <1>3, <2>1 DEF Explicit
  <2>2. CASE l # 0
    <3>1. l - 1 \in Nat /\ 1 + (l - 1) = l
      BY <2>2
    <3>2. \A q \in Q : (q \div 2^1) \div 2^(l - 1) = q \div 2^l
      <4>. DEFINE n == l - 1
      <4>1. n \in Nat /\ 1 \in Nat /\ 1 + n = l
        BY <3>1
      <4>. HIDE DEF n
      <4>2. \A q \in Nat : (q \div 2^1) \div 2^n = q \div 2^(1 + n)
        BY <4>1, ShiftSum
      <4>. QED  BY <1>1, <4>1, <4>2 DEF n
    <3>3. Explicit(Q, l) \subseteq {Answer!Twin(a) : a \in Above(Q, l)}
      BY <2>2 DEF Explicit, PairUp
    <3>4. ASSUME NEW q \in Q PROVE Answer!Twin(q \div 2^l) \in Reached(Above(Q, 1), l)
      <4>1. q \div 2^1 \in Above(Q, 1)
        BY DEF Above
      <4>. QED  BY <2>2, <3>2, <4>1 DEF Reached
    <3>. QED  BY <3>3, <3>4 DEF Above
  <2>. QED  BY <2>1, <2>2
<1>. QED  BY <1>2, <1>3, <1>4

\* The length of a sequence.
LEMMA ListLength == ASSUME NEW n \in Nat, NEW s, Lists(s, n) PROVE Len(s) = n
<1>. DEFINE S == {s[i] : i \in 1..n}
<1>1. s \in [1..n -> S]
  BY DEF Lists
<1>. HIDE DEF S
<1>. QED  BY <1>1, SeqDef, LenProperties

\* Nobody has asked for anything yet.
LEMMA AnswerInit == Answer!Init => AnswerInv
<1>. SUFFICES ASSUME Answer!Init PROVE AnswerInv
  OBVIOUS
<1>. USE DEF Answer!Init
<1>1. LogMatrix \in Nat \ {0} /\ Answer!Layers = 0..LogMatrix - 1
  BY AnswerVocabulary
<1>2. PhasesRight
  BY <1>1 DEF PhasesRight
<1>3. ResultsRight
  <2>1. Answered = {}
    BY DEF Answered, Above
  <2>. QED  BY <1>1, <2>1 DEF ResultsRight, Reached, Answer!EmptyLayers, Answer!Empty
<1>4. SentRight /\ ViewRight /\ DecisionRight
  BY DEF SentRight, ViewRight, DecisionRight
<1>. QED  BY <1>2, <1>3, <1>4 DEF AnswerInv

\* What nothing changes stays as it was.
LEMMA AnswerKept == AnswerInv /\ UNCHANGED answerVars => AnswerInv'
<1>. SUFFICES ASSUME AnswerInv, UNCHANGED answerVars PROVE AnswerInv'
  OBVIOUS
<1>. USE DEF answerVars, AnswerInv
<1>1. PhasesRight'
  BY DEF PhasesRight
<1>2. Answered' = Answered
  BY DEF Answered
<1>3. ResultsRight'
  BY <1>2 DEF ResultsRight
<1>4. SentRight'
  BY DEF SentRight
<1>5. ViewRight'
  BY DEF ViewRight
<1>6. DecisionRight'
  BY DEF DecisionRight, Answer!verifyComitment
<1>. QED  BY <1>1, <1>3, <1>4, <1>5, <1>6

\* The queries arrive: every pair is still to be answered.
LEMMA QueriesStep ==
    ASSUME AnswerInv, NEW cosets \in Answer!Layers, Answer!ReceiveQueries(cosets)
    PROVE  AnswerInv'
<1>. USE DEF Answer!ReceiveQueries, AnswerInv
<1>1. /\ Answer!Layers = 0..LogMatrix - 1 /\ Answer!Blocks = AllBlocks
      /\ queries = {} /\ honest
  BY AnswerVocabulary DEF PhasesRight
<1>2. queries' \subseteq AllBlocks
  BY <1>1 DEF Answer!kSubset
<1>3. todo' = Above(queries', 1)
  BY DEF Answer!getRawQuery, Answer!ShiftRight, Answer!POW2, Above
<1>4. PhasesRight'
  BY <1>1, <1>2, <1>3 DEF PhasesRight
<1>5. ResultsRight'
  <2>1. Answered = {} /\ Answered' = {}
    BY <1>1, <1>3 DEF Answered, Above
  <2>. QED  BY <2>1 DEF ResultsRight
<1>6. SentRight' /\ ViewRight' /\ DecisionRight'
  BY DEF SentRight, ViewRight, DecisionRight
<1>. QED  BY <1>4, <1>5, <1>6
\* A pair is answered, from wherever its path was found.
LEMMA AnswerQueryStep ==
    ASSUME AnswerInv, NEW p, Answer!AnswerQuery(p)
    PROVE  AnswerInv'
<1>. USE DEF Answer!AnswerQuery
<1>1. /\ p \in todo /\ todo \subseteq Above(queries, 1) /\ queries \subseteq AllBlocks
      /\ answerStage = "answer" /\ PhasesRight /\ ResultsRight
      /\ logCosets \in 0..LogMatrix - 1
  BY DEF AnswerInv, PhasesRight
<1>2. p \in 0..2^(LogMatrix - 1) - 1 /\ LogMatrix \in Nat \ {0} /\ p \in Nat
      /\ Answer!Layers = 0..LogMatrix - 1
  BY <1>1, ReachedFacts, AnswerVocabulary
<1>3. PhasesRight'
  BY <1>1 DEF PhasesRight
<1>4. Answered' = Answered \cup {p}
  BY <1>1 DEF Answered
<1>5. \A i \in 1..LogMatrix - 1 :
         Answer!PathOf(p)[i] = TreeAt(i, Answer!Twin(p \div 2^(i - 1)))
  <2>1. \A i \in 1..LogMatrix - 1 : Answer!PathOf(p)[i] = Twins(p)[i]
    BY <1>1, <1>2, PathRight
  <2>. QED  BY <2>1 DEF Twins
<1>6. 2 * p \in AllBlocks /\ 2 * p + 1 \in AllBlocks
  <2>1. 2^((LogMatrix - 1) + 1) = 2^(LogMatrix - 1) + 2^(LogMatrix - 1)
        /\ 2^(LogMatrix - 1) \in Nat /\ LogMatrix - 1 \in Nat /\ (LogMatrix - 1) + 1 = LogMatrix
    BY <1>2, PowerStep
  <2>. QED  BY <1>2, <2>1 DEF AllBlocks
<1>7. Answer!Data = Evaluation /\ \A b \in AllBlocks : Evaluation[b] = TreeAt(0, b)
  BY AnswerVocabulary, TreeAtStep
<1>8. ASSUME NEW l \in 0..LogMatrix - 1
      PROVE  /\ DOMAIN resultsTree'[l] = Reached(Answered', l)
             /\ \A i \in Reached(Answered', l) : resultsTree'[l][i] = TreeAt(l, i)
  <2>1. /\ DOMAIN resultsTree[l] = Reached(Answered, l)
        /\ \A i \in Reached(Answered, l) : resultsTree[l][i] = TreeAt(l, i)
    BY <1>1 DEF ResultsRight
  <2>2. CASE l = 0
    <3>. DEFINE E == Answer!addEntry(resultsTree[0], 2 * p, Evaluation[2 * p])
                F == Answer!addEntry(E, 2 * p + 1, Evaluation[2 * p + 1])
    <3>1. resultsTree'[0] = F
      BY <1>2, <1>7, <2>2 DEF Answer!addPath
    <3>2. /\ DOMAIN E = DOMAIN resultsTree[0] \cup {2 * p} /\ E[2 * p] = Evaluation[2 * p]
          /\ \A i \in DOMAIN resultsTree[0] : i # 2 * p => E[i] = resultsTree[0][i]
      BY DEF Answer!addEntry, Answer!Overlay
    <3>. HIDE DEF E
    <3>3. /\ DOMAIN F = DOMAIN E \cup {2 * p + 1} /\ F[2 * p + 1] = Evaluation[2 * p + 1]
          /\ \A i \in DOMAIN E : i # 2 * p + 1 => F[i] = E[i]
      BY DEF Answer!addEntry, Answer!Overlay
    <3>. HIDE DEF F
    <3>4. Reached(Answered', 0) = Reached(Answered, 0) \cup {2 * p, 2 * p + 1}
      BY <1>4 DEF Reached
    <3>. QED  BY <1>6, <1>7, <2>1, <2>2, <3>1, <3>2, <3>3, <3>4
  <2>3. CASE l # 0
    <3>. DEFINE t == Answer!Twin(p \div 2^(l - 1))
                E == Answer!addEntry(resultsTree[l], t, TreeAt(l, t))
    <3>1. Answer!PathOf(p)[l] = TreeAt(l, t)
      BY <1>5, <2>3
    <3>2. resultsTree'[l] = E
      BY <1>2, <2>3, <3>1 DEF Answer!addPath, Answer!ShiftRight, Answer!POW2
    <3>3. /\ DOMAIN E = DOMAIN resultsTree[l] \cup {t} /\ E[t] = TreeAt(l, t)
          /\ \A i \in DOMAIN resultsTree[l] : i # t => E[i] = resultsTree[l][i]
      BY DEF Answer!addEntry, Answer!Overlay
    <3>4. Reached(Answered', l) = Reached(Answered, l) \cup {t}
      BY <1>4, <2>3 DEF Reached
    <3>. HIDE DEF E, t
    <3>. QED  BY <2>1, <3>2, <3>3, <3>4
  <2>. QED  BY <2>2, <2>3
<1>9. ResultsRight'
  BY <1>8 DEF ResultsRight
<1>10. SentRight' /\ ViewRight' /\ DecisionRight'
  BY <1>1 DEF SentRight, ViewRight, DecisionRight
<1>. QED  BY <1>3, <1>9, <1>10 DEF AnswerInv

\* When all pairs are answered, the results tree has every digest of the shape.
LEMMA SendStep == AnswerInv /\ Answer!SendResults => AnswerInv'
<1>. SUFFICES ASSUME AnswerInv, Answer!SendResults PROVE AnswerInv'
  OBVIOUS
<1>. USE DEF Answer!SendResults
<1>1. /\ todo = {} /\ queries \in SUBSET AllBlocks /\ answerStage = "answer" /\ honest
      /\ PhasesRight /\ ResultsRight
  BY DEF AnswerInv, PhasesRight
<1>2. Answered = Above(queries, 1)
  BY <1>1 DEF Answered
<1>. DEFINE M == Answer!getSerializationMapping(queries)
<1>3. LogMatrix \in Nat \ {0} /\ Answer!Layers = 0..LogMatrix - 1
  BY AnswerVocabulary
<1>4. Answer!getSerializationMapping(DOMAIN resultsTree[0]) = M
  <2>1. DOMAIN resultsTree[0] = Reached(Above(queries, 1), 0)
    BY <1>1, <1>2, <1>3 DEF ResultsRight
  <2>2. DOMAIN resultsTree[0] = PairUp(queries)
    BY <1>1, <2>1, ReachedFacts
  <2>3. Answer!getSerializationMapping(PairUp(queries)) = M
    BY <1>1, MappingRight
  <2>. QED  BY <2>2, <2>3
<1>5. Answer!Present(resultsTree, M)
  <2>1. ASSUME NEW n \in DOMAIN M PROVE M[n][2] \in DOMAIN resultsTree[M[n][1]]
    <3>1. M[n] \in Entries(queries)
      <4>. DEFINE N == Cardinality(Entries(queries))
      <4>1. M = [i \in 1..N |-> M[i]] /\ \A i \in 1..N : M[i] \in Entries(queries)
        BY <1>1, MappingRight
      <4>2. n \in DOMAIN M
        BY <2>1
      <4>. HIDE DEF M, N
      <4>. QED  BY <4>1, <4>2
    <3>. HIDE DEF M
    <3>2. PICK l \in 0..LogMatrix - 1 : \E i \in Explicit(queries, l) : M[n] = <<l, i>>
      BY <1>3, <3>1 DEF Entries
    <3>3. PICK i \in Explicit(queries, l) : M[n] = <<l, i>>
      BY <3>2
    <3>4. i \in Reached(Answered, l)
      BY <1>1, <1>2, ReachedFacts
    <3>5. i \in DOMAIN resultsTree[l]
      BY <1>1, <3>4 DEF ResultsRight
    <3>. QED  BY <3>3, <3>5
  <2>. QED  BY <2>1 DEF Answer!Present
<1>6. /\ results' = Answer!toVector(resultsTree, M) /\ answerStage' = "sent"
      /\ UNCHANGED <<queries, logCosets, todo, resultsTree, honest, view, answers, accepted>>
  <2>. HIDE DEF M
  <2>. QED  BY <1>4, <1>5
<1>7. PhasesRight'
  BY <1>1, <1>6 DEF PhasesRight
<1>8. Answered' = Answered
  BY <1>6 DEF Answered
<1>9. ResultsRight'
  BY <1>1, <1>6, <1>8 DEF ResultsRight
<1>10. SentRight'
  BY <1>6 DEF SentRight
<1>11. ViewRight' /\ DecisionRight'
  BY <1>6 DEF ViewRight, DecisionRight
<1>. QED  BY <1>7, <1>9, <1>10, <1>11 DEF AnswerInv

\* From here on nothing is known of the vector.
LEMMA FalsifyStep == AnswerInv /\ Answer!Falsify => AnswerInv'
<1>. SUFFICES ASSUME AnswerInv, Answer!Falsify PROVE AnswerInv'
  OBVIOUS
<1>1. /\ answerStage = "sent" /\ honest' = FALSE
      /\ UNCHANGED <<queries, logCosets, todo, resultsTree, view, answerStage, answers, accepted>>
  BY DEF Answer!Falsify
<1>2. PhasesRight'
  BY <1>1 DEF AnswerInv, PhasesRight
<1>3. Answered' = Answered
  BY <1>1 DEF Answered
<1>4. ResultsRight'
  BY <1>1, <1>3 DEF AnswerInv, ResultsRight
<1>5. SentRight' /\ ViewRight' /\ DecisionRight'
  BY <1>1 DEF SentRight, ViewRight, DecisionRight
<1>. QED  BY <1>2, <1>4, <1>5 DEF AnswerInv
\* The vector is put back, if it is as long as the shape.
LEMMA DigestResultsStep == AnswerInv /\ Answer!DigestResults => AnswerInv'
<1>. SUFFICES ASSUME AnswerInv, Answer!DigestResults PROVE AnswerInv'
  OBVIOUS
<1>. USE DEF Answer!DigestResults
<1>1. /\ todo = {} /\ queries \in SUBSET AllBlocks /\ answerStage = "sent"
      /\ view = Answer!EmptyLayers /\ PhasesRight /\ ResultsRight /\ SentRight
  BY DEF AnswerInv, PhasesRight
<1>2. Answered = Above(queries, 1)
  BY <1>1 DEF Answered
<1>. DEFINE M == Answer!getSerializationMapping(queries)
            Sent == Answer!toVector(resultsTree, M)
<1>3. Answer!Expected(queries) = M
  BY DEF Answer!Expected
<1>4. Len(Sent) = Len(M)
  <2>. DEFINE N == Cardinality(Entries(queries))
  <2>1. N \in Nat /\ M = [n \in 1..N |-> M[n]]
    BY <1>1, MappingRight
  <2>. HIDE DEF M, N
  <2>2. DOMAIN M = 1..N /\ Lists(M, N)
    BY <2>1 DEF Lists
  <2>3. Lists(Sent, N)
    BY <2>2 DEF Lists, Answer!toVector
  <2>. HIDE DEF Sent
  <2>. QED  BY <2>1, <2>2, <2>3, ListLength
<1>5. honest => Len(results) = Len(M)
  BY <1>1, <1>4 DEF SentRight
<1>. HIDE DEF M, Sent
<1>6. \/ /\ queries = {} /\ answerStage' = "digested"
      \/ /\ ~ honest /\ answerStage' = "aborted"
      \/ /\ queries # {} /\ answerStage' = "digested"
         /\ view' = Answer!DeSerialize(view, M, results)
  BY <1>3, <1>5
<1>7. UNCHANGED <<queries, logCosets, todo, resultsTree, results, honest, answers, accepted>>
  OBVIOUS
<1>8. PhasesRight'
  BY <1>1, <1>6, <1>7 DEF PhasesRight
<1>9. ResultsRight'
  <2>1. Answered' = Answered
    BY <1>7 DEF Answered
  <2>. QED  BY <1>1, <1>7, <2>1 DEF ResultsRight
<1>10. SentRight' /\ DecisionRight'
  BY <1>6 DEF SentRight, DecisionRight
<1>11. ViewRight'
  <2>1. CASE queries # {} /\ answerStage' = "digested"
    <3>1. view' = Received(queries, results)
      BY <1>1, <1>6, <2>1 DEF Received, M
    <3>2. \A l \in 0..LogMatrix - 1 : DOMAIN view'[l] = Explicit(queries, l)
      BY <1>1, <3>1, ReceivedShape
    <3>3. ASSUME honest, NEW l \in 0..LogMatrix - 1, NEW i \in Explicit(queries, l)
          PROVE  view'[l][i] = TreeAt(l, i)
      <4>1. results = Answer!toVector(resultsTree, Answer!getSerializationMapping(queries))
        BY <1>1, <3>3 DEF SentRight
      <4>2. view'[l][i] = resultsTree[l][i]
        BY <1>1, <3>1, <4>1, ReceivedIsSent
      <4>3. i \in Reached(Answered, l)
        BY <1>1, <1>2, ReachedFacts
      <4>. QED  BY <1>1, <4>2, <4>3 DEF ResultsRight
    <3>. QED  BY <1>7, <3>2, <3>3 DEF ViewRight
  <2>2. CASE ~ (queries # {} /\ answerStage' = "digested")
    BY <1>6, <1>7, <2>2 DEF ViewRight
  <2>. QED  BY <2>1, <2>2
<1>. QED  BY <1>8, <1>9, <1>10, <1>11 DEF AnswerInv

\* What was put back can be computed with, and is decided on.
LEMMA VerifyStep == AnswerInv /\ Answer!Verify => AnswerInv'
<1>. SUFFICES ASSUME AnswerInv, Answer!Verify PROVE AnswerInv'
  OBVIOUS
<1>. USE DEF Answer!Verify
<1>1. /\ queries \in SUBSET AllBlocks /\ answerStage = "digested"
      /\ PhasesRight /\ ResultsRight /\ ViewRight
  BY DEF AnswerInv, PhasesRight
<1>2. queries # {} => Answer!Complete(view)
  <2>1. queries # {} => \A l \in 0..LogMatrix - 1 : DOMAIN view[l] = Explicit(queries, l)
    BY <1>1 DEF ViewRight
  <2>. QED  BY <1>1, <2>1, ReceivedComplete
<1>3. /\ accepted' = Answer!verifyComitment /\ answers' = [b \in queries |-> view[0][b]]
      /\ answerStage' = "decided"
      /\ UNCHANGED <<queries, logCosets, todo, resultsTree, results, honest, view>>
  BY <1>2
<1>4. PhasesRight'
  BY <1>1, <1>3 DEF PhasesRight
<1>5. ResultsRight'
  <2>1. Answered' = Answered
    BY <1>3 DEF Answered
  <2>. QED  BY <1>1, <1>3, <2>1 DEF ResultsRight
<1>6. SentRight'
  BY <1>3 DEF SentRight
<1>7. ViewRight'
  BY <1>1, <1>3 DEF ViewRight
<1>8. DecisionRight'
  <2>1. Answer!verifyComitment' = Answer!verifyComitment
    BY <1>3 DEF Answer!verifyComitment
  <2>. QED  BY <1>3, <2>1 DEF DecisionRight
<1>. QED  BY <1>4, <1>5, <1>6, <1>7, <1>8 DEF AnswerInv

\* Every step of either party.
LEMMA AnswerStep == AnswerInv /\ [Answer!Next]_answerVars => AnswerInv'
<1>. SUFFICES ASSUME AnswerInv, [Answer!Next]_answerVars PROVE AnswerInv'
  OBVIOUS
<1>1. ASSUME NEW cosets \in Answer!Layers, Answer!ReceiveQueries(cosets) PROVE AnswerInv'
  BY <1>1, QueriesStep
<1>2. ASSUME NEW p, Answer!AnswerQuery(p) PROVE AnswerInv'
  BY <1>2, AnswerQueryStep
<1>3. CASE Answer!SendResults
  BY <1>3, SendStep
<1>4. CASE Answer!Falsify
  BY <1>4, FalsifyStep
<1>5. CASE Answer!DigestResults
  BY <1>5, DigestResultsStep
<1>6. CASE Answer!Verify
  BY <1>6, VerifyStep
<1>7. CASE Answer!Finished \/ UNCHANGED answerVars
  <2>1. UNCHANGED answerVars
    BY <1>7 DEF Answer!Finished, Answer!vars, answerVars
  <2>. QED  BY <2>1, AnswerKept
<1>. QED  BY <1>1, <1>2, <1>3, <1>4, <1>5, <1>6, <1>7 DEF Answer!Next

-----------------------------------------------------------------------------
(* What follows from it. *)

\* An honest answer is as long as the verifier expects and never refused.
LEMMA InvShapes == AnswerInv => ShapesAgree
<1>. SUFFICES ASSUME AnswerInv PROVE ShapesAgree
  OBVIOUS
<1>1. honest => answerStage # "aborted"
  BY DEF AnswerInv, PhasesRight
<1>2. ASSUME answerStage = "sent", honest PROVE Len(results) = Len(Answer!Expected(queries))
  <2>. DEFINE N == Cardinality(Entries(queries))
              M == Answer!getSerializationMapping(queries)
  <2>1. queries \in SUBSET AllBlocks /\ results = Answer!toVector(resultsTree, M)
    BY <1>2 DEF AnswerInv, PhasesRight, SentRight
  <2>2. N \in Nat /\ M = [n \in 1..N |-> M[n]]
    BY <2>1, MappingRight
  <2>3. Answer!Expected(queries) = M
    BY DEF Answer!Expected
  <2>. HIDE DEF M, N
  <2>4. DOMAIN M = 1..N /\ Lists(M, N)
    BY <2>2 DEF Lists
  <2>5. Lists(results, N)
    BY <2>1, <2>4 DEF Lists, Answer!toVector
  <2>. QED  BY <2>2, <2>3, <2>4, <2>5, ListLength
<1>. QED  BY <1>1, <1>2 DEF ShapesAgree, Answer!ShapesAgree

\* An honest answer is accepted.
LEMMA InvAccepted == AnswerInv => HonestAccepted
<1>. SUFFICES ASSUME AnswerInv, answerStage = "decided", honest PROVE accepted
  BY DEF HonestAccepted, Answer!HonestAccepted
<1>1. /\ queries \in SUBSET AllBlocks
      /\ accepted = IF queries = {} THEN TRUE
                    ELSE Answer!calculateRoot(view) = TreeAt(LogMatrix, 0)
  <2>1. Answer!Tree = Heights(Evaluation, LogMatrix)
    BY AnswerVocabulary
  <2>. QED  BY <2>1 DEF AnswerInv, PhasesRight, DecisionRight, Answer!verifyComitment, TreeAt
<1>2. CASE queries # {}
  <2>1. \A l \in 0..LogMatrix - 1 : /\ DOMAIN view[l] = Explicit(queries, l)
                                    /\ \A i \in Explicit(queries, l) : view[l][i] = TreeAt(l, i)
    BY <1>2 DEF AnswerInv, ViewRight
  <2>2. Answer!calculateRoot(view) = TreeAt(LogMatrix, 0)
    BY <1>1, <1>2, <2>1, TreeLeadsToRoot
  <2>. QED  BY <1>1, <1>2, <2>2
<1>. QED  BY <1>1, <1>2

\* What is accepted is the data, or it comes with a collision.
LEMMA InvCommitted == AnswerInv => AcceptedIsCommitted \/ Collision(queries, view)
<1>. SUFFICES ASSUME ~ Collision(queries, view), AnswerInv, answerStage = "decided", accepted,
                     NEW b \in queries
              PROVE  answers[b] = Answer!Data[b]
  BY DEF AcceptedIsCommitted, Answer!AcceptedIsCommitted
<1>1. /\ queries \in SUBSET AllBlocks /\ queries # {} /\ answers[b] = view[0][b]
      /\ Answer!calculateRoot(view) = TreeAt(LogMatrix, 0)
  <2>1. Answer!Tree = Heights(Evaluation, LogMatrix)
    BY AnswerVocabulary
  <2>. QED  BY <2>1 DEF AnswerInv, PhasesRight, DecisionRight, Answer!verifyComitment, TreeAt
<1>2. \A l \in 0..LogMatrix - 1 : DOMAIN view[l] = Explicit(queries, l)
  BY <1>1 DEF AnswerInv, ViewRight
<1>3. view[0][b] = TreeAt(0, b)
  BY <1>1, <1>2, RootLeadsToTree
<1>4. TreeAt(0, b) = Evaluation[b] /\ Answer!Data = Evaluation
  BY <1>1, TreeAtStep, AnswerVocabulary
<1>. QED  BY <1>1, <1>3, <1>4
-----------------------------------------------------------------------------
(* The matrix from its commitment to the decision. *)

MatrixInv == IInv /\ AnswerInv

\* Neither building a commitment nor answering disturbs what is true of the
\* other (MatrixNext).
THEOREM MatrixInvariant == MatrixSpec => []MatrixInv
<1>1. CommitInit => MatrixInv
  BY BuildInit, AnswerInit DEF CommitInit, MatrixInv
<1>2. MatrixInv /\ [MatrixNext]_<<vars, answerVars>> => MatrixInv'
  <2>. SUFFICES ASSUME MatrixInv, [MatrixNext]_<<vars, answerVars>> PROVE MatrixInv'
    OBVIOUS
  <2>1. CASE Build
    <3>1. [Next]_vars /\ UNCHANGED answerVars
      BY <2>1 DEF Build
    <3>. QED  BY <3>1, BuildStep, AnswerKept DEF MatrixInv
  <2>2. CASE Respond
    <3>1. [Answer!Next]_answerVars /\ UNCHANGED vars
      BY <2>2 DEF Respond
    <3>2. [Next]_vars
      BY <3>1
    <3>. QED  BY <3>1, <3>2, BuildStep, AnswerStep DEF MatrixInv
  <2>3. CASE UNCHANGED <<vars, answerVars>>
    <3>1. [Next]_vars /\ UNCHANGED answerVars
      BY <2>3
    <3>. QED  BY <3>1, BuildStep, AnswerKept DEF MatrixInv
  <2>. QED  BY <2>1, <2>2, <2>3 DEF MatrixNext
<1>. QED  BY <1>1, <1>2, PTL DEF MatrixSpec

\* The kept heap is the tree over the evaluation and its root the commitment,
\* for every size, number of segments and schedule.
THEOREM HeapOfCommitment == MatrixSpec => []TreeRight
<1>1. MatrixInv => TreeRight
  BY BuildRight DEF MatrixInv
<1>. QED  BY <1>1, MatrixInvariant, PTL

\* No iteration reads a digest before it is written, if a written digest can
\* be told from memory nobody wrote.
THEOREM ReadsOfCommitment == ASSUME DigestsTellable PROVE MatrixSpec => []ReadsFinal
<1>1. MatrixInv => ReadsFinal
  BY BuildRight DEF MatrixInv
<1>. QED  BY <1>1, MatrixInvariant, PTL

\* Hashing a coset in its own buffer gives up the root and the paths of the
\* tree over it.
THEOREM PathsOfCoset == MatrixSpec => []PathsRight
<1>1. MatrixInv => PathsRight
  BY BuildRight DEF MatrixInv
<1>. QED  BY <1>1, MatrixInvariant, PTL

\* The two parties derive the same shape for an answer, whatever is asked, and
\* look up nothing that is not there.
THEOREM ShapesOfParties == MatrixSpec => []ShapesAgree
<1>1. MatrixInv => ShapesAgree
  BY InvShapes DEF MatrixInv
<1>. QED  BY <1>1, MatrixInvariant, PTL

\* An honest answer leads to the commitment, in whatever order its paths were
\* joined, from the heap or from the cosets.
THEOREM Completeness == MatrixSpec => []HonestAccepted
<1>1. MatrixInv => HonestAccepted
  BY InvAccepted DEF MatrixInv
<1>. QED  BY <1>1, MatrixInvariant, PTL

\* Whoever sent it, an accepted answer is the committed data, or what the
\* verifier computed from it contains a collision: two pairs with one hash.
THEOREM Extraction == MatrixSpec => [](AcceptedIsCommitted \/ Collision(queries, view))
<1>1. MatrixInv => AcceptedIsCommitted \/ Collision(queries, view)
  BY InvCommitted DEF MatrixInv
<1>. QED  BY <1>1, MatrixInvariant, PTL

\* No two pairs have one hash: what fetchResults relies on.
CollisionFree == \A a, b, c, d : Hash(a, b) = Hash(c, d) => a = c /\ b = d

\* So an accepted answer is the committed data as long as the hash has no
\* collisions.
THEOREM Binding == ASSUME CollisionFree PROVE MatrixSpec => []AcceptedIsCommitted
<1>1. ~ Collision(queries, view)
  BY DEF Collision, CollisionFree
<1>2. MatrixInv => AcceptedIsCommitted
  BY <1>1, InvCommitted DEF MatrixInv
<1>. QED  BY <1>2, MatrixInvariant, PTL
=============================================================================

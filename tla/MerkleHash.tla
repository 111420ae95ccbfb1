----------------------------- MODULE MerkleHash -----------------------------
(***************************************************************************)
(* The vocabulary of the Merkle commitments                                *)
(* (protocols/common/CryptoCommitment): an ideal hash of two digests, and  *)
(* the tree a commitment stands for, defined by recursion on its height so *)
(* that the code's loops have something to be compared with.  Positions    *)
(* are counted in blocks of one digest, as the code does.                  *)
(***************************************************************************)
EXTENDS Integers, Sequences, FiniteSets

CONSTANTS
    Hash(_, _),   \* the compression of two digests into one
    Garbage       \* a digest nobody computed: memory that was not written

POW2(k) == 2 ^ k

\* idx ^ 1UL: the other block of a pair.
Twin(idx) == IF idx % 2 = 0 THEN idx + 1 ELSE idx - 1

\* idx >> k.
ShiftRight(idx, k) == idx \div POW2(k)

\* The digests at height h over POW2(logLen) blocks: height 0 is the data.
Heights(data, logLen) ==
    LET height[h \in 0..logLen] ==
            IF h = 0 THEN data
            ELSE LET below == height[h - 1]
                 IN  [j \in 0..POW2(logLen - h) - 1 |->
                         Hash(below[2 * j], below[2 * j + 1])]
    IN  height

MerkleRoot(data, logLen) == Heights(data, logLen)[logLen][0]

\* What shows that a pair of blocks belongs to a tree: the twins of the nodes
\* between the hash of the pair and the root.
MerklePath(data, logLen, pair) ==
    LET height == Heights(data, logLen)
    IN  [i \in 1..logLen - 1 |-> height[i][Twin(ShiftRight(pair, i - 1))]]
=============================================================================

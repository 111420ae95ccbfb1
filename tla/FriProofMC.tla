----------------------------- MODULE FriProofMC -----------------------------
\* Two layers with two trees of columns, or one layer with two paths; rows in
\* the high order bits of a position (the witness) and in the low order bits
\* (the composition).
EXTENDS FriProof

instance(dim, logDegBound, comitments, queries, msb) ==
    [dim |-> dim, logDegBound |-> logDegBound, numComitmentPaths |-> comitments,
     numQueryPaths |-> queries, L0isMSB |-> msb]

SmallInstances == {instance(7, 4, 2, 1, msb) : msb \in BOOLEAN}
             \cup {instance(5, 3, 1, 2, msb) : msb \in BOOLEAN}
=============================================================================

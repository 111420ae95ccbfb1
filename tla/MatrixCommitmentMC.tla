------------------------- MODULE MatrixCommitmentMC -------------------------
\* Digests as terms: a block is <<b>>, a hash the pair of what it hashes, so
\* that no two different inputs collide.
EXTENDS MatrixCommitment

TermHash(a, b) == <<a, b>>
TermSource(b)  == <<b>>
TermGarbage    == <<>>
=============================================================================

------------------------------- MODULE RsTest -------------------------------
(***************************************************************************)
(* The test of the last layer of a FRI instance (RS_result::verify), for   *)
(* the degree bounds that have a case of their own.  The values are over   *)
(* the span of dim elements; position x is the sum of the elements at the  *)
(* bits of x and is written as the set of those bits, so that j ^ mask is  *)
(* a symmetric difference.  Values are taken from {0, 1}, where addition   *)
(* is addition modulo 2: enough to tell the functions apart that a test    *)
(* accepts.  The instances the verifier builds end in layers of dimension  *)
(* 3 or more (calculateRecursionDepth).                                    *)
(***************************************************************************)
EXTENDS Integers, FiniteSetsExt

CONSTANT dim    \* basis_.size(), 3 or more

Positions == SUBSET (1..dim)
Below(k)  == SUBSET (1..k - 1)     \* the positions below mask 2^(k-1)

verifyDeg0(results) == \A x \in Positions : results[x] = 0

verifyDeg1(results) == \A x \in Positions : results[x] = results[{}]

\* The mask is 2 in every turn of the loop over the dimensions.
verifyDeg2(results) ==
    LET b    == results[{}]
        mask == 2
    IN  \A i \in 1..dim - 1 : \A j \in Below(mask) :
            results[j] = (results[SymDiff(j, {mask})] + results[{mask}] + b) % 2

VARIABLES results, degBound, accepted

vars == <<results, degBound, accepted>>

Init ==
    /\ results \in [Positions -> {0, 1}]
    /\ degBound \in 0..2
    /\ accepted = FALSE

Verify ==
    /\ accepted' = CASE degBound = 0 -> verifyDeg0(results)
                     [] degBound = 1 -> verifyDeg1(results)
                     [] degBound = 2 -> verifyDeg2(results)
    /\ UNCHANGED <<results, degBound>>

Spec == Init /\ [][Verify]_vars

\* What is accepted as "of the form y=ax+b" (queryGenerator.cpp:59) is at least
\* additive up to a constant: its values at two positions give the one at their
\* sum.
OfTheForm ==
    accepted => \A x, y \in Positions :
        results[SymDiff(x, y)] = (results[x] + results[y] + results[{}]) % 2
=============================================================================

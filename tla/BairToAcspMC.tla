---------------------------- MODULE BairToAcspMC ----------------------------
(* Instances of BairToAcsp for TLC. *)
EXTENDS BairToAcsp

Instance(d, n, pc, pn, ac, an) ==
    [k |-> d, vectorsLen |-> n, permCurrent |-> pc, permNext |-> pn,
     assignCurrent |-> ac, assignNext |-> an]

\* Three rows of three variables with none to three of them routed, and seven rows.
Few  == {Instance(2, 3, pc, pn, {0, 1, 2}, an) :
            pc \in {{0, 1, 2}, {1}}, pn \in SUBSET {0, 1, 2}, an \in {{0, 1, 2}, {2}}}
Many == {Instance(3, 2, {0, 1}, {1}, {0, 1}, {0, 1})}
Most == Few \cup Many
=============================================================================

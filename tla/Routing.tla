------------------------------ MODULE Routing ------------------------------
(***************************************************************************)
(* The network that carries a permutation of 2^k packets                   *)
(* (reductions/BairToAcsp/Routing).  A Benes network, a reverse butterfly  *)
(* and a butterfly that share their middle column, is routed by following  *)
(* pairs: a packet goes up, the packet it would meet at the other end goes *)
(* down, and so on until the chain closes; the upper and the lower half    *)
(* are routed the same way.  Relabelling turns the butterflies into        *)
(* DeBruijn networks whose first column is in order, repeating the middle  *)
(* column makes each wing 2^w - 1 columns wide, and folding lays the two   *)
(* wings on top of each other, so that they meet in their last column.     *)
(*                                                                         *)
(* A packet is named by the label it starts from.  Nodes not written yet   *)
(* hold packet 0, as the matrices are allocated full of zeros, and the     *)
(* router looks packets up in columns that may still have such nodes.      *)
(***************************************************************************)
EXTENDS BitSets, Sequences

VARIABLES
    k,              \* the network has 2^k rows
    permutation,    \* what the network is asked to route
    rev, btr,       \* revBtrfly and btrfly, column by column
    calls,          \* the calls of constructBenes_recursive that are left
    unrouted, src   \* of the call that runs: unrouted, src_indx

benesVars == <<rev, btr, calls, unrouted, src>>

Labels == SUBSET (0..k - 1)

\* class shiftRight: the relabelling of what is routed.
shiftRight(perm) == [i \in Labels |-> RotR(perm[RotL(i, 1, k)], 1, k)]

\* A call routes a part of the columns: its degree and its first row.
Call(degree, offset) == [current_k |-> degree, offset |-> offset]

\* Enters a call, or does nothing when none is left.
Enter(rest) ==
    /\ calls' = rest
    /\ IF rest # <<>> /\ Head(rest).current_k > 1
       THEN /\ unrouted' = SUBSET (0..Head(rest).current_k - 1)
            /\ src' = Head(rest).offset
       ELSE unrouted' = {} /\ src' = {}

\* constructBenes: the two outer columns are given.
constructBenes(perm) ==
    LET zeros == [l \in 0..k |-> [w \in Labels |-> {}]]
    IN  /\ rev' = [zeros EXCEPT ![0] = [w \in Labels |-> w]]
        /\ btr' = [zeros EXCEPT ![k] = shiftRight(perm)]
        /\ Enter(<<Call(k, {})>>)

\* The recursion stops at two rows: what comes in goes straight on.
StopRecursion ==
    /\ calls # <<>> /\ Head(calls).current_k = 1
    /\ LET o    == Head(calls).offset
           rows == {o, o \cup {0}}
           Copy(from, to) == [w \in Labels |-> IF w \in rows THEN from[w] ELSE to[w]]
       IN  /\ rev' = [rev EXCEPT ![k] = Copy(rev[k - 1], rev[k])]
           /\ btr' = [btr EXCEPT ![0] = Copy(btr[1], btr[0])]
    /\ Enter(Tail(calls))

\* find: the first row of a column with this packet.
Find(column, packet) == First({w \in Labels : column[w] = packet})

\* One turn of the inner loop, and the choice of the next port to route.
RoutePair ==
    /\ calls # <<>> /\ unrouted # {}
    /\ LET c     == Head(calls)
           bit   == {c.current_k - 1}
           layer == k - c.current_k
           firstLayer == rev[layer]
           lastLayer  == btr[c.current_k]
           currData == firstLayer[src]
           dst      == Find(lastLayer, currData)
           twinData == lastLayer[Plus(dst, bit)]
           src_twin == Find(firstLayer, twinData)
           left     == unrouted \ {src \ c.offset, src_twin \ c.offset}
           next     == Plus(src_twin, bit)
       IN  /\ rev' = [rev EXCEPT ![layer + 1][src \ bit] = currData,
                                 ![layer + 1][src_twin \cup bit] = twinData]
           /\ btr' = [btr EXCEPT ![c.current_k - 1][dst \ bit] = currData,
                                 ![c.current_k - 1][dst \cup bit] = twinData]
           /\ IF left # {}
              THEN /\ unrouted' = left
                   /\ src' = IF next \ c.offset \in left THEN next
                             ELSE c.offset \cup First(left)
                   /\ UNCHANGED calls
              ELSE Enter(<<Call(c.current_k - 1, c.offset),
                           Call(c.current_k - 1, c.offset \cup bit)>> \o Tail(calls))

Route == (StopRecursion \/ RoutePair) /\ UNCHANGED <<k, permutation>>

-----------------------------------------------------------------------------
(* Reading the routed network. *)

\* TandemNetwork::getDataID: the middle column is read from the first part.
benesData(l, w) == IF l <= k THEN rev[l][w] ELSE btr[l - k][w]

btrflyToDebruijn(l, w) == RotL(w, (l + k - 1) % k, k)

\* SymmetricDeBruijnNetwork::getDataID
symmetricData(l, w) ==
    RotL(benesData(l, btrflyToDebruijn(IF l < k THEN k - l ELSE l - k, w)), 1, k)

wingWidth == 2 ^ CeilLog2(k + 2) - 1
longWidth == 2 * wingWidth - 1

\* Mutant: the repeated column is turned one step less than its distance.
mutLongData(l, w) ==
    CASE l <= k                   -> symmetricData(l, w)
      [] (longWidth - 1) - l <= k -> symmetricData((2 * k + 1) - (longWidth - l), w)
      [] OTHER -> LET shift_size == IF l < wingWidth THEN l - k ELSE longWidth - (k + 1) - l
                  IN  symmetricData(k, RotR(w, shift_size - 1, k))

\* LongSymmetricDeBruijnNetwork::getDataID(l, w)
longData(l, w) ==
    CASE l <= k                   -> symmetricData(l, w)
      [] (longWidth - 1) - l <= k -> symmetricData((2 * k + 1) - (longWidth - l), w)
      [] OTHER -> LET shift_size == IF l < wingWidth THEN l - k ELSE longWidth - (k + 1) - l
                  IN  symmetricData(k, RotR(w, shift_size, k))

\* getDataID(networkID, l, w): the second wing is read from its far end.
getDataID(wing, l, w) == longData(IF wing = 0 THEN l ELSE longWidth - 1 - l, w)

\* The neighbours in the next column, and which of them a packet goes to.
Neighbor0(w) == RotL(w, 1, k)
Neighbor1(w) == RotL(Plus(w, {0}), 1, k)

routingBit(wing, l, w) ==
    IF getDataID(wing, l, w) = getDataID(wing, l + 1, Neighbor1(w)) THEN 1 ELSE 0

-----------------------------------------------------------------------------
Routed == calls = <<>> /\ rev # <<>>

\* Read from its first columns, the folded network holds the packets in order in
\* one wing and permuted in the other; the packets follow the edges of a DeBruijn
\* network through distinct nodes, and both wings hold the same in their last
\* column (the claim in BenesNetwork.cpp, through every relabelling and extension).
Delivers ==
    Routed =>
        LET held == [wing \in {0, 1} |-> [l \in 0..wingWidth - 1 |->
                        [w \in Labels |-> getDataID(wing, l, w)]]]
        IN  /\ \A w \in Labels : held[0][0][w] = w /\ held[1][0][w] = permutation[w]
            /\ held[0][wingWidth - 1] = held[1][wingWidth - 1]
            /\ \A wing \in {0, 1}, l \in 0..wingWidth - 1 :
                  {held[wing][l][w] : w \in Labels} = Labels
            /\ \A wing \in {0, 1}, l \in 0..wingWidth - 2, w \in Labels :
                  held[wing][l][w] = held[wing][l + 1][IF routingBit(wing, l, w) = 1
                                                       THEN Neighbor1(w) ELSE Neighbor0(w)]
=============================================================================

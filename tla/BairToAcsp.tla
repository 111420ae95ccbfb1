----------------------------- MODULE BairToAcsp -----------------------------
(***************************************************************************)
(* The reduction of a BAIR instance and witness to an ACSP instance and    *)
(* witness (reductions/BairToAcsp).  A BAIR witness colours 2^k - 1 rows   *)
(* and permutes them; constraints hold between a row and the next one, and *)
(* between a row and the one the permutation names.  The ACSP witness lays *)
(* the colours out over a space of field elements, layer by layer: row n   *)
(* is x^n, the variables read through the permutation travel in a routing  *)
(* network, two layers each, and the others have a column each.  The ACSP  *)
(* instance is a sum of tests; a test runs over a coset and reads the      *)
(* witness at neighbours, linear polynomials of the point it runs at.      *)
(* Prover and verifier reduce the instance on their own and the prover     *)
(* alone the witness: the two must agree about every place.                *)
(*                                                                         *)
(* A value is named by what it is: <<"color", n, v>>, <<"padding", v>>,    *)
(* <<"bit", b>> or <<"random">>, what a place no one wrote to holds.       *)
(* Constraints are known by the variables they use.                        *)
(***************************************************************************)
EXTENDS Routing, FiniteSets, SequencesExt

CONSTANT Instances       \* the BAIR instances

VARIABLES
    inst,        \* the instance
    pi,          \* the permutation of the witness
    commonDef,   \* what both reductions compute of the instance first
    mapping,     \* what the witness reduction wrote: a layer, a place, a value
    stage

acspVars == <<inst, pi, commonDef, mapping, stage>>
vars     == <<acspVars, k, permutation, benesVars>>

\* An instance has vectorsLen variables per row.  permCurrent and permNext are
\* those its permutation constraints use of a row and of the one after it in the
\* permutation, assignCurrent and assignNext those its assignment constraints use
\* of a row and of the next row.
Variables == 0..inst.vectorsLen - 1
domainSize == 2 ^ inst.k - 1
VectorIds  == 0..domainSize - 1

ASSUME InstancesAssumption ==
    \A i \in Instances :
        /\ i.k \in {2, 3, 4} /\ i.vectorsLen \in Nat \ {0}
        /\ \A used \in {i.permCurrent, i.permNext, i.assignCurrent, i.assignNext} :
              used \subseteq 0..i.vectorsLen - 1

\* The space indexes of that many variables have no more bits than Bits reads (in
\* the code, a field element has 64).
ASSUME PlacesAssumption == \A i \in Instances : i.vectorsLen <= 2^20

-----------------------------------------------------------------------------
(* Common definitions. *)

\* getRoutedIndexes: the variables read through the permutation.
InOrder(S) == [n \in 1..Cardinality(S) |->
                  CHOOSE v \in S : Cardinality({u \in S : u <= v}) = n]
commonDeffinitions ==
    LET routed   == InOrder(inst.permNext)
        unrouted_ == InOrder(Variables \ inst.permNext)
        IndexIn(q, v) == (CHOOSE i \in DOMAIN q : q[i] = v) - 1
    IN  [variablesPerm |-> routed, variablesNonPerm |-> unrouted_,
         location |-> [v \in Variables |->
                          IF v \in inst.permNext
                          THEN [inPerm |-> TRUE,  index |-> IndexIn(routed, v)]
                          ELSE [inPerm |-> FALSE, index |-> IndexIn(unrouted_, v)]]]

variablesPerm == commonDef.variablesPerm
getVarLocation(v) == commonDef.location[v]
hasRoutingNetwork == variablesPerm # <<>>

height == inst.k
width  == IF hasRoutingNetwork THEN CeilLog2(inst.k + 2) ELSE 0
imageWidth == 2 ^ width

amountOfPermutationLayers == IF hasRoutingNetwork THEN 2 * (1 + Len(variablesPerm)) ELSE 0

CeilDiv(a, b) == (a + b - 1) \div b
vanishingLayers == CeilLog2(amountOfPermutationLayers + CeilDiv(2, imageWidth))

\* findPrimitive, from its table.
findPrimitive(degree) ==
    CASE degree = 0 -> {0}       [] degree = 1 -> {1}       [] degree = 2 -> {0, 1, 2}
      [] degree = 3 -> {0, 1, 3} [] degree = 4 -> {0, 1, 4}
rowsModulus    == findPrimitive(height)
columnsModulus == findPrimitive(width)

\* commonMappings: places in the space.  The bits of a place are those of the row,
\* then those of the column, then those of the layer.
mapNonPermutationElement(id) ==
    Shift(Bits(imageWidth * amountOfPermutationLayers + id), height)
mapPermutationColumnId(column) == Shift(PowerOfX(column, columnsModulus), height)
mapPermutationLayerId(layer)   == Shift(Bits(layer), height + width)
mapPermutationElement(column, layer) ==
    Plus(mapPermutationColumnId(column), mapPermutationLayerId(layer))

\* A place in the witness: a polynomial and the point to evaluate it at.
map_spaceIndex_to_witnessElement(i) ==
    [layer |-> {b - (height + width) : b \in {c \in i : c >= height + width}},
     point |-> i \cap 0..height + width - 1]

\* instanceMappings
mapVariable_witnessElement(v) ==
    LET location == getVarLocation(v)
    IN  map_spaceIndex_to_witnessElement(
            IF location.inPerm THEN mapPermutationElement(0, 2 * location.index)
            ELSE mapNonPermutationElement(location.index))
mapNonPermutation_lastRow(id) ==
    Plus(mapNonPermutationElement(id), {b - 1 : b \in rowsModulus \ {0}})

\* CS_testLocations: one polynomial of each kind, the permutation's first.
permutationTest == 0
assignmentTest  == 1

-----------------------------------------------------------------------------
(* The instance: neighbours and tests. *)

\* A linear polynomial x^p * X + c, and the witness layer it leads into.
Poly(p, c)      == [p |-> p, c |-> c]
Apply(f, x)     == Plus(Shift(x, f.p), f.c)
Compose(f, g)   == Poly(f.p + g.p, Plus(f.c, Shift(g.c, f.p)))
Neighbor(layer, f) == [layer |-> layer, poly |-> f]

\* AcspNeighbors: within the network, from a place of some layer of it.
moveToZeroLayer(layer) == Poly(0, mapPermutationLayerId(layer))
Id(layer)   == Neighbor(Bits(layer), moveToZeroLayer(layer))
Twin(layer) == IF layer % 2 = 0 THEN layer + 1 ELSE layer - 1
TwinLayer(layer)  == Neighbor(Bits(Twin(layer)), moveToZeroLayer(layer))
RoutingBit(layer) ==
    Neighbor(Bits(2 * Len(variablesPerm) + (layer % 2)), moveToZeroLayer(layer))

\* Multiplying by x may carry out of the row's bits, the column's, or both; which
\* of it happens is the coset's number.
fixRowIdCarry    == {0, height}
fixColumnIdCarry == Shift(columnsModulus, height)
getFixByCoset(coset) == Plus(IF coset \in {1, 3} THEN fixColumnIdCarry ELSE {},
                             IF coset \in {2, 3} THEN fixRowIdCarry    ELSE {})
\* Mutant: the least bit is flipped after the shift.
mutLinearDeBruijn(n) == IF n = 0 THEN Poly(1, {}) ELSE Compose(Poly(0, {0}), Poly(1, {}))

LinearDeBruijn(n) == IF n = 0 THEN Poly(1, {}) ELSE Compose(Poly(1, {}), Poly(0, {0}))
DeBruijn(n, coset, layer) ==
    Neighbor(Bits(layer),
             Compose(Poly(0, getFixByCoset(coset)),
                     Compose(LinearDeBruijn(n), moveToZeroLayer(layer))))

\* From the place of a test to a variable of the same row, ...
moveFromPointToVarId(src_, v) ==
    LET destination == mapVariable_witnessElement(v)
    IN  Neighbor(destination.layer, Poly(0, Plus(destination.point, src_)))

\* ... of the row the permutation names, ...
PermutedVar(v) ==
    LET destination == map_spaceIndex_to_witnessElement(
                           mapPermutationElement(0, 2 * getVarLocation(v).index + 1))
    IN  Neighbor(destination.layer,
                 Poly(0, Plus(destination.point, mapNonPermutationElement(permutationTest))))

\* Mutant: the test's own identifier is taken away after the multiplication.
mutNextRowVar(v, withCarry) ==
    LET var     == moveFromPointToVarId({}, v)
        nextRow == Poly(1, IF withCarry THEN rowsModulus ELSE {})
        rowId   == Poly(0, mapNonPermutationElement(assignmentTest))
    IN  Neighbor(var.layer, Compose(var.poly, Compose(rowId, nextRow)))

\* ... or of the next row.
NextRowVar(v, withCarry) ==
    LET var     == moveFromPointToVarId({}, v)
        nextRow == Poly(1, IF withCarry THEN rowsModulus ELSE {})
        rowId   == Poly(0, mapNonPermutationElement(assignmentTest))
    IN  Neighbor(var.layer, Compose(var.poly, Compose(nextRow, rowId)))

\* A summand: its test is made where shift + span(space) is, except in the cosets
\* of aux.
Coset(space, shift)       == {Plus(shift, e) : e \in SUBSET space}
InCoset(x, space, shift)  == Plus(x, shift) \subseteq space
Tested(s) == {x \in Coset(s.space, s.shift) : \A a \in s.aux : ~InCoset(x, a[1], a[2])}

columnBasis  == 0..height - 1
\* Mutant: the half of the rows is all of them.
mutNoCarryBasis == 0..height - 1
noCarryBasis == 0..height - 2
layersBasis  == 0..height + width - 1
indicatorBits == <<height + width - 1, height - 1>>
neighborsPairBasis == layersBasis \ {indicatorBits[1], indicatorBits[2]}
DeBruijnCoset(coset) == (IF coset \in {1, 3} THEN {indicatorBits[1]} ELSE {})
                            \cup (IF coset \in {2, 3} THEN {indicatorBits[2]} ELSE {})
vanishingSpace == 0..height + width + vanishingLayers - 1

zeroRow(test) == <<{}, mapNonPermutationElement(test)>>
lastRow(test) == <<{}, mapNonPermutation_lastRow(test)>>

PermutationChecks ==
    {[space |-> columnBasis, shift |-> mapNonPermutationElement(permutationTest),
      aux |-> {zeroRow(permutationTest), lastRow(permutationTest)}, kind |-> "permutation",
      current |-> [v \in inst.permCurrent |->
                      moveFromPointToVarId(mapNonPermutationElement(permutationTest), v)],
      next |-> [v \in inst.permNext |-> PermutedVar(v)]]}

\* The half of the rows whose next row needs no carry, and the other half.
usesVarFromNextLine == \E v \in inst.assignNext : v > 0
AssignmentChecks ==
    LET Half(withCarry) ==
          [space |-> noCarryBasis,
           shift |-> Plus(IF withCarry THEN {height - 1} ELSE {},
                          mapNonPermutationElement(assignmentTest)),
           aux |-> {IF withCarry THEN lastRow(assignmentTest) ELSE zeroRow(assignmentTest)},
           kind |-> "assignment",
           current |-> [v \in inst.assignCurrent |->
                           moveFromPointToVarId(mapNonPermutationElement(assignmentTest), v)],
           next |-> [v \in inst.assignNext |-> NextRowVar(v, withCarry)]]
    IN  {Half(FALSE)} \cup IF usesVarFromNextLine THEN {Half(TRUE)} ELSE {}

lastColShift == mapPermutationColumnId(imageWidth - 2)

\* Cosets of a layer without a next column: no column has number zero as an
\* element, and the last one.
noNextColumn(layer) ==
    {<<columnBasis, mapPermutationLayerId(layer)>>,
     <<columnBasis, Plus(lastColShift, mapPermutationLayerId(layer))>>}

BitChecks ==
    {[space |-> layersBasis, shift |-> mapPermutationLayerId(layer),
      aux |-> noNextColumn(layer), kind |-> "boolean", of |-> <<Id(layer)>>] :
        layer \in {2 * Len(variablesPerm), 2 * Len(variablesPerm) + 1}}

LastColumnChecks ==
    {[space |-> columnBasis,
      shift |-> Plus(lastColShift, mapPermutationLayerId(2 * i)),
      aux |-> {}, kind |-> "equal", of |-> <<Id(2 * i), TwinLayer(2 * i)>>] :
        i \in 0..Len(variablesPerm) - 1}

PaddingChecks ==
    {[space |-> {}, shift |-> mapPermutationElement(0, layer), aux |-> {},
      kind |-> "padding", of |-> <<Id(layer)>>,
      value |-> <<"padding", variablesPerm[layer \div 2 + 1]>>] :
        layer \in 0..2 * Len(variablesPerm) - 1}

DeBruijnChecks ==
    {[space |-> neighborsPairBasis,
      shift |-> Plus(DeBruijnCoset(coset), mapPermutationLayerId(layer)),
      aux |-> noNextColumn(layer), kind |-> "DeBruijn",
      of |-> <<Id(layer), DeBruijn(0, coset, layer), DeBruijn(1, coset, layer),
               RoutingBit(layer)>>] :
        layer \in 0..2 * Len(variablesPerm) - 1, coset \in 0..3}

RoutingChecks == IF hasRoutingNetwork
                 THEN BitChecks \cup LastColumnChecks \cup PaddingChecks \cup DeBruijnChecks
                 ELSE {}
SystemChecks == PermutationChecks \cup AssignmentChecks

-----------------------------------------------------------------------------
(* The witness. *)

\* exponentsPermutation: vector n sits at x^n, the extra one at zero.
exponents == [n \in 0..domainSize |-> IF n = domainSize THEN {} ELSE PowerOfX(n, rowsModulus)]
logarithm(w) == CHOOSE n \in 0..domainSize : exponents[n] = w

\* conjugatePermutation over addSingeltonToPermutation
permToRout(perm) == [w \in SUBSET (0..inst.k - 1) |->
                  exponents[IF logarithm(w) = domainSize THEN domainSize
                            ELSE perm[logarithm(w)]]]

Write(place, value) == [layer |-> place.layer, point |-> place.point, value |-> value]

\* mapChi: each vector's variables that are not routed, from row to row.
ChiWrites ==
    {Write(map_spaceIndex_to_witnessElement(
               Plus(PowerOfX(n, rowsModulus), mapNonPermutationElement(getVarLocation(v).index))),
           <<"color", n, v>>) : n \in VectorIds, v \in Variables \ inst.permNext}

\* mapNetwork: what each node holds, and its routing bit.
mapNetworkElement(w, column, layer) ==
    map_spaceIndex_to_witnessElement(Plus(w, mapPermutationElement(column, layer)))

PacketValue(packet, v) == IF logarithm(packet) = domainSize THEN <<"padding", v>>
                          ELSE <<"color", logarithm(packet), v>>

NetworkWrites ==
    {Write(mapNetworkElement(w, column, 2 * (i - 1) + wing),
           PacketValue(getDataID(wing, column, w), variablesPerm[i])) :
        w \in Labels, column \in 0..wingWidth - 1, wing \in {0, 1},
        i \in DOMAIN variablesPerm}
    \cup
    {Write(mapNetworkElement(w, column, 2 * Len(variablesPerm) + wing),
           <<"bit", routingBit(wing, column, w)>>) :
        w \in Labels, column \in 0..wingWidth - 2, wing \in {0, 1}}

\* The mapping after some writes, layer by layer.
Written(writes, before) ==
    LET layers == {w.layer : w \in writes}
        Layer(l) == LET here == {w \in writes : w.layer = l}
                    IN  [p \in {w.point : w \in here} |->
                            (CHOOSE w \in here : w.point = p).value]
    IN  [l \in layers \cup DOMAIN before |->
            IF l \notin layers THEN before[l]
            ELSE IF l \notin DOMAIN before THEN Layer(l) ELSE Layer(l) @@ before[l]]

NoMapping == [l \in {} |-> l]

Init ==
    /\ inst \in Instances /\ commonDef = commonDeffinitions
    /\ mapping = NoMapping /\ stage = "instance"
    /\ k = inst.k /\ pi = <<>> /\ permutation = <<>>
    /\ rev = <<>> /\ btr = <<>> /\ calls = <<>> /\ unrouted = {} /\ src = {}

mapChi ==
    /\ stage = "instance"
    /\ pi' \in {p \in [VectorIds -> VectorIds] : Range(p) = VectorIds}
    /\ mapping' = Written(ChiWrites, mapping)
    /\ IF hasRoutingNetwork
       THEN /\ permutation' = permToRout(pi')
            /\ constructBenes(permutation') /\ stage' = "network"
       ELSE UNCHANGED <<permutation, benesVars>> /\ stage' = "done"
    /\ UNCHANGED <<inst, commonDef, k>>

routNetwork == stage = "network" /\ Route /\ UNCHANGED acspVars

mapNetwork ==
    /\ stage = "network" /\ Routed
    /\ mapping' = Written(NetworkWrites, mapping)
    /\ stage' = "done"
    /\ UNCHANGED <<inst, pi, commonDef, k, permutation, benesVars>>

Next == mapChi \/ routNetwork \/ mapNetwork

Spec == Init /\ [][Next]_vars

-----------------------------------------------------------------------------
\* The value a neighbour reads at a point: what was written where it leads, or what
\* the witness polynomial happens to be there.
Read(neighbor, x) ==
    LET point == Apply(neighbor.poly, x)
    IN  IF neighbor.layer \in DOMAIN mapping /\ point \in DOMAIN mapping[neighbor.layer]
        THEN mapping[neighbor.layer][point] ELSE <<"random">>

\* Where the tests of a row are made.
RowPoint(n, test) == Plus(PowerOfX(n, rowsModulus), mapNonPermutationElement(test))

TestedRows == 0..domainSize - 2

\* Whatever the permutation and the variables in use, a test of the BAIR constraints
\* made for a row reads that row's colours, and the next row's or those of the row
\* the permutation names; and a boundary constraint looks at the colour it is about
\* (mapPoint).  The places are computed from the instance alone.
ReadsRight ==
    stage = "done" =>
        /\ \A s \in SystemChecks : \A n \in TestedRows :
              LET test == IF s.kind = "permutation" THEN permutationTest ELSE assignmentTest
                  row  == IF s.kind = "permutation" THEN pi[n] ELSE n + 1
                  x    == RowPoint(n, test)
              IN  x \in Tested(s) =>
                    /\ \A v \in DOMAIN s.current : Read(s.current[v], x) = <<"color", n, v>>
                    /\ \A v \in DOMAIN s.next : Read(s.next[v], x) = <<"color", row, v>>
        /\ \A n \in VectorIds, v \in Variables :
              LET place == mapVariable_witnessElement(v)
              IN  mapping[place.layer][Plus(place.point, PowerOfX(n, rowsModulus))]
                      = <<"color", n, v>>

Holds(s, x) ==
    LET r == [i \in DOMAIN s.of |-> Read(s.of[i], x)]
    IN  CASE s.kind = "boolean"  -> r[1] \in {<<"bit", 0>>, <<"bit", 1>>}
          [] s.kind = "equal"    -> r[1] = r[2]
          [] s.kind = "padding"  -> r[1] = s.value
          [] s.kind = "DeBruijn" -> r[1] = IF r[4] = <<"bit", 1>> THEN r[3] ELSE r[2]

\* The routing network of an honest witness passes every test the instance makes of
\* it, in all four cosets of carries.
RoutingHolds ==
    stage = "done" => \A s \in RoutingChecks : \A x \in Tested(s) : Holds(s, x)

\* Constraints are tested for every row but the last, by one test of each kind and
\* not at another test's places, and the network at every node; all of it is inside
\* the space the sum vanishes on, as AcspSummandsPolynomial demands.
EveryRowTested ==
    stage = "instance" =>
        LET checks == SystemChecks \cup RoutingChecks
            system == {RowPoint(n, permutationTest) : n \in TestedRows}
                          \cup {RowPoint(n, assignmentTest) : n \in TestedRows}
        IN  /\ UNION {Tested(s) : s \in SystemChecks} = system
            /\ \A x \in system :
                  Cardinality({s \in checks : InCoset(x, s.space, s.shift)}) = 1
            /\ \A s \in checks :
                  \A c \in s.aux \cup {<<s.space, s.shift>>} :
                      c[1] \cup c[2] \subseteq vanishingSpace

=============================================================================

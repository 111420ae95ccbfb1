------------------------------ MODULE Gadgets ------------------------------
(***************************************************************************)
(* The gadgets the instructions share (gadgetlib/gadget.cpp): each has a   *)
(* witness procedure that fills variables of the protoboard and a set of   *)
(* polynomial constraints on them.  The protoboard holds what the previous *)
(* row left in it, so a gadget starts from any values.                     *)
(*                                                                         *)
(* GadgetOk says that the two agree with each other and with the relation  *)
(* on numbers that module Words and module Alu use in their place.         *)
(***************************************************************************)
EXTENDS Words

(* isSigned is a parameter of the comparison and of the product. *)
GadgetNames == {"Addition", "GreaterEqual", "SignedGreaterEqual",
                "Multiplication", "SignedMultiplication"}

VARIABLES gadget,   \* the gadget the row uses
          a, b,     \* its operands, unpacked
          r,        \* result bits
          mid,      \* carry_, flags_ or partials: one entry per bit
          flag,     \* flag_, flagGEQ_, or the exponent of partials2_[0]
          filled    \* generateWitness was called

vars == <<gadget, a, b, r, mid, flag, filled>>

Bits == [Index -> Bit]
Last == W - 1

Majority(x, y, z) == IF x + y + z >= 2 THEN 1 ELSE 0

-----------------------------------------------------------------------------
(* Addition_Gadget.  carry_[0] is not used; the carry of the last bit is   *)
(* the flag.                                                               *)
CarryInto[i \in 1 .. W] ==
  IF i = 1 THEN a[0] * b[0] ELSE Majority(a[i-1], b[i-1], CarryInto[i-1])

AdditionWitness ==
  /\ mid' = [i \in Index |-> IF i = 0 THEN 0 ELSE CarryInto[i]]
  /\ flag' = CarryInto[W]
  /\ r' = [i \in Index |-> (a[i] + b[i] + IF i = 0 THEN 0 ELSE CarryInto[i]) % 2]

AdditionConstraints ==
  /\ r[0] = (a[0] + b[0]) % 2
  /\ mid[1] = a[0] * b[0]
  /\ \A i \in 1 .. Last :
       /\ r[i] = (a[i] + b[i] + mid[i]) % 2
       /\ (IF i < Last THEN mid[i+1] ELSE flag) = Majority(a[i], b[i], mid[i])

-----------------------------------------------------------------------------
(* GreaterEqual_Gadget.  From the most significant bit down, a flag is     *)
(* Equal until the first difference decides it.  A signed comparison       *)
(* starts below the sign bits and lets them decide at the end.             *)
isSigned == gadget \in {"SignedGreaterEqual", "SignedMultiplication"}
First    == IF isSigned THEN Last - 1 ELSE Last

(* g(a+b+1) + a(b+1), and its continuation from a higher flag *)
BitFlag(i) == IF a[i] = b[i] THEN Equal ELSE a[i]
mutBelow(above, i) == IF above # Less THEN BitFlag(i) ELSE above
Below(above, i) == IF above = Equal THEN BitFlag(i) ELSE above

FlagsFrom[i \in Index] ==
  IF i >= First THEN BitFlag(i) ELSE Below(FlagsFrom[i+1], i)

GreaterEqualWitness ==
  /\ mid' = [i \in Index |-> IF i \in 1 .. First THEN FlagsFrom[i] ELSE mid[i]]
  /\ flag' = IF isSigned /\ a[Last] # b[Last] THEN b[Last] ELSE FlagsFrom[0]
  /\ UNCHANGED r

(* tmpPoly * (1 + a_s + b_s) + (1 + a_s) * b_s, on the sign bits *)
mutSignRule(unsignedFlag) ==
  IF ~isSigned \/ a[Last] = b[Last] THEN unsignedFlag ELSE a[Last]
SignRule(unsignedFlag) ==
  IF ~isSigned \/ a[Last] = b[Last] THEN unsignedFlag
  ELSE (1 - a[Last]) * b[Last]

GreaterEqualConstraints ==
  /\ mid[First] = BitFlag(First)
  /\ \A i \in 1 .. First - 1 : mid[i] = Below(mid[i+1], i)
  /\ flag = SignRule(Below(mid[1], 0))

-----------------------------------------------------------------------------
(* Multiplication_Gadget.  Powers of the generator are represented by      *)
(* their exponents: MultiplicationPacking raises g to the first operand    *)
(* (the top bit counts negatively when signed), and square-and-multiply    *)
(* raises that to the second.  The group is larger than 2^(2W), so equal   *)
(* powers mean equal exponents.                                            *)
Weight(i) == IF isSigned /\ i = Last THEN -(2^i) ELSE 2^i
PackedExponent == MapThenSumSet(LAMBDA i : a[i] * Weight(i), Index)

(* the factor partials2_[Last] starts from: h, or its inverse when signed *)
TopFactor(h) == IF isSigned THEN -h ELSE h

SquareAndMultiply[i \in Index] ==
  IF i = Last THEN b[i] * TopFactor(PackedExponent)
  ELSE 2 * SquareAndMultiply[i+1] + b[i] * PackedExponent

MultiplicationWitness ==
  /\ mid' = SquareAndMultiply
  /\ flag' = SquareAndMultiply[0]
  /\ UNCHANGED r

MultiplicationConstraints ==
  /\ mid[Last] = b[Last] * TopFactor(PackedExponent)
  /\ \A i \in 0 .. Last - 1 : mid[i] = 2 * mid[i+1] + b[i] * PackedExponent
  /\ flag = mid[0]

-----------------------------------------------------------------------------
Arithmetic == gadget \in {"Multiplication", "SignedMultiplication"}
Compares   == gadget \in {"GreaterEqual", "SignedGreaterEqual"}

Constraints ==
  \/ gadget = "Addition" /\ AdditionConstraints
  \/ Compares /\ GreaterEqualConstraints
  \/ Arithmetic /\ MultiplicationConstraints

(* What the protoboard may hold where a gadget's variables are. *)
Leftover ==
  CASE gadget = "Addition" -> mid \in Bits /\ r \in Bits /\ flag \in Bit
    [] Compares            -> mid \in [Index -> 0..2] /\ r = Unpack(0) /\ flag \in 0..2
    [] Arithmetic          -> mid = Unpack(0) /\ r = Unpack(0) /\ flag = 0

Init ==
  /\ gadget \in GadgetNames
  /\ a \in Bits /\ b \in Bits
  /\ Leftover
  /\ filled = FALSE

GenerateWitness ==
  /\ ~filled
  /\ filled' = TRUE
  /\ \/ gadget = "Addition" /\ AdditionWitness
     \/ Compares /\ GreaterEqualWitness
     \/ Arithmetic /\ MultiplicationWitness
  /\ UNCHANGED <<gadget, a, b>>

Next == GenerateWitness
Spec == Init /\ [][Next]_vars

-----------------------------------------------------------------------------
Value(x) == IF isSigned THEN Signed(Pack(x)) ELSE Pack(x)

(* A witness computed by a gadget satisfies the gadget's constraints,      *)
(* whatever the previous row left on the protoboard.                       *)
WitnessSatisfies == filled => Constraints

(* Whatever satisfies a gadget's constraints is the relation on numbers    *)
(* that it stands for: the sum and the carry, the order, and the product,  *)
(* of two's complement numbers when signed.                                *)
RelationDetermined ==
  Constraints =>
    CASE gadget = "Addition" -> Adds(Pack(a), Pack(b), Pack(r), flag)
      [] Compares            -> flag = Order(Value(a), Value(b))
      [] Arithmetic          -> flag = Value(a) * Value(b)
=============================================================================

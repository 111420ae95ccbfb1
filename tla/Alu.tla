-------------------------------- MODULE Alu --------------------------------
(***************************************************************************)
(* One row of the arithmetic unit (RamToContraintSystem/ALU.cpp).  Every   *)
(* opcode has a component that computes a witness and, separately, emits   *)
(* constraints; nothing but care keeps the two in agreement.               *)
(*                                                                         *)
(* A component that leaves result_ or flag_ alone leaves the value of the  *)
(* row before: of the flag that is the flag of the row, of the result it   *)
(* is the input field "left".  The inverse of a field element is           *)
(* represented by the element itself.                                      *)
(*                                                                         *)
(* The scratch columns are shared by all components: u1 and u2 are         *)
(* unpackedArg1_ and unpackedArg2_, aux1 to aux7 are opcodeAux1_ to        *)
(* opcodeAux7_, each as the number its bits, or its first cell, hold; inv2 *)
(* is the cell of aux1 or aux5 that keeps a second inverse.  An unpacking  *)
(* fills a column from an operand and constrains it to be bits, not to be  *)
(* the operand: only a packing ties the two.  The partial products, that   *)
(* no registered constraint ties to a result, are left out.                *)
(***************************************************************************)
EXTENDS Words

Bitwise   == {"XOR", "AND", "OR", "NOT"}
Division  == {"UDIV", "UMOD"}
Product   == {"MULT", "UMULH", "SMULH"}
Shift     == {"SHL", "SHR"}
Branch    == {"BEQ", "BNE", "BLT", "BLE"}
Jump      == {"JMP", "CJMP", "CNJMP", "JR"}
SetOn     == {"SEQ", "SNE", "SLT", "SLE"}
CompareEq == {"CMPE", "CMPNE"}
CompareGe == {"CMPA", "CMPAE", "CMPG", "CMPGE"}
Moves     == {"MOVE", "REGMOVE", "SECREAD", "SECSEEK"}
Output    == {"ANSWER", "ERROR", "PRINT", "PRINTLN"}
Opcodes   == Bitwise \cup Division \cup Product \cup Shift \cup Branch
               \cup Jump \cup SetOn \cup CompareEq \cup CompareGe \cup Moves
               \cup Output \cup {"ADD", "SUB", "SW", "LW"}

Equality == {"CMPE", "CMPNE", "BEQ", "BNE", "SEQ", "SNE"}
Negated  == {"CMPNE", "BNE", "SNE"}
Ordering == CompareGe \cup {"BLT", "BLE", "SLT", "SLE"}
Strict   == {"CMPA", "CMPG", "BLT", "SLT"}
SignedOp == {"CMPG", "CMPGE", "BLT", "BLE", "SLT", "SLE"}

(* What leaves result_ alone. *)
LeavesResult == Output \cup {"SW", "LW"}

ToBit(p) == IF p THEN 1 ELSE 0

(* The two operands an opcode compares, in the order its gadget gets them. *)
Left(op, in)  == CASE op \in {"BEQ", "BNE"} -> in.dest
                   [] op \in {"SLT", "SLE"} -> in.arg2
                   [] OTHER                 -> in.arg1
Right(op, in) == CASE op \in {"BLT", "BLE"} -> in.dest
                   [] op \in {"BEQ", "BNE", "SLT", "SLE"} -> in.arg1
                   [] OTHER                 -> in.arg2

(* isGEQ_ as the comparison gadget determines it *)
Compared(op, x, y) == IF op \in SignedOp THEN Order(Signed(x), Signed(y)) ELSE Order(x, y)

Decides(op, order) == IF op \in Strict THEN order = Greater ELSE order # Less

SetsBit(op, in) ==
  IF op \in Equality
  THEN ToBit((Left(op, in) = Right(op, in)) # (op \in Negated))
  ELSE ToBit(Decides(op, Compared(op, Left(op, in), Right(op, in))))

-----------------------------------------------------------------------------
(* Witnesses. *)

BitwiseResult(op, x, y) ==
  CASE op = "XOR" -> XorWord(x, y)
    [] op = "AND" -> AndWord(x, y)
    [] op = "OR"  -> OrWord(x, y)
    [] op = "NOT" -> XorWord(AllOnes, x)

(* The full product, and the half of it the result does not hold. *)
Times(op, in)  == IF op = "SMULH" THEN Signed(in.arg1) * Signed(in.arg2)
                  ELSE in.arg1 * in.arg2
mutLow(v)      == v
Low(v)         == v % 2^W
High(v)        == (v \div 2^W) % 2^W

(* The bits of the second operand above those that count a shift. *)
ShiftAmount(in) == in.arg2 % W
Remainder(in)   == in.arg2 - ShiftAmount(in)
Shifted(op, in) ==
  IF Remainder(in) # 0 THEN 0
  ELSE IF op = "SHL" THEN in.arg1 * 2^ShiftAmount(in)
  ELSE in.arg1 * 2^(W - ShiftAmount(in))

(* initGeneralOpcodes and initMemResult; result_ and flag_ are left alone. *)
Zeros == [u1 |-> 0, u2 |-> 0, aux1 |-> 0, aux2 |-> 0, aux3 |-> 0, aux4 |-> 0, aux5 |-> 0,
          aux7 |-> 0, inv |-> 0, inv2 |-> 0, isMemOp |-> 0, isLoad |-> 0, value |-> 0,
          address |-> 0, result |-> 0, flag |-> 0]

mutBlank(in) == [Zeros EXCEPT !.result = in.left]
Blank(in)    == [Zeros EXCEPT !.result = in.left, !.flag = in.flag]

(* pInverse_ where the witness stores the inverse of v, or ifZero.         *)
Inverse1(v) == IF v = 0 THEN 1 ELSE v
Inverse0(v) == v

Witness(op, in, loaded) ==
  LET blank == Blank(in)
      unpacked(x, y) == [blank EXCEPT !.u1 = x, !.u2 = y]
      left  == Left(op, in)
      right == Right(op, in)
      difference == XorWord(left, right)
      inverse == IF op \in Negated THEN Inverse0(difference) ELSE Inverse1(difference)
  IN CASE op \in {"XOR", "NOT"} ->
            LET res == BitwiseResult(op, in.arg1, in.arg2)
            IN  [blank EXCEPT !.result = res, !.flag = ToBit(res = 0),
                              !.inv = Inverse1(res)]
       [] op \in {"AND", "OR"} ->
            LET res == BitwiseResult(op, in.arg1, in.arg2)
            IN  [unpacked(in.arg1, in.arg2) EXCEPT
                   !.result = res, !.flag = ToBit(res = 0), !.inv = Inverse1(res)]
       [] op = "ADD" ->
            LET sum == in.arg1 + in.arg2
            IN  [unpacked(in.arg1, in.arg2) EXCEPT
                   !.aux1 = Low(sum), !.result = Low(sum), !.flag = High(sum)]
       [] op = "SUB" ->   \* result + arg2 is added to find the flag
            LET res == Low(in.arg1 - in.arg2)
            IN  [unpacked(in.arg2, res) EXCEPT
                   !.aux1 = Low(in.arg2 + res), !.result = res, !.flag = High(in.arg2 + res)]
       [] op = "MULT" ->
            LET v == Times(op, in)
            IN  [unpacked(in.arg1, in.arg2) EXCEPT
                   !.result = Low(v), !.aux3 = Low(v), !.aux4 = High(v), !.aux1 = High(v),
                   !.inv = Inverse0(High(v)), !.flag = ToBit(High(v) # 0)]
       [] op = "UMULH" ->
            LET v == Times(op, in)
            IN  [unpacked(in.arg1, in.arg2) EXCEPT
                   !.result = High(v), !.aux3 = Low(v), !.aux4 = High(v),
                   !.inv = Inverse0(High(v)), !.flag = ToBit(High(v) # 0)]
       [] op = "SMULH" ->   \* the result fits unless it is not a sign extension
            LET v == Times(op, in)
            IN  [unpacked(in.arg1, in.arg2) EXCEPT
                   !.result = High(v), !.aux3 = Low(v), !.aux4 = High(v),
                   !.inv = Inverse0(High(v)), !.inv2 = XorWord(High(v), AllOnes),
                   !.flag = ToBit(High(v) \notin {0, AllOnes})]
       [] op \in Division ->
            LET rem == IF in.arg2 = 0 THEN 0 ELSE in.arg1 % in.arg2
                quo == IF in.arg2 = 0 THEN 0 ELSE in.arg1 \div in.arg2
            IN  [unpacked(in.arg1, in.arg2) EXCEPT
                   !.result = IF op = "UDIV" THEN quo ELSE rem,
                   !.aux3 = quo, !.aux5 = rem, !.aux7 = Order(in.arg2, rem),
                   !.inv = Inverse0(in.arg2), !.flag = ToBit(in.arg2 = 0)]
       [] op \in Shift ->
            LET double == Shifted(op, in)
            IN  [unpacked(Low(double), High(double)) EXCEPT
                   !.result = IF op = "SHL" THEN Low(double) ELSE High(double),
                   !.flag = IF op = "SHL" THEN in.arg1 \div 2^(W-1) ELSE in.arg1 % 2,
                   !.aux1 = double, !.inv2 = Remainder(in)]
       [] op \in CompareEq ->
            [blank EXCEPT !.result = 0, !.flag = SetsBit(op, in), !.inv = inverse]
       [] op \in {"BEQ", "BNE"} ->
            [blank EXCEPT !.result = in.arg2, !.flag = SetsBit(op, in), !.inv = inverse]
       [] op \in {"SEQ", "SNE"} ->
            [blank EXCEPT !.result = SetsBit(op, in), !.inv = inverse]
       [] op \in CompareGe ->
            [unpacked(left, right) EXCEPT
               !.aux2 = Compared(op, left, right), !.result = 0, !.flag = SetsBit(op, in)]
       [] op \in {"BLT", "BLE"} ->
            [unpacked(left, right) EXCEPT
               !.aux2 = Compared(op, left, right), !.result = in.arg2, !.flag = SetsBit(op, in)]
       [] op \in {"SLT", "SLE"} ->
            [unpacked(left, right) EXCEPT
               !.aux2 = Compared(op, left, right), !.result = SetsBit(op, in)]
       [] op \in Jump \cup Moves -> [blank EXCEPT !.result = in.arg2]
       [] op = "SW" ->
            [blank EXCEPT !.isMemOp = 1, !.value = in.dest, !.address = in.arg2]
       [] op = "LW" ->
            [blank EXCEPT !.isMemOp = 1, !.isLoad = 1, !.value = loaded,
                          !.address = in.arg2]
       [] op \in Output -> blank

-----------------------------------------------------------------------------
(* Constraints.  A product with an inverse is 1, 0, or something else.     *)
InvTimes(x, y) == IF x = 0 \/ y = 0 THEN 0 ELSE IF x = y THEN 1 ELSE 2

(* bit * x = 0 and x * inv = 1 - bit; and its negation. *)
IsZero(x, inv, bit)  == x * bit = 0 /\ InvTimes(x, inv) = 1 - bit
NotZero(x, inv, bit) == x * (1 - bit) = 0 /\ InvTimes(x, inv) = bit

(* x * (x * inv + 1) = 0: inv is the inverse of x if there is one. *)
Inverts(x, inv) == x # 0 => InvTimes(x, inv) = 1

BitwiseConstraints(op, in, out) ==
  /\ out.result = IF op \in {"AND", "OR"} THEN BitwiseResult(op, out.u1, out.u2)
                  ELSE BitwiseResult(op, in.arg1, in.arg2)
  /\ IsZero(out.result, out.inv, out.flag)

(* The sum's operands are bits; its digits are packed. *)
SumConstraints(op, in, out) ==
  /\ Adds(out.u1, out.u2, out.aux1, out.flag)
  /\ out.aux1 = IF op = "ADD" THEN out.result ELSE in.arg1

ProductConstraints(op, in, out) ==   \* "packed_ + prev*c" is not registered
  CASE op = "MULT"  -> /\ out.aux1 = out.aux4
                       /\ Inverts(out.aux1, out.inv) /\ out.flag = InvTimes(out.aux1, out.inv)
    [] op = "UMULH" -> Inverts(out.result, out.inv) /\ out.flag = InvTimes(out.result, out.inv)
    [] op = "SMULH" ->
         LET minus == XorWord(out.result, AllOnes)
         IN  /\ Inverts(out.result, out.inv) /\ Inverts(minus, out.inv2)
             /\ out.flag = (InvTimes(out.result, out.inv)
                              + InvTimes(minus, out.inv2) + 1) % 2

(* The comparison of divisor and remainder is created and computed, its    *)
(* constraints are not generated.                                          *)
DivisionConstraints(op, in, out) ==
  /\ Inverts(in.arg2, out.inv)
  /\ out.flag = 1 - InvTimes(in.arg2, out.inv)
  /\ in.arg2 = 0 \/ out.aux7 = Greater
  /\ op = "UMOD" => out.result = out.aux5

(* The remainder has none of the counting bits; the doubled word is the    *)
(* shifted operand, or 0 when the remainder is not; the result is packed   *)
(* from the column that holds its half.                                    *)
ShiftConstraints(op, in, out) ==
  LET rem == Remainder(in)
  IN  /\ \A i \in Index : 2^(i+1) <= W => Unpack(rem)[i] = 0
      /\ out.flag \in Bit
      /\ Inverts(rem, out.inv2)
      /\ out.aux1 = Shifted(op, in)
      /\ out.result = IF op = "SHL" THEN out.u1 ELSE out.u2

EqualityConstraints(op, in, out, bit) ==
  LET difference == XorWord(Left(op, in), Right(op, in))
  IN  /\ op \in Negated => NotZero(difference, out.inv, bit)
      /\ op \notin Negated => InvTimes(difference, out.inv) = 1 - bit
      /\ op \notin Negated \cup {"CMPE"} => difference * bit = 0

OrderConstraints(op, out, bit) ==
  /\ out.aux2 = Compared(op, out.u1, out.u2)
  /\ bit = ToBit(Decides(op, out.aux2))

(* What CMPE's component registers under the opcode NOT. *)
UnderNot(in, out) == XorWord(in.arg1, in.arg2) * out.flag = 0

(* The opcodes "isMemOp = 0" is registered under: ADD's is under SUB.      *)
NoMemory == Opcodes \ (Jump \cup Moves \cup Output \cup {"ADD", "SW", "LW"})

Satisfied(op, in, out) ==
  /\ op \in Bitwise => BitwiseConstraints(op, in, out)
  /\ op = "NOT" => UnderNot(in, out)
  /\ op \in {"ADD", "SUB"} => SumConstraints(op, in, out)
  /\ op \in Product => ProductConstraints(op, in, out)
  /\ op \in Division => DivisionConstraints(op, in, out)
  /\ op \in Shift => ShiftConstraints(op, in, out)
  /\ op \in Equality => EqualityConstraints(op, in, out,
                          IF op \in SetOn THEN out.result ELSE out.flag)
  /\ op \in Ordering => OrderConstraints(op, out,
                          IF op \in SetOn THEN out.result ELSE out.flag)
  /\ op \in Branch \ {"BLE"} => out.result = in.arg2   \* BLE's is under BLT
  /\ op \in Jump \cup Moves => out.result = in.arg2 /\ out.flag = in.flag
  /\ op \in NoMemory => out.isMemOp = 0
  /\ op \in {"SW", "LW"} =>
       /\ out.isMemOp = 1 /\ out.isLoad = ToBit(op = "LW") /\ out.flag = in.flag
       /\ op = "SW" => out.value = in.dest
=============================================================================

---------------------------- MODULE Machine_proofs ----------------------------
(***************************************************************************)
(* Proofs about Machine, for words, programs and tapes of every length.    *)
(*                                                                         *)
(* The first part is about one row: the columns the arithmetic unit fills  *)
(* in satisfy the constraints of every opcode.  The second follows the     *)
(* table row by row: the types, what each row was made from, and that its  *)
(* constraints hold with the row after it.  The third sorts and links the  *)
(* rows: sorting is by ranks, neighbours have nothing between them, and    *)
(* the links are one cycle.  The last shows the machine to implement the   *)
(* instruction set of ZmipsIsa.                                            *)
(***************************************************************************)
EXTENDS Machine, NaturalLemmas

-----------------------------------------------------------------------------
(* Words and their bits. *)

LEMMA WordLength ==
    /\ W \in Nat /\ W > 2 /\ W - 1 \in Nat
    /\ 2^W \in Nat /\ 2^W >= 2 /\ 2^W - 1 \in Nat
    /\ 2^(W - 1) \in Nat /\ 2^(W - 1) > 0 /\ 2^W = 2 * 2^(W - 1)
    /\ 0 \in Word /\ 1 \in Word /\ AllOnes \in Word /\ AllOnes # 0
    /\ \A v \in Int : v % 2^W \in Word
<1>1. W \in Nat /\ W > 2 /\ W - 1 \in Nat /\ (W - 1) + 1 = W
  BY WordLengthAssumption
<1>. DEFINE h == 2^(W - 1)
<1>2. h \in Nat /\ h > 0 /\ 2^((W - 1) + 1) = h + h
  BY <1>1, PowerPositive, PowerStep
<1>3. 2^W = h + h
  BY <1>1, <1>2
<1>. HIDE DEF h
<1>4. \A d \in Nat : d > 0 => \A v \in Int : v % d \in 0..d - 1
  OBVIOUS
<1>. QED  BY <1>1, <1>2, <1>3, <1>4 DEF h, Word, AllOnes

LEMMA PackedBits ==
    ASSUME NEW b, \A i \in Index : b[i] \in Bit
    PROVE  Pack(b) \in Word /\ \A i \in Index : Unpack(Pack(b))[i] = b[i]
<1>1. W \in Nat /\ \A i \in 0..W - 1 : b[i] \in {0, 1}
  BY WordLength DEF Index, Bit
<1>2. Pack(b) = BinaryNumber(b, W)
  BY DEF Pack, MapThenSumSet, MapThenFoldSet, BinaryNumber, Index
<1>3. PICK p : LowParts(p, b, W) /\ p[W] = Pack(b)
  BY <1>1, <1>2, BinaryLowParts
<1>4. Pack(b) \in Word
  BY <1>1, <1>3 DEF LowParts, Word
<1>5. \A i \in 0..W - 1 : (Pack(b) \div 2^i) % 2 = b[i]
  BY <1>1, <1>3, DigitsOfBinary
<1>. QED  BY <1>4, <1>5 DEF Unpack, Index

LEMMA UnpackedWord ==
    ASSUME NEW v \in Word
    PROVE  /\ Pack(Unpack(v)) = v
           /\ \A i \in Index : Unpack(v)[i] \in Bit /\ Unpack(v)[i] \in Int
<1>. DEFINE b == Unpack(v)
<1>1. W \in Nat /\ v \in 0..2^W - 1 /\ v \in Nat
  BY WordLength DEF Word
<1>2. \A i \in 0..W - 1 : b[i] = (v \div 2^i) % 2
  BY DEF Unpack, Index
<1>3. ASSUME NEW i \in Index PROVE b[i] \in Bit
  <2>1. i \in Nat /\ 2^i \in Nat /\ 2^i > 0
    BY <1>1, PowerPositive DEF Index
  <2>2. v \div 2^i \in Nat
    BY <1>1, <2>1, Quotient
  <2>. HIDE DEF b
  <2>3. \A q \in Nat : q % 2 \in {0, 1}
    OBVIOUS
  <2>4. (v \div 2^i) % 2 \in {0, 1}
    BY <2>2, <2>3
  <2>. QED  BY <1>2, <2>4 DEF Index, Bit
<1>. HIDE DEF b
<1>4. \A i \in 0..W - 1 : b[i] \in {0, 1}
  BY <1>3 DEF Index, Bit
<1>5. Pack(b) = BinaryNumber(b, W)
  BY DEF Pack, MapThenSumSet, MapThenFoldSet, BinaryNumber, Index
<1>6. PICK p : LowParts(p, b, W) /\ p[W] = Pack(b)
  BY <1>1, <1>4, <1>5, BinaryLowParts
<1>7. Pack(b) = v
  BY <1>1, <1>2, <1>6, BinaryOfDigits
<1>. QED  BY <1>3, <1>7 DEF b, Bit

\* Words with the same bits are the same.
LEMMA SameBits ==
    ASSUME NEW v \in Word, NEW w \in Word, \A i \in Index : Unpack(v)[i] = Unpack(w)[i]
    PROVE  v = w
<1>1. Unpack(v) = Unpack(w)
  BY DEF Unpack
<1>. QED  BY <1>1, UnpackedWord

\* A sum in the field is a word, and 0 only for equal words.
LEMMA XorOfWords ==
    ASSUME NEW v \in Word, NEW w \in Word
    PROVE  /\ XorWord(v, w) \in Word
           /\ \A i \in Index : Unpack(XorWord(v, w))[i] = (Unpack(v)[i] + Unpack(w)[i]) % 2
           /\ XorWord(v, w) = 0 <=> v = w
<1>. DEFINE b == [i \in Index |-> (Unpack(v)[i] + Unpack(w)[i]) % 2]
<1>1. \A i \in Index : /\ Unpack(v)[i] \in Bit /\ Unpack(w)[i] \in Bit
                       /\ b[i] = (Unpack(v)[i] + Unpack(w)[i]) % 2
  BY UnpackedWord
<1>2. XorWord(v, w) = Pack(b)
  BY DEF XorWord
<1>. HIDE DEF b
<1>3. \A x, y \in Bit : (x + y) % 2 \in Bit /\ ((x + y) % 2 = 0 <=> x = y)
  BY DEF Bit
<1>4. \A i \in Index : b[i] \in Bit /\ (b[i] = 0 <=> Unpack(v)[i] = Unpack(w)[i])
  BY <1>1, <1>3
<1>5. Pack(b) \in Word /\ \A i \in Index : Unpack(Pack(b))[i] = b[i]
  BY <1>4, PackedBits
<1>6. ASSUME NEW i \in Index PROVE Unpack(0)[i] = 0
  <2>1. 2^i \in Nat /\ 2^i > 0
    BY WordLength, PowerPositive DEF Index
  <2>2. 0 \div 2^i = 0
    <3>1. \A d \in Nat : d > 0 => 0 \div d = 0
      OBVIOUS
    <3>. QED  BY <2>1, <3>1
  <2>. QED  BY <2>2 DEF Unpack
<1>7. ASSUME v = w PROVE Pack(b) = 0
  <2>1. \A i \in Index : Unpack(Pack(b))[i] = Unpack(0)[i]
    BY <1>4, <1>5, <1>6, <1>7
  <2>. QED  BY <1>5, <2>1, SameBits, WordLength
<1>8. ASSUME Pack(b) = 0 PROVE v = w
  <2>1. \A i \in Index : Unpack(v)[i] = Unpack(w)[i]
    BY <1>4, <1>5, <1>6, <1>8
  <2>. QED  BY <2>1, SameBits
<1>. QED  BY <1>1, <1>2, <1>5, <1>7, <1>8

LEMMA AndOfWords ==
    ASSUME NEW v \in Word, NEW w \in Word
    PROVE  /\ AndWord(v, w) \in Word
           /\ \A i \in Index : Unpack(AndWord(v, w))[i] = Unpack(v)[i] * Unpack(w)[i]
<1>. DEFINE b == [i \in Index |-> Unpack(v)[i] * Unpack(w)[i]]
<1>1. \A i \in Index : /\ Unpack(v)[i] \in Bit /\ Unpack(w)[i] \in Bit
                       /\ b[i] = Unpack(v)[i] * Unpack(w)[i]
  BY UnpackedWord
<1>2. AndWord(v, w) = Pack(b)
  BY DEF AndWord
<1>. HIDE DEF b
<1>3. \A x, y \in Bit : x * y \in Bit
  BY DEF Bit
<1>. QED  BY <1>1, <1>2, <1>3, PackedBits

LEMMA OrOfWords ==
    ASSUME NEW v \in Word, NEW w \in Word
    PROVE  OrWord(v, w) \in Word
BY XorOfWords, AndOfWords DEF OrWord

-----------------------------------------------------------------------------
(* The arithmetic unit: the row a witness procedure makes is of the right  *)
(* shape, and satisfies the constraints registered under its opcode.       *)

\* The operands of a row, with the result it starts from.
IsInput(in) == /\ in.arg1 \in Word /\ in.arg2 \in Word /\ in.dest \in Word
               /\ in.flag \in Bit /\ in.left \in Word

\* The constraints see the same operands and flag.
Sees(c, in) == c.arg1 = in.arg1 /\ c.arg2 = in.arg2 /\ c.dest = in.dest /\ c.flag = in.flag

ColumnNames == {"u1", "u2", "aux1", "aux2", "aux3", "aux4", "aux5", "aux7", "inv", "inv2",
                "isMemOp", "isLoad", "value", "address", "result", "flag"}

IsOutput(out) ==
  /\ out \in [ColumnNames -> Int]
  /\ out.result \in Word /\ out.flag \in Bit /\ out.value \in Word /\ out.address \in Word

\* What an instruction says of the memory.
SaysOfMemory(op, in, loaded, out) ==
  /\ out.isMemOp = ToBit(op \in {"SW", "LW"})
  /\ out.isLoad = ToBit(op = "LW")
  /\ op \in {"SW", "LW"} => out.address = in.arg2
  /\ op = "SW" => out.value = in.dest
  /\ op = "LW" => out.value = loaded

\* What does not set the flag leaves it.
LeavesFlag == Jump \cup Moves \cup Output \cup SetOn \cup {"SW", "LW"}

\* What the constraint of CMPE's component, registered under NOT, refuses: the
\* NOT of all ones, unless the other operand is all ones as well.
Refused(op, in) == op = "NOT" /\ in.arg1 = AllOnes /\ in.arg1 # in.arg2

RowOk(op, in, loaded, c, out) ==
  /\ IsOutput(out)
  /\ SaysOfMemory(op, in, loaded, out)
  /\ op \in LeavesFlag => out.flag = in.flag
  /\ ~Refused(op, in) => Satisfied(op, c, out)

\* For every opcode, operand and value loaded.
Completes(op) ==
  \A in, c, loaded :
    IsInput(in) /\ Sees(c, in) /\ loaded \in Word
      => RowOk(op, in, loaded, c, Witness(op, in, loaded))

LEMMA BlankRow ==
    ASSUME NEW in, IsInput(in)
    PROVE  /\ IsOutput(Blank(in))
           /\ Blank(in).isMemOp = 0 /\ Blank(in).isLoad = 0
           /\ Blank(in).flag = in.flag /\ Blank(in).result = in.left
<1>1. Zeros \in [ColumnNames -> Int]
  BY DEF Zeros, ColumnNames
<1>2. Zeros.isMemOp = 0 /\ Zeros.isLoad = 0 /\ Zeros.value = 0 /\ Zeros.address = 0
  BY DEF Zeros
<1>3. in.left \in Int /\ in.flag \in Int
  BY WordLength DEF IsInput, Word, Bit
<1>. QED  BY <1>1, <1>2, <1>3, WordLength DEF Blank, IsOutput, IsInput, ColumnNames

LEMMA WordsAreNumbers ==
    /\ \A v \in Word : v \in Int /\ v \in Nat
    /\ \A v \in Bit : v \in Int /\ v \in Word
    /\ \A p \in BOOLEAN : ToBit(p) \in Bit
    /\ \A v \in Word : Inverse0(v) \in Int /\ Inverse1(v) \in Int
    /\ \A x, y : Order(x, y) \in Int
BY WordLength DEF Word, Bit, ToBit, Inverse0, Inverse1, Order, Less, Greater, Equal

LEMMA XorCompletes == Completes("XOR")
<1>. SUFFICES ASSUME NEW in, NEW c, NEW loaded, IsInput(in), Sees(c, in), loaded \in Word
              PROVE  RowOk("XOR", in, loaded, c, Witness("XOR", in, loaded))
  BY DEF Completes
<1>. DEFINE res == XorWord(in.arg1, in.arg2)
            out == [Blank(in) EXCEPT !.result = res, !.flag = ToBit(res = 0),
                                     !.inv = Inverse1(res)]
<1>1. Witness("XOR", in, loaded) = out
  BY DEF Witness, Division, Shift, CompareEq, CompareGe, Moves, Jump, Output, BitwiseResult
<1>2. res \in Word
  BY XorOfWords DEF IsInput
<1>3. /\ IsOutput(Blank(in)) /\ Blank(in).isMemOp = 0 /\ Blank(in).isLoad = 0
      /\ res \in Int /\ ToBit(res = 0) \in Bit /\ ToBit(res = 0) \in Int /\ Inverse1(res) \in Int
  BY <1>2, BlankRow, WordsAreNumbers
<1>4. IsOutput(out)
  BY <1>2, <1>3 DEF IsOutput, ColumnNames
<1>5. SaysOfMemory("XOR", in, loaded, out)
  BY <1>3 DEF SaysOfMemory, IsOutput, ColumnNames, ToBit
<1>6. "XOR" \notin LeavesFlag
  BY DEF LeavesFlag, Jump, Moves, Output, SetOn
<1>7. BitwiseConstraints("XOR", c, out)
  BY <1>2, <1>3 DEF BitwiseConstraints, BitwiseResult, Sees, IsOutput, ColumnNames, IsZero,
                    InvTimes, Inverse1, ToBit
<1>8. Satisfied("XOR", c, out)
  BY <1>3, <1>7 DEF Satisfied, Bitwise, Product, Division, Shift, Equality, Ordering, CompareGe,
            Branch, Jump, Moves, NoMemory, Opcodes, IsOutput, ColumnNames, Output
<1>. QED  BY <1>1, <1>4, <1>5, <1>6, <1>8 DEF RowOk

\* The opcodes that are no memory operation say nothing of the memory.
LEMMA NoMemorySaid ==
    ASSUME NEW op, op \notin {"SW", "LW"}, NEW in, NEW loaded, NEW out,
           out.isMemOp = 0, out.isLoad = 0
    PROVE  SaysOfMemory(op, in, loaded, out)
BY DEF SaysOfMemory, ToBit

LEMMA NotCompletes == Completes("NOT")
<1>. SUFFICES ASSUME NEW in, NEW c, NEW loaded, IsInput(in), Sees(c, in), loaded \in Word
              PROVE  RowOk("NOT", in, loaded, c, Witness("NOT", in, loaded))
  BY DEF Completes
<1>. DEFINE res == XorWord(AllOnes, in.arg1)
            out == [Blank(in) EXCEPT !.result = res, !.flag = ToBit(res = 0),
                                     !.inv = Inverse1(res)]
<1>1. Witness("NOT", in, loaded) = out
  BY DEF Witness, Division, Shift, CompareEq, CompareGe, Moves, Jump, Output, BitwiseResult
<1>2. res \in Word /\ (res = 0 <=> in.arg1 = AllOnes)
  BY XorOfWords, WordLength DEF IsInput
<1>3. /\ IsOutput(Blank(in)) /\ Blank(in).isMemOp = 0 /\ Blank(in).isLoad = 0
      /\ res \in Int /\ ToBit(res = 0) \in Bit /\ ToBit(res = 0) \in Int /\ Inverse1(res) \in Int
  BY <1>2, BlankRow, WordsAreNumbers
<1>4. IsOutput(out)
  BY <1>2, <1>3 DEF IsOutput, ColumnNames
<1>5. SaysOfMemory("NOT", in, loaded, out)
  BY <1>3, NoMemorySaid DEF IsOutput, ColumnNames
<1>6. "NOT" \notin LeavesFlag
  BY DEF LeavesFlag, Jump, Moves, Output, SetOn
<1>7. BitwiseConstraints("NOT", c, out)
  BY <1>2, <1>3 DEF BitwiseConstraints, BitwiseResult, Sees, IsOutput, ColumnNames, IsZero,
                    InvTimes, Inverse1, ToBit
<1>8. ASSUME ~Refused("NOT", in) PROVE UnderNot(c, out)
  <2>1. XorWord(in.arg1, in.arg2) \in Int /\ (in.arg1 = in.arg2 => XorWord(in.arg1, in.arg2) = 0)
    BY XorOfWords, WordsAreNumbers DEF IsInput
  <2>2. out.flag = ToBit(res = 0)
    BY <1>3 DEF IsOutput, ColumnNames
  <2>3. in.arg1 # AllOnes => out.flag = 0
    BY <1>2, <2>2 DEF ToBit
  <2>4. out.flag \in Int
    BY <1>3, <2>2
  <2>5. in.arg1 = in.arg2 \/ in.arg1 # AllOnes
    BY <1>8 DEF Refused
  <2>. HIDE DEF out, res
  <2>. QED  BY <2>1, <2>3, <2>4, <2>5 DEF UnderNot, Sees
<1>9. ASSUME ~Refused("NOT", in) PROVE Satisfied("NOT", c, out)
  BY <1>3, <1>7, <1>8, <1>9 DEF Satisfied, Bitwise, Product, Division, Shift, Equality, Ordering,
            CompareGe, Branch, Jump, Moves, NoMemory, Opcodes, IsOutput, ColumnNames, Output
<1>. QED  BY <1>1, <1>4, <1>5, <1>6, <1>9 DEF RowOk

LEMMA AndOrCompletes == \A op \in {"AND", "OR"} : Completes(op)
<1>. SUFFICES ASSUME NEW op \in {"AND", "OR"},
                     NEW in, NEW c, NEW loaded, IsInput(in), Sees(c, in), loaded \in Word
              PROVE  RowOk(op, in, loaded, c, Witness(op, in, loaded))
  BY DEF Completes
<1>. DEFINE res == BitwiseResult(op, in.arg1, in.arg2)
            out == [[Blank(in) EXCEPT !.u1 = in.arg1, !.u2 = in.arg2] EXCEPT
                      !.result = res, !.flag = ToBit(res = 0), !.inv = Inverse1(res)]
<1>1. Witness(op, in, loaded) = out
  BY DEF Witness, Division, Shift, CompareEq, CompareGe, Moves, Jump, Output
<1>2. res \in Word
  BY AndOfWords, OrOfWords DEF IsInput, BitwiseResult
<1>3. /\ IsOutput(Blank(in)) /\ Blank(in).isMemOp = 0 /\ Blank(in).isLoad = 0
      /\ res \in Int /\ ToBit(res = 0) \in Bit /\ ToBit(res = 0) \in Int /\ Inverse1(res) \in Int
      /\ in.arg1 \in Int /\ in.arg2 \in Int
  BY <1>2, BlankRow, WordsAreNumbers DEF IsInput
<1>. HIDE DEF res
<1>4. IsOutput(out)
  BY <1>2, <1>3 DEF IsOutput, ColumnNames
<1>5. SaysOfMemory(op, in, loaded, out)
  BY <1>3, NoMemorySaid DEF IsOutput, ColumnNames
<1>6. op \notin LeavesFlag
  BY DEF LeavesFlag, Jump, Moves, Output, SetOn
<1>7. BitwiseConstraints(op, c, out)
  <2>1. /\ out.result = res /\ out.u1 = in.arg1 /\ out.u2 = in.arg2
        /\ out.flag = ToBit(res = 0) /\ out.inv = Inverse1(res)
    BY <1>3 DEF IsOutput, ColumnNames
  <2>. HIDE DEF out
  <2>. QED  BY <1>3, <2>1 DEF BitwiseConstraints, IsZero, InvTimes, Inverse1, ToBit, res
<1>8. Satisfied(op, c, out)
  BY <1>3, <1>7 DEF Satisfied, Bitwise, Product, Division, Shift, Equality, Ordering,
            CompareGe, Branch, Jump, Moves, NoMemory, Opcodes, IsOutput, ColumnNames, Output
<1>. QED  BY <1>1, <1>4, <1>5, <1>6, <1>8 DEF RowOk

\* The low and the high word of a number, ...
LEMMA LowAndHigh ==
    /\ \A v \in Int : /\ Low(v) \in Word /\ High(v) \in Word
                      /\ Low(v) \in Int /\ High(v) \in Int
    /\ \A v \in Word : Low(v) = v
<1>1. \A v \in Int : v \div 2^W \in Int
  BY WordLength
<1>2. \A v \in Word : v % 2^W = v
  BY WordLength DEF Word
<1>. QED  BY <1>1, <1>2, WordLength, WordsAreNumbers DEF Low, High

\* ... which for the sum of two words is a bit, ...
LEMMA CarryOfSum ==
    ASSUME NEW x \in Word, NEW y \in Word
    PROVE  /\ High(x + y) \in Bit /\ x + y \in Int
           /\ Adds(x, y, Low(x + y), High(x + y))
<1>. DEFINE d == 2^W
            s == x + y
<1>1. d \in Nat /\ d >= 2 /\ s \in Nat /\ s < 2 * d
  BY WordLength, WordsAreNumbers DEF Word
<1>. HIDE DEF d, s
<1>2. CASE s < d
  <2>1. s \div d = 0 /\ s % d = s
    BY <1>1, <1>2
  <2>2. High(s) = 0 /\ Low(s) = s
    BY <1>1, <2>1 DEF High, Low, d
  <2>. QED  BY <1>1, <2>2 DEF Adds, Bit, s, d
<1>3. CASE s >= d
  <2>1. s = d * 1 + (s - d) /\ s - d \in 0..d - 1
    BY <1>1, <1>3
  <2>2. s \div d = 1 /\ s % d = s - d
    <3>. DEFINE r == s - d
    <3>1. r \in 0..d - 1 /\ s = d * 1 + r
      BY <2>1
    <3>. HIDE DEF r
    <3>2. (d * 1 + r) \div d = 1 /\ (d * 1 + r) % d = r
      BY <1>1, <3>1, QuotientUnique
    <3>. QED  BY <3>1, <3>2 DEF r
  <2>3. High(s) = 1 /\ Low(s) = s - d
    BY <1>1, <2>2 DEF High, Low, d
  <2>. QED  BY <1>1, <2>3 DEF Adds, Bit, s, d
<1>. QED  BY <1>1, <1>2, <1>3

\* ... and a difference is what is added to get back.
LEMMA AddedBack ==
    ASSUME NEW x \in Word, NEW y \in Word
    PROVE  Low(x - y) \in Word /\ Low(y + Low(x - y)) = x
<1>. DEFINE d == 2^W
            s == (x - y) % d
            k == (x - y) \div d
<1>1. d \in Nat /\ d >= 2 /\ x \in 0..d - 1 /\ y \in 0..d - 1
  BY WordLength DEF Word
<1>. HIDE DEF d
<1>2. x - y \in Int /\ s \in 0..d - 1 /\ k \in Int /\ x - y = d * k + s
  BY <1>1
<1>. HIDE DEF s, k
<1>3. k = 0 \/ k = -1
  <2>1. ASSUME k >= 1 PROVE FALSE
    <3>1. d * k >= d
      BY <1>1, <1>2, <2>1
    <3>. QED  BY <1>1, <1>2, <3>1
  <2>2. ASSUME k <= -2 PROVE FALSE
    <3>1. PICK e \in Nat : k = -2 - e
      BY <1>2, <2>2, -2 - k \in Nat
    <3>2. d * k = -(2 * d) - d * e /\ d * e >= 0
      BY <1>1, <3>1
    <3>. QED  BY <1>1, <1>2, <3>2
  <2>. QED  BY <1>2, <2>1, <2>2
<1>4. (y + s) % d = x
  <2>1. CASE k = 0
    BY <1>1, <1>2, <2>1
  <2>2. CASE k = -1
    <3>1. y + s = x + d
      BY <1>1, <1>2, <2>2
    <3>2. y + s = d * 1 + x /\ 1 \in Nat /\ x \in 0..d - 1
      BY <1>1, <3>1
    <3>3. (d * 1 + x) % d = x
      BY <1>1, <3>2, QuotientUnique
    <3>. QED  BY <3>2, <3>3
  <2>. QED  BY <1>3, <2>1, <2>2
<1>. QED  BY <1>2, <1>4 DEF Low, Word, d, s

LEMMA AddCompletes == Completes("ADD")
<1>. SUFFICES ASSUME NEW in, NEW c, NEW loaded, IsInput(in), Sees(c, in), loaded \in Word
              PROVE  RowOk("ADD", in, loaded, c, Witness("ADD", in, loaded))
  BY DEF Completes
<1>. DEFINE sum == in.arg1 + in.arg2
            out == [[Blank(in) EXCEPT !.u1 = in.arg1, !.u2 = in.arg2] EXCEPT
                      !.aux1 = Low(sum), !.result = Low(sum), !.flag = High(sum)]
<1>1. Witness("ADD", in, loaded) = out
  BY DEF Witness, Division, Shift, CompareEq, CompareGe, Moves, Jump, Output
<1>2. /\ Low(sum) \in Word /\ High(sum) \in Bit /\ Adds(in.arg1, in.arg2, Low(sum), High(sum))
      /\ Low(sum) \in Int /\ High(sum) \in Int
  BY CarryOfSum, LowAndHigh DEF IsInput
<1>3. /\ IsOutput(Blank(in)) /\ Blank(in).isMemOp = 0 /\ Blank(in).isLoad = 0
      /\ in.arg1 \in Int /\ in.arg2 \in Int
  BY BlankRow, WordsAreNumbers DEF IsInput
<1>. HIDE DEF sum
<1>4. IsOutput(out)
  BY <1>2, <1>3 DEF IsOutput, ColumnNames
<1>5. SaysOfMemory("ADD", in, loaded, out)
  BY <1>3, NoMemorySaid DEF IsOutput, ColumnNames
<1>6. "ADD" \notin LeavesFlag
  BY DEF LeavesFlag, Jump, Moves, Output, SetOn
<1>7. SumConstraints("ADD", c, out)
  BY <1>2, <1>3 DEF SumConstraints, IsOutput, ColumnNames
<1>8. Satisfied("ADD", c, out)
  BY <1>3, <1>7 DEF Satisfied, Bitwise, Product, Division, Shift, Equality, Ordering,
            CompareGe, Branch, Jump, Moves, NoMemory, Opcodes, IsOutput, ColumnNames, Output
<1>. QED  BY <1>1, <1>4, <1>5, <1>6, <1>8 DEF RowOk

LEMMA SubCompletes == Completes("SUB")
<1>. SUFFICES ASSUME NEW in, NEW c, NEW loaded, IsInput(in), Sees(c, in), loaded \in Word
              PROVE  RowOk("SUB", in, loaded, c, Witness("SUB", in, loaded))
  BY DEF Completes
<1>. DEFINE res == Low(in.arg1 - in.arg2)
            sum == in.arg2 + res
            out == [[Blank(in) EXCEPT !.u1 = in.arg2, !.u2 = res] EXCEPT
                      !.aux1 = Low(sum), !.result = res, !.flag = High(sum)]
<1>1. Witness("SUB", in, loaded) = out
  BY DEF Witness, Division, Shift, CompareEq, CompareGe, Moves, Jump, Output
<1>2. res \in Word /\ Low(sum) = in.arg1
  BY AddedBack DEF IsInput
<1>3. /\ Low(sum) \in Word /\ High(sum) \in Bit /\ Adds(in.arg2, res, Low(sum), High(sum))
      /\ Low(sum) \in Int /\ High(sum) \in Int
  <2>. HIDE DEF res
  <2>. QED  BY <1>2, CarryOfSum, LowAndHigh DEF IsInput
<1>4. /\ IsOutput(Blank(in)) /\ Blank(in).isMemOp = 0 /\ Blank(in).isLoad = 0
      /\ in.arg1 \in Int /\ in.arg2 \in Int /\ res \in Int
  BY <1>2, BlankRow, WordsAreNumbers DEF IsInput
<1>. HIDE DEF sum, res
<1>5. IsOutput(out)
  BY <1>2, <1>3, <1>4 DEF IsOutput, ColumnNames
<1>6. SaysOfMemory("SUB", in, loaded, out)
  BY <1>4, NoMemorySaid DEF IsOutput, ColumnNames
<1>7. "SUB" \notin LeavesFlag
  BY DEF LeavesFlag, Jump, Moves, Output, SetOn
<1>8. SumConstraints("SUB", c, out)
  BY <1>2, <1>3, <1>4 DEF SumConstraints, Sees, IsOutput, ColumnNames
<1>9. Satisfied("SUB", c, out)
  BY <1>4, <1>8 DEF Satisfied, Bitwise, Product, Division, Shift, Equality, Ordering,
            CompareGe, Branch, Jump, Moves, NoMemory, Opcodes, IsOutput, ColumnNames, Output
<1>. QED  BY <1>1, <1>5, <1>6, <1>7, <1>9 DEF RowOk

LEMMA SignedIsNumber == \A v \in Word : Signed(v) \in Int
BY WordLength, WordsAreNumbers DEF Signed

LEMMA TimesIsNumber ==
    ASSUME NEW op, NEW in, IsInput(in)
    PROVE  Times(op, in) \in Int
<1>1. \A x, y \in Int : x * y \in Int
  OBVIOUS
<1>. QED  BY <1>1, SignedIsNumber, WordsAreNumbers DEF Times, IsInput

LEMMA MultCompletes == Completes("MULT")
<1>. SUFFICES ASSUME NEW in, NEW c, NEW loaded, IsInput(in), Sees(c, in), loaded \in Word
              PROVE  RowOk("MULT", in, loaded, c, Witness("MULT", in, loaded))
  BY DEF Completes
<1>. DEFINE v == Times("MULT", in)
            out == [[Blank(in) EXCEPT !.u1 = in.arg1, !.u2 = in.arg2] EXCEPT
                      !.result = Low(v), !.aux3 = Low(v), !.aux4 = High(v), !.aux1 = High(v),
                      !.inv = Inverse0(High(v)), !.flag = ToBit(High(v) # 0)]
<1>1. Witness("MULT", in, loaded) = out
  BY DEF Witness, Division, Shift, CompareEq, CompareGe, Moves, Jump, Output
<1>2. /\ Low(v) \in Word /\ High(v) \in Word /\ Low(v) \in Int /\ High(v) \in Int
      /\ Inverse0(High(v)) \in Int /\ ToBit(High(v) # 0) \in Bit /\ ToBit(High(v) # 0) \in Int
  BY TimesIsNumber, LowAndHigh, WordsAreNumbers
<1>3. /\ IsOutput(Blank(in)) /\ Blank(in).isMemOp = 0 /\ Blank(in).isLoad = 0
      /\ in.arg1 \in Int /\ in.arg2 \in Int
  BY BlankRow, WordsAreNumbers DEF IsInput
<1>. HIDE DEF v
<1>4. IsOutput(out)
  BY <1>2, <1>3 DEF IsOutput, ColumnNames
<1>5. SaysOfMemory("MULT", in, loaded, out)
  BY <1>3, NoMemorySaid DEF IsOutput, ColumnNames
<1>6. "MULT" \notin LeavesFlag
  BY DEF LeavesFlag, Jump, Moves, Output, SetOn
<1>7. ProductConstraints("MULT", c, out)
  <2>1. /\ out.aux1 = High(v) /\ out.aux4 = High(v) /\ out.inv = Inverse0(High(v))
        /\ out.flag = ToBit(High(v) # 0)
    BY <1>3 DEF IsOutput, ColumnNames
  <2>. HIDE DEF out
  <2>. QED  BY <1>2, <2>1 DEF ProductConstraints, Inverts, InvTimes, Inverse0, ToBit
<1>8. Satisfied("MULT", c, out)
  BY <1>3, <1>7 DEF Satisfied, Bitwise, Product, Division, Shift, Equality, Ordering,
            CompareGe, Branch, Jump, Moves, NoMemory, Opcodes, IsOutput, ColumnNames, Output
<1>. QED  BY <1>1, <1>4, <1>5, <1>6, <1>8 DEF RowOk

LEMMA UmulhCompletes == Completes("UMULH")
<1>. SUFFICES ASSUME NEW in, NEW c, NEW loaded, IsInput(in), Sees(c, in), loaded \in Word
              PROVE  RowOk("UMULH", in, loaded, c, Witness("UMULH", in, loaded))
  BY DEF Completes
<1>. DEFINE v == Times("UMULH", in)
            out == [[Blank(in) EXCEPT !.u1 = in.arg1, !.u2 = in.arg2] EXCEPT
                      !.result = High(v), !.aux3 = Low(v), !.aux4 = High(v),
                      !.inv = Inverse0(High(v)), !.flag = ToBit(High(v) # 0)]
<1>1. Witness("UMULH", in, loaded) = out
  BY DEF Witness, Division, Shift, CompareEq, CompareGe, Moves, Jump, Output
<1>2. /\ Low(v) \in Word /\ High(v) \in Word /\ Low(v) \in Int /\ High(v) \in Int
      /\ Inverse0(High(v)) \in Int /\ ToBit(High(v) # 0) \in Bit /\ ToBit(High(v) # 0) \in Int
  BY TimesIsNumber, LowAndHigh, WordsAreNumbers
<1>3. /\ IsOutput(Blank(in)) /\ Blank(in).isMemOp = 0 /\ Blank(in).isLoad = 0
      /\ in.arg1 \in Int /\ in.arg2 \in Int
  BY BlankRow, WordsAreNumbers DEF IsInput
<1>. HIDE DEF v
<1>4. IsOutput(out)
  BY <1>2, <1>3 DEF IsOutput, ColumnNames
<1>5. SaysOfMemory("UMULH", in, loaded, out)
  BY <1>3, NoMemorySaid DEF IsOutput, ColumnNames
<1>6. "UMULH" \notin LeavesFlag
  BY DEF LeavesFlag, Jump, Moves, Output, SetOn
<1>7. ProductConstraints("UMULH", c, out)
  <2>1. /\ out.result = High(v) /\ out.inv = Inverse0(High(v)) /\ out.flag = ToBit(High(v) # 0)
    BY <1>3 DEF IsOutput, ColumnNames
  <2>. HIDE DEF out
  <2>. QED  BY <1>2, <2>1 DEF ProductConstraints, Inverts, InvTimes, Inverse0, ToBit
<1>8. Satisfied("UMULH", c, out)
  BY <1>3, <1>7 DEF Satisfied, Bitwise, Product, Division, Shift, Equality, Ordering,
            CompareGe, Branch, Jump, Moves, NoMemory, Opcodes, IsOutput, ColumnNames, Output
<1>. QED  BY <1>1, <1>4, <1>5, <1>6, <1>8 DEF RowOk

\* The flag says that the high word is neither 0 nor all ones: it is the sum
\* in the field of three bits.
LEMMA SmulhCompletes == Completes("SMULH")
<1>. SUFFICES ASSUME NEW in, NEW c, NEW loaded, IsInput(in), Sees(c, in), loaded \in Word
              PROVE  RowOk("SMULH", in, loaded, c, Witness("SMULH", in, loaded))
  BY DEF Completes
<1>. DEFINE v == Times("SMULH", in)
            minus == XorWord(High(v), AllOnes)
            bit == ToBit(High(v) \notin {0, AllOnes})
            out == [[Blank(in) EXCEPT !.u1 = in.arg1, !.u2 = in.arg2] EXCEPT
                      !.result = High(v), !.aux3 = Low(v), !.aux4 = High(v),
                      !.inv = Inverse0(High(v)), !.inv2 = minus, !.flag = bit]
<1>1. Witness("SMULH", in, loaded) = out
  BY DEF Witness, Division, Shift, CompareEq, CompareGe, Moves, Jump, Output
<1>2. /\ Low(v) \in Word /\ High(v) \in Word /\ Low(v) \in Int /\ High(v) \in Int
      /\ Inverse0(High(v)) \in Int /\ bit \in Bit /\ bit \in Int
  BY TimesIsNumber, LowAndHigh, WordsAreNumbers
<1>3. minus \in Int /\ (minus = 0 <=> High(v) = AllOnes)
  BY <1>2, XorOfWords, WordLength, WordsAreNumbers
<1>4. /\ IsOutput(Blank(in)) /\ Blank(in).isMemOp = 0 /\ Blank(in).isLoad = 0
      /\ in.arg1 \in Int /\ in.arg2 \in Int
  BY BlankRow, WordsAreNumbers DEF IsInput
<1>5. bit = IF High(v) = 0 \/ minus = 0 THEN 0 ELSE 1
  BY <1>3 DEF ToBit
<1>6. ~ (High(v) = 0 /\ minus = 0)
  BY <1>3, WordLength
<1>. DEFINE q == minus
            b == bit
<1>7. out = [[Blank(in) EXCEPT !.u1 = in.arg1, !.u2 = in.arg2] EXCEPT
               !.result = High(v), !.aux3 = Low(v), !.aux4 = High(v),
               !.inv = Inverse0(High(v)), !.inv2 = q, !.flag = b]
  OBVIOUS
<1>8. /\ q \in Int /\ b \in Bit /\ b \in Int
      /\ b = (IF High(v) = 0 \/ q = 0 THEN 0 ELSE 1) /\ ~ (High(v) = 0 /\ q = 0)
      /\ q = XorWord(High(v), AllOnes)
  BY <1>2, <1>3, <1>5, <1>6
<1>. HIDE DEF v, q, b, out
<1>9. IsOutput(out)
  BY <1>2, <1>4, <1>7, <1>8 DEF IsOutput, ColumnNames
<1>10. SaysOfMemory("SMULH", in, loaded, out)
  BY <1>4, <1>7, NoMemorySaid DEF IsOutput, ColumnNames
<1>11. "SMULH" \notin LeavesFlag
  BY DEF LeavesFlag, Jump, Moves, Output, SetOn
<1>12. ProductConstraints("SMULH", c, out)
  <2>1. out.result = High(v) /\ out.inv = Inverse0(High(v)) /\ out.inv2 = q /\ out.flag = b
    BY <1>4, <1>7 DEF IsOutput, ColumnNames
  <2>2. Inverts(out.result, out.inv) /\ Inverts(q, out.inv2)
    BY <1>2, <1>8, <2>1 DEF Inverts, InvTimes, Inverse0
  <2>3. out.flag = (InvTimes(out.result, out.inv) + InvTimes(q, out.inv2) + 1) % 2
    BY <1>2, <1>8, <2>1 DEF InvTimes, Inverse0
  <2>. QED  BY <1>8, <2>1, <2>2, <2>3 DEF ProductConstraints
<1>13. Satisfied("SMULH", c, out)
  <2>1. out.isMemOp = 0
    BY <1>4, <1>7 DEF IsOutput, ColumnNames
  <2>. QED  BY <1>12, <2>1 DEF Satisfied, Bitwise, Product, Division, Shift, Equality, Ordering,
            CompareGe, Branch, Jump, Moves, NoMemory, Opcodes, Output
<1>. QED  BY <1>1, <1>9, <1>10, <1>11, <1>13 DEF RowOk

LEMMA DivisionCompletes == \A op \in Division : Completes(op)
<1>. SUFFICES ASSUME NEW op \in Division,
                     NEW in, NEW c, NEW loaded, IsInput(in), Sees(c, in), loaded \in Word
              PROVE  RowOk(op, in, loaded, c, Witness(op, in, loaded))
  BY DEF Completes
<1>. DEFINE rem == IF in.arg2 = 0 THEN 0 ELSE in.arg1 % in.arg2
            quo == IF in.arg2 = 0 THEN 0 ELSE in.arg1 \div in.arg2
            res == IF op = "UDIV" THEN quo ELSE rem
            geq == Order(in.arg2, rem)
            out == [[Blank(in) EXCEPT !.u1 = in.arg1, !.u2 = in.arg2] EXCEPT
                      !.result = res, !.aux3 = quo, !.aux5 = rem, !.aux7 = geq,
                      !.inv = Inverse0(in.arg2), !.flag = ToBit(in.arg2 = 0)]
<1>1. Witness(op, in, loaded) = out
  BY DEF Witness, Division, Shift, CompareEq, CompareGe, Moves, Jump, Output
<1>2. rem \in Word /\ quo \in Word /\ (in.arg2 # 0 => rem < in.arg2)
  <2>1. in.arg1 \in 0..2^W - 1 /\ in.arg2 \in 0..2^W - 1 /\ 2^W \in Nat
    BY WordLength DEF IsInput, Word
  <2>2. CASE in.arg2 = 0
    BY <2>2, WordLength
  <2>3. CASE in.arg2 # 0
    <3>. DEFINE x == in.arg1
                y == in.arg2
                q == x \div y
                r == x % y
    <3>1. x \in Nat /\ y \in Nat /\ y > 0
      BY <2>1, <2>3
    <3>2. q \in Nat /\ r \in 0..y - 1 /\ x = y * q + r
      BY <3>1, Quotient
    <3>3. rem = r /\ quo = q
      BY <2>3
    <3>. HIDE DEF rem, quo, x, y, q, r
    <3>4. q <= y * q /\ y * q <= x
      BY <3>1, <3>2
    <3>5. q <= x /\ r < y
      BY <3>1, <3>2, <3>4
    <3>6. x \in 0..2^W - 1 /\ in.arg2 = y
      BY <2>1 DEF x, y
    <3>7. r \in Word /\ q \in Word
      BY <2>1, <3>1, <3>2, <3>5, <3>6 DEF Word
    <3>. QED  BY <3>3, <3>5, <3>6, <3>7
  <2>. QED  BY <2>2, <2>3
<1>3. /\ rem \in Int /\ quo \in Int /\ res \in Word /\ geq \in Int
      /\ in.arg2 # 0 => geq = Greater
  BY <1>2, WordsAreNumbers DEF Order, Greater, IsInput
<1>4. /\ IsOutput(Blank(in)) /\ Blank(in).isMemOp = 0 /\ Blank(in).isLoad = 0
      /\ in.arg1 \in Int /\ in.arg2 \in Int /\ Inverse0(in.arg2) \in Int
      /\ ToBit(in.arg2 = 0) \in Bit /\ ToBit(in.arg2 = 0) \in Int
  BY BlankRow, WordsAreNumbers DEF IsInput
<1>5. op = "UMOD" => res = rem
  OBVIOUS
<1>. HIDE DEF rem, quo, res, geq
<1>6. IsOutput(out)
  <2>1. res \in Int
    BY <1>3, WordsAreNumbers
  <2>. QED  BY <1>2, <1>3, <1>4, <2>1 DEF IsOutput, ColumnNames
<1>7. SaysOfMemory(op, in, loaded, out)
  BY <1>4, NoMemorySaid DEF IsOutput, ColumnNames, Division
<1>8. op \notin LeavesFlag
  BY DEF LeavesFlag, Jump, Moves, Output, SetOn, Division
<1>9. DivisionConstraints(op, c, out)
  <2>1. /\ out.aux7 = geq /\ out.aux5 = rem /\ out.result = res /\ out.inv = Inverse0(in.arg2)
        /\ out.flag = ToBit(in.arg2 = 0)
    BY <1>4 DEF IsOutput, ColumnNames
  <2>. HIDE DEF out
  <2>. QED  BY <1>3, <1>4, <1>5, <2>1
            DEF DivisionConstraints, Sees, Inverts, InvTimes, Inverse0, ToBit
<1>10. Satisfied(op, c, out)
  BY <1>4, <1>9 DEF Satisfied, Bitwise, Product, Division, Shift, Equality, Ordering,
            CompareGe, Branch, Jump, Moves, NoMemory, Opcodes, IsOutput, ColumnNames, Output
<1>. QED  BY <1>1, <1>6, <1>7, <1>8, <1>10 DEF RowOk

\* What is compared is an operand.
LEMMA OperandsCompared ==
    ASSUME NEW op, NEW in, NEW c, IsInput(in), Sees(c, in)
    PROVE  /\ Left(op, in) \in Word /\ Right(op, in) \in Word
           /\ Left(op, c) = Left(op, in) /\ Right(op, c) = Right(op, in)
           /\ SetsBit(op, in) \in Bit /\ SetsBit(op, in) \in Int /\ SetsBit(op, in) \in Word
<1>1. Left(op, in) \in Word /\ Left(op, c) = Left(op, in)
  BY DEF Left, IsInput, Sees
<1>2. Right(op, in) \in Word /\ Right(op, c) = Right(op, in)
  BY DEF Right, IsInput, Sees
<1>3. SetsBit(op, in) \in Bit
  BY WordLength DEF SetsBit, ToBit, Bit
<1>. QED  BY <1>1, <1>2, <1>3, WordsAreNumbers

\* The inverse of the difference of the operands decides an equality.
LEMMA EqualityHolds ==
    ASSUME NEW op \in Equality, NEW in, NEW c, IsInput(in), Sees(c, in),
           NEW difference, difference = XorWord(Left(op, in), Right(op, in)),
           NEW out, out.inv = IF op \in Negated THEN Inverse0(difference)
                              ELSE Inverse1(difference),
           NEW bit, bit = SetsBit(op, in)
    PROVE  EqualityConstraints(op, c, out, bit)
<1>1. /\ difference \in Int /\ (difference = 0 <=> Left(op, in) = Right(op, in))
      /\ difference = XorWord(Left(op, c), Right(op, c))
  BY OperandsCompared, XorOfWords, WordsAreNumbers
<1>2. bit = IF op \in Negated THEN ToBit(difference # 0) ELSE ToBit(difference = 0)
  BY <1>1 DEF SetsBit, ToBit
<1>3. op \in Negated => NotZero(difference, out.inv, bit)
  BY <1>1, <1>2 DEF NotZero, InvTimes, Inverse0, ToBit
<1>4. op \notin Negated => InvTimes(difference, out.inv) = 1 - bit /\ difference * bit = 0
  BY <1>1, <1>2 DEF InvTimes, Inverse1, ToBit
<1>. QED  BY <1>1, <1>3, <1>4 DEF EqualityConstraints

LEMMA CompareEqCompletes == \A op \in CompareEq : Completes(op)
<1>. SUFFICES ASSUME NEW op \in CompareEq,
                     NEW in, NEW c, NEW loaded, IsInput(in), Sees(c, in), loaded \in Word
              PROVE  RowOk(op, in, loaded, c, Witness(op, in, loaded))
  BY DEF Completes
<1>. DEFINE difference == XorWord(Left(op, in), Right(op, in))
            inverse == IF op \in Negated THEN Inverse0(difference) ELSE Inverse1(difference)
            bit == SetsBit(op, in)
            out == [Blank(in) EXCEPT !.result = 0, !.flag = bit, !.inv = inverse]
<1>1. Witness(op, in, loaded) = out
  BY DEF Witness, Division, Shift, CompareEq, CompareGe, Moves, Jump, Output
<1>2. difference \in Word /\ inverse \in Int /\ bit \in Bit /\ bit \in Int /\ 0 \in Word
  BY OperandsCompared, XorOfWords, WordsAreNumbers, WordLength
<1>3. IsOutput(Blank(in)) /\ Blank(in).isMemOp = 0 /\ Blank(in).isLoad = 0
  BY BlankRow
<1>4. op \in Equality /\ op \notin LeavesFlag /\ op \notin {"SW", "LW"}
  BY DEF CompareEq, Equality, LeavesFlag, Jump, Moves, Output, SetOn
<1>. HIDE DEF bit, inverse, difference
<1>5. IsOutput(out)
  BY <1>2, <1>3 DEF IsOutput, ColumnNames
<1>6. out.inv = inverse /\ out.flag = bit /\ out.isMemOp = 0 /\ out.isLoad = 0
  BY <1>3 DEF IsOutput, ColumnNames
<1>. HIDE DEF out
<1>7. EqualityConstraints(op, c, out, bit)
  BY <1>4, <1>6, EqualityHolds DEF inverse, bit, difference
<1>8. Satisfied(op, c, out)
  BY <1>6, <1>7 DEF Satisfied, CompareEq, Bitwise, Product, Division, Shift, Equality, Ordering,
            CompareGe, Branch, Jump, Moves, NoMemory, Opcodes, Output, SetOn
<1>. QED  BY <1>1, <1>4, <1>5, <1>6, <1>8, NoMemorySaid DEF RowOk

LEMMA BranchEqCompletes == \A op \in {"BEQ", "BNE"} : Completes(op)
<1>. SUFFICES ASSUME NEW op \in {"BEQ", "BNE"},
                     NEW in, NEW c, NEW loaded, IsInput(in), Sees(c, in), loaded \in Word
              PROVE  RowOk(op, in, loaded, c, Witness(op, in, loaded))
  BY DEF Completes
<1>. DEFINE difference == XorWord(Left(op, in), Right(op, in))
            inverse == IF op \in Negated THEN Inverse0(difference) ELSE Inverse1(difference)
            bit == SetsBit(op, in)
            out == [Blank(in) EXCEPT !.result = in.arg2, !.flag = bit, !.inv = inverse]
<1>1. Witness(op, in, loaded) = out
  BY DEF Witness, Division, Shift, CompareEq, CompareGe, Moves, Jump, Output
<1>2. difference \in Word /\ inverse \in Int /\ bit \in Bit /\ bit \in Int
      /\ in.arg2 \in Int
  BY OperandsCompared, XorOfWords, WordsAreNumbers, WordLength DEF IsInput
<1>3. IsOutput(Blank(in)) /\ Blank(in).isMemOp = 0 /\ Blank(in).isLoad = 0
  BY BlankRow
<1>4. op \in Equality /\ op \notin LeavesFlag /\ op \notin {"SW", "LW"}
  BY DEF Equality, LeavesFlag, Jump, Moves, Output, SetOn
<1>. HIDE DEF bit, inverse, difference
<1>5. IsOutput(out)
  BY <1>2, <1>3 DEF IsOutput, ColumnNames, IsInput
<1>6. /\ out.inv = inverse /\ out.flag = bit /\ out.result = in.arg2
      /\ out.isMemOp = 0 /\ out.isLoad = 0
  BY <1>3 DEF IsOutput, ColumnNames
<1>. HIDE DEF out
<1>7. EqualityConstraints(op, c, out, bit)
  BY <1>4, <1>6, EqualityHolds DEF inverse, bit, difference
<1>8. Satisfied(op, c, out)
  BY <1>6, <1>7 DEF Satisfied, Sees, Bitwise, Product, Division, Shift, Equality, Ordering,
            CompareGe, Branch, Jump, Moves, NoMemory, Opcodes, Output, SetOn
<1>. QED  BY <1>1, <1>4, <1>5, <1>6, <1>8, NoMemorySaid DEF RowOk

LEMMA SetEqCompletes == \A op \in {"SEQ", "SNE"} : Completes(op)
<1>. SUFFICES ASSUME NEW op \in {"SEQ", "SNE"},
                     NEW in, NEW c, NEW loaded, IsInput(in), Sees(c, in), loaded \in Word
              PROVE  RowOk(op, in, loaded, c, Witness(op, in, loaded))
  BY DEF Completes
<1>. DEFINE difference == XorWord(Left(op, in), Right(op, in))
            inverse == IF op \in Negated THEN Inverse0(difference) ELSE Inverse1(difference)
            bit == SetsBit(op, in)
            out == [Blank(in) EXCEPT !.result = bit, !.inv = inverse]
<1>1. Witness(op, in, loaded) = out
  BY DEF Witness, Division, Shift, CompareEq, CompareGe, Moves, Jump, Output
<1>2. difference \in Word /\ inverse \in Int /\ bit \in Bit /\ bit \in Int /\ bit \in Word
  BY OperandsCompared, XorOfWords, WordsAreNumbers, WordLength
<1>3. /\ IsOutput(Blank(in)) /\ Blank(in).isMemOp = 0 /\ Blank(in).isLoad = 0
      /\ Blank(in).flag = in.flag
  BY BlankRow
<1>4. op \in Equality /\ op \notin {"SW", "LW"}
  BY DEF Equality
<1>. HIDE DEF bit, inverse, difference
<1>5. IsOutput(out)
  BY <1>2, <1>3 DEF IsOutput, ColumnNames
<1>6. /\ out.inv = inverse /\ out.result = bit /\ out.flag = in.flag
      /\ out.isMemOp = 0 /\ out.isLoad = 0
  BY <1>3 DEF IsOutput, ColumnNames
<1>. HIDE DEF out
<1>7. EqualityConstraints(op, c, out, bit)
  BY <1>4, <1>6, EqualityHolds DEF inverse, bit, difference
<1>8. Satisfied(op, c, out)
  BY <1>6, <1>7 DEF Satisfied, Bitwise, Product, Division, Shift, Equality, Ordering,
            CompareGe, Branch, Jump, Moves, NoMemory, Opcodes, Output, SetOn
<1>. QED  BY <1>1, <1>4, <1>5, <1>6, <1>8, NoMemorySaid DEF RowOk

\* The comparison of the unpacked operands decides an ordering.
LEMMA OrderHolds ==
    ASSUME NEW op \in Ordering, NEW in, NEW out,
           out.u1 = Left(op, in), out.u2 = Right(op, in),
           out.aux2 = Compared(op, Left(op, in), Right(op, in)),
           NEW bit, bit = SetsBit(op, in)
    PROVE  OrderConstraints(op, out, bit)
<1>1. op \notin Equality
  BY DEF Ordering, Equality, CompareGe
<1>. QED  BY <1>1 DEF OrderConstraints, SetsBit

LEMMA ComparedIsNumber == \A op, x, y : Compared(op, x, y) \in Int
BY WordsAreNumbers DEF Compared

LEMMA CompareGeCompletes == \A op \in CompareGe : Completes(op)
<1>. SUFFICES ASSUME NEW op \in CompareGe,
                     NEW in, NEW c, NEW loaded, IsInput(in), Sees(c, in), loaded \in Word
              PROVE  RowOk(op, in, loaded, c, Witness(op, in, loaded))
  BY DEF Completes
<1>. DEFINE left == Left(op, in)
            right == Right(op, in)
            geq == Compared(op, left, right)
            bit == SetsBit(op, in)
            out == [[Blank(in) EXCEPT !.u1 = left, !.u2 = right] EXCEPT
                      !.aux2 = geq, !.result = 0, !.flag = bit]
<1>1. Witness(op, in, loaded) = out
  BY DEF Witness, Division, Shift, CompareEq, CompareGe, Moves, Jump, Output
<1>2. /\ left \in Int /\ right \in Int /\ geq \in Int /\ bit \in Bit /\ bit \in Int
      /\ 0 \in Word
  BY OperandsCompared, ComparedIsNumber, WordsAreNumbers, WordLength
<1>3. IsOutput(Blank(in)) /\ Blank(in).isMemOp = 0 /\ Blank(in).isLoad = 0
  BY BlankRow
<1>4. op \in Ordering /\ op \notin LeavesFlag /\ op \notin {"SW", "LW"}
  BY DEF CompareGe, Ordering, LeavesFlag, Jump, Moves, Output, SetOn
<1>. HIDE DEF left, right, geq, bit
<1>5. IsOutput(out)
  BY <1>2, <1>3 DEF IsOutput, ColumnNames
<1>6. /\ out.u1 = left /\ out.u2 = right /\ out.aux2 = geq /\ out.flag = bit
      /\ out.isMemOp = 0 /\ out.isLoad = 0
  BY <1>3 DEF IsOutput, ColumnNames
<1>. HIDE DEF out
<1>7. OrderConstraints(op, out, bit)
  BY <1>4, <1>6, OrderHolds DEF left, right, geq, bit
<1>8. Satisfied(op, c, out)
  BY <1>6, <1>7 DEF Satisfied, CompareGe, Bitwise, Product, Division, Shift, Equality, Ordering,
            Branch, Jump, Moves, NoMemory, Opcodes, Output, SetOn
<1>. QED  BY <1>1, <1>4, <1>5, <1>6, <1>8, NoMemorySaid DEF RowOk

LEMMA BranchLessCompletes == \A op \in {"BLT", "BLE"} : Completes(op)
<1>. SUFFICES ASSUME NEW op \in {"BLT", "BLE"},
                     NEW in, NEW c, NEW loaded, IsInput(in), Sees(c, in), loaded \in Word
              PROVE  RowOk(op, in, loaded, c, Witness(op, in, loaded))
  BY DEF Completes
<1>. DEFINE left == Left(op, in)
            right == Right(op, in)
            geq == Compared(op, left, right)
            bit == SetsBit(op, in)
            out == [[Blank(in) EXCEPT !.u1 = left, !.u2 = right] EXCEPT
                      !.aux2 = geq, !.result = in.arg2, !.flag = bit]
<1>1. Witness(op, in, loaded) = out
  BY DEF Witness, Division, Shift, CompareEq, CompareGe, Moves, Jump, Output
<1>2. /\ left \in Int /\ right \in Int /\ geq \in Int /\ bit \in Bit /\ bit \in Int
      /\ in.arg2 \in Int
  BY OperandsCompared, ComparedIsNumber, WordsAreNumbers DEF IsInput
<1>3. IsOutput(Blank(in)) /\ Blank(in).isMemOp = 0 /\ Blank(in).isLoad = 0
  BY BlankRow
<1>4. op \in Ordering /\ op \notin LeavesFlag /\ op \notin {"SW", "LW"}
  BY DEF CompareGe, Ordering, LeavesFlag, Jump, Moves, Output, SetOn
<1>. HIDE DEF left, right, geq, bit
<1>5. IsOutput(out)
  BY <1>2, <1>3 DEF IsOutput, ColumnNames, IsInput
<1>6. /\ out.u1 = left /\ out.u2 = right /\ out.aux2 = geq /\ out.flag = bit
      /\ out.result = in.arg2 /\ out.isMemOp = 0 /\ out.isLoad = 0
  BY <1>3 DEF IsOutput, ColumnNames
<1>. HIDE DEF out
<1>7. OrderConstraints(op, out, bit)
  BY <1>4, <1>6, OrderHolds DEF left, right, geq, bit
<1>8. Satisfied(op, c, out)
  BY <1>6, <1>7 DEF Satisfied, Sees, Bitwise, Product, Division, Shift, Equality, Ordering,
            CompareGe, Branch, Jump, Moves, NoMemory, Opcodes, Output, SetOn
<1>. QED  BY <1>1, <1>4, <1>5, <1>6, <1>8, NoMemorySaid DEF RowOk

LEMMA SetLessCompletes == \A op \in {"SLT", "SLE"} : Completes(op)
<1>. SUFFICES ASSUME NEW op \in {"SLT", "SLE"},
                     NEW in, NEW c, NEW loaded, IsInput(in), Sees(c, in), loaded \in Word
              PROVE  RowOk(op, in, loaded, c, Witness(op, in, loaded))
  BY DEF Completes
<1>. DEFINE left == Left(op, in)
            right == Right(op, in)
            geq == Compared(op, left, right)
            bit == SetsBit(op, in)
            out == [[Blank(in) EXCEPT !.u1 = left, !.u2 = right] EXCEPT
                      !.aux2 = geq, !.result = bit]
<1>1. Witness(op, in, loaded) = out
  BY DEF Witness, Division, Shift, CompareEq, CompareGe, Moves, Jump, Output
<1>2. left \in Int /\ right \in Int /\ geq \in Int /\ bit \in Int /\ bit \in Word
  BY OperandsCompared, ComparedIsNumber, WordsAreNumbers
<1>3. /\ IsOutput(Blank(in)) /\ Blank(in).isMemOp = 0 /\ Blank(in).isLoad = 0
      /\ Blank(in).flag = in.flag
  BY BlankRow
<1>4. op \in Ordering /\ op \notin {"SW", "LW"}
  BY DEF Ordering
<1>. HIDE DEF left, right, geq, bit
<1>5. IsOutput(out)
  BY <1>2, <1>3 DEF IsOutput, ColumnNames
<1>6. /\ out.u1 = left /\ out.u2 = right /\ out.aux2 = geq /\ out.flag = in.flag
      /\ out.result = bit /\ out.isMemOp = 0 /\ out.isLoad = 0
  BY <1>3 DEF IsOutput, ColumnNames
<1>. HIDE DEF out
<1>7. OrderConstraints(op, out, bit)
  BY <1>4, <1>6, OrderHolds DEF left, right, geq, bit
<1>8. Satisfied(op, c, out)
  BY <1>6, <1>7 DEF Satisfied, Bitwise, Product, Division, Shift, Equality, Ordering,
            CompareGe, Branch, Jump, Moves, NoMemory, Opcodes, Output, SetOn
<1>. QED  BY <1>1, <1>4, <1>5, <1>6, <1>8, NoMemorySaid DEF RowOk

\* A jump or a move passes its operand on and leaves the flag.
LEMMA MoveCompletes == \A op \in Jump \cup Moves : Completes(op)
<1>. SUFFICES ASSUME NEW op \in Jump \cup Moves,
                     NEW in, NEW c, NEW loaded, IsInput(in), Sees(c, in), loaded \in Word
              PROVE  RowOk(op, in, loaded, c, Witness(op, in, loaded))
  BY DEF Completes
<1>. DEFINE out == [Blank(in) EXCEPT !.result = in.arg2]
<1>1. Witness(op, in, loaded) = out
  BY DEF Witness, Division, Shift, CompareEq, CompareGe, Moves, Jump, Output
<1>2. /\ IsOutput(Blank(in)) /\ Blank(in).isMemOp = 0 /\ Blank(in).isLoad = 0
      /\ Blank(in).flag = in.flag /\ in.arg2 \in Int
  BY BlankRow, WordsAreNumbers DEF IsInput
<1>3. op \notin {"SW", "LW"}
  BY DEF Jump, Moves
<1>4. IsOutput(out)
  BY <1>2 DEF IsOutput, ColumnNames, IsInput
<1>5. out.result = in.arg2 /\ out.flag = in.flag /\ out.isMemOp = 0 /\ out.isLoad = 0
  BY <1>2 DEF IsOutput, ColumnNames
<1>. HIDE DEF out
<1>6. Satisfied(op, c, out)
  BY <1>5 DEF Satisfied, Sees, Bitwise, Product, Division, Shift, Equality, Ordering,
            CompareGe, Branch, Jump, Moves, NoMemory, Opcodes, Output, SetOn
<1>. QED  BY <1>1, <1>3, <1>4, <1>5, <1>6, NoMemorySaid DEF RowOk

LEMMA OutputCompletes == \A op \in Output : Completes(op)
<1>. SUFFICES ASSUME NEW op \in Output,
                     NEW in, NEW c, NEW loaded, IsInput(in), Sees(c, in), loaded \in Word
              PROVE  RowOk(op, in, loaded, c, Witness(op, in, loaded))
  BY DEF Completes
<1>1. Witness(op, in, loaded) = Blank(in)
  BY DEF Witness, Division, Shift, CompareEq, CompareGe, Moves, Jump, Output
<1>2. /\ IsOutput(Blank(in)) /\ Blank(in).isMemOp = 0 /\ Blank(in).isLoad = 0
      /\ Blank(in).flag = in.flag
  BY BlankRow
<1>3. op \notin {"SW", "LW"}
  BY DEF Output
<1>4. Satisfied(op, c, Blank(in))
  BY DEF Satisfied, Bitwise, Product, Division, Shift, Equality, Ordering,
            CompareGe, Branch, Jump, Moves, NoMemory, Opcodes, Output, SetOn
<1>. QED  BY <1>1, <1>2, <1>3, <1>4, NoMemorySaid DEF RowOk

LEMMA MemoryCompletes == \A op \in {"SW", "LW"} : Completes(op)
<1>. SUFFICES ASSUME NEW op \in {"SW", "LW"},
                     NEW in, NEW c, NEW loaded, IsInput(in), Sees(c, in), loaded \in Word
              PROVE  RowOk(op, in, loaded, c, Witness(op, in, loaded))
  BY DEF Completes
<1>. DEFINE value == IF op = "SW" THEN in.dest ELSE loaded
            load == ToBit(op = "LW")
            out == [Blank(in) EXCEPT !.isMemOp = 1, !.isLoad = load, !.value = value,
                                     !.address = in.arg2]
<1>1. /\ IsOutput(Blank(in)) /\ Blank(in).isMemOp = 0 /\ Blank(in).isLoad = 0
      /\ Blank(in).flag = in.flag
  BY BlankRow
<1>2. Witness(op, in, loaded) = out
  <2>1. CASE op = "LW"
    <3>1. Witness("LW", in, loaded)
            = [Blank(in) EXCEPT !.isMemOp = 1, !.isLoad = 1, !.value = loaded,
                                !.address = in.arg2]
      BY DEF Witness, Division, Shift, CompareEq, CompareGe, Moves, Jump, Output
    <3>. QED  BY <2>1, <3>1 DEF ToBit
  <2>2. CASE op = "SW"
    <3>. DEFINE stored == [Blank(in) EXCEPT !.isMemOp = 1, !.value = in.dest,
                                            !.address = in.arg2]
    <3>1. Witness("SW", in, loaded) = stored
      BY DEF Witness, Division, Shift, CompareEq, CompareGe, Moves, Jump, Output
    <3>2. load = 0 /\ value = in.dest
      BY <2>2 DEF ToBit
    <3>. HIDE DEF load, value
    <3>3. stored = out
      BY <1>1, <3>2 DEF IsOutput, ColumnNames
    <3>. QED  BY <2>2, <3>1, <3>3
  <2>. QED  BY <2>1, <2>2
<1>3. value \in Word /\ value \in Int /\ load \in Int /\ in.arg2 \in Word /\ in.arg2 \in Int
  BY WordsAreNumbers DEF IsInput
<1>4. load = ToBit(op = "LW") /\ (op = "SW" => value = in.dest) /\ (op = "LW" => value = loaded)
  OBVIOUS
<1>. HIDE DEF value, load
<1>5. IsOutput(out)
  <2>1. out \in [ColumnNames -> Int]
    <3>1. Blank(in) \in [ColumnNames -> Int]
      BY <1>1 DEF IsOutput
    <3>2. \A f \in [ColumnNames -> Int], v \in Int :
            /\ [f EXCEPT !.isMemOp = v] \in [ColumnNames -> Int]
            /\ [f EXCEPT !.isLoad = v] \in [ColumnNames -> Int]
            /\ [f EXCEPT !.value = v] \in [ColumnNames -> Int]
            /\ [f EXCEPT !.address = v] \in [ColumnNames -> Int]
      OBVIOUS
    <3>3. 1 \in Int
      OBVIOUS
    <3>. QED  BY <1>3, <3>1, <3>2, <3>3, Zenon
  <2>2. /\ out.result = Blank(in).result /\ out.flag = Blank(in).flag
        /\ out.value = value /\ out.address = in.arg2
    BY <1>1 DEF IsOutput, ColumnNames
  <2>. HIDE DEF out
  <2>. QED  BY <1>1, <1>3, <2>1, <2>2 DEF IsOutput
<1>6. /\ out.isMemOp = 1 /\ out.isLoad = load /\ out.value = value /\ out.address = in.arg2
      /\ out.flag = in.flag
  BY <1>1 DEF IsOutput, ColumnNames
<1>. HIDE DEF out
<1>7. SaysOfMemory(op, in, loaded, out)
  BY <1>4, <1>6 DEF SaysOfMemory, ToBit
<1>8. Satisfied(op, c, out)
  BY <1>4, <1>6 DEF Satisfied, Sees, Bitwise, Product, Division, Shift, Equality, Ordering,
            CompareGe, Branch, Jump, Moves, NoMemory, Opcodes, Output, SetOn
<1>. QED  BY <1>2, <1>5, <1>6, <1>7, <1>8 DEF RowOk

\* The digits of a multiple of the word length that count a shift are 0.
LEMMA NothingToCount ==
    ASSUME NEW v \in Word, NEW i \in Index, 2^(i + 1) <= W
    PROVE  Unpack(v - (v % W))[i] = 0
<1>1. PICK k \in Nat : W = 2^k
  BY MachineAssumption, WordLength
<1>2. W \in Nat /\ W > 0 /\ i \in Nat /\ i + 1 \in Nat
  BY WordLength DEF Index
<1>3. i + 1 <= k
  <2>1. CASE k < i + 1
    <3>1. 2 * 2^k <= 2^(i + 1)
      BY <1>1, <1>2, <2>1, PowerMonotone
    <3>. QED  BY <1>1, <1>2, <3>1
  <2>. QED  BY <1>2, <2>1
<1>. DEFINE e == k - (i + 1)
            a == 2^i
            b == 2^e
            q == v \div W
<1>4. e \in Nat /\ k = (i + 1) + e
  BY <1>2, <1>3
<1>5. W = 2^(i + 1) * b /\ 2^(i + 1) = a + a
  <2>. HIDE DEF e
  <2>. QED  BY <1>1, <1>2, <1>4, PowerSum, PowerStep
<1>6. a \in Nat /\ a > 0 /\ b \in Nat /\ b > 0
  <2>. HIDE DEF e
  <2>. QED  BY <1>2, <1>4, PowerPositive
<1>7. q \in Nat /\ v - (v % W) = W * q
  <2>1. v \in Nat
    BY WordsAreNumbers
  <2>2. q \in Nat /\ v % W \in 0..W - 1 /\ v = W * q + (v % W)
    BY <1>2, <2>1, Quotient
  <2>. HIDE DEF q
  <2>3. W * q \in Nat
    BY <1>2, <2>2
  <2>. QED  BY <1>2, <2>1, <2>2, <2>3
<1>. HIDE DEF e, a, b, q
<1>. DEFINE n == b * q
<1>8. n \in Nat /\ W * q = a * (2 * n) + 0
  <2>1. n \in Nat
    BY <1>6, <1>7
  <2>2. W = (a + a) * b
    BY <1>5
  <2>3. W * q = (a + a) * n
    BY <1>6, <1>7, <2>2
  <2>. HIDE DEF n
  <2>. QED  BY <1>6, <2>1, <2>3
<1>. HIDE DEF n
<1>. DEFINE m == 2 * n
<1>9. m \in Nat /\ m % 2 = 0
  BY <1>8
<1>10. (a * m + 0) \div a = m
  <2>. HIDE DEF m
  <2>1. 0 \in 0..a - 1
    BY <1>6
  <2>. QED  BY <1>6, <1>9, <2>1, QuotientUnique
<1>11. ((v - (v % W)) \div 2^i) % 2 = 0
  BY <1>7, <1>8, <1>9, <1>10 DEF a
<1>. QED  BY <1>11 DEF Unpack

LEMMA ShiftCompletes == \A op \in Shift : Completes(op)
<1>. SUFFICES ASSUME NEW op \in Shift,
                     NEW in, NEW c, NEW loaded, IsInput(in), Sees(c, in), loaded \in Word
              PROVE  RowOk(op, in, loaded, c, Witness(op, in, loaded))
  BY DEF Completes
<1>. DEFINE double == Shifted(op, in)
            rem == Remainder(in)
            res == IF op = "SHL" THEN Low(double) ELSE High(double)
            bit == IF op = "SHL" THEN in.arg1 \div 2^(W-1) ELSE in.arg1 % 2
            out == [[Blank(in) EXCEPT !.u1 = Low(double), !.u2 = High(double)] EXCEPT
                      !.result = res, !.flag = bit, !.aux1 = double, !.inv2 = rem]
<1>1. Witness(op, in, loaded) = out
  BY DEF Witness, Division, Shift, CompareEq, CompareGe, Moves, Jump, Output
<1>2. rem \in Int /\ double \in Int
  <2>1. in.arg1 \in Nat /\ in.arg2 \in Nat /\ W \in Nat /\ W > 0
    <3>1. in.arg1 \in Nat /\ in.arg2 \in Nat
      BY WordsAreNumbers DEF IsInput
    <3>. QED  BY <3>1, WordLengthAssumption
  <2>. DEFINE amount == ShiftAmount(in)
  <2>2. amount \in 0..W - 1
    <3>1. in.arg2 % W \in 0..W - 1
      BY <2>1
    <3>. QED  BY <3>1 DEF ShiftAmount
  <2>. HIDE DEF amount
  <2>3. amount \in Nat /\ W - amount \in Nat
    BY <2>1, <2>2
  <2>4. 2^amount \in Nat /\ 2^(W - amount) \in Nat
    BY <2>3, PowerPositive
  <2>5. in.arg1 * 2^amount \in Int /\ in.arg1 * 2^(W - amount) \in Int
    BY <2>1, <2>4
  <2>6. double \in Int
    BY <2>5 DEF Shifted, amount
  <2>. QED  BY <2>1, <2>3, <2>6 DEF Remainder, amount
<1>3. bit \in Bit /\ bit \in Int
  <2>1. in.arg1 \in Nat /\ in.arg1 \in 0..2 * 2^(W - 1) - 1
    BY WordLength, WordsAreNumbers DEF IsInput, Word
  <2>2. in.arg1 \div 2^(W - 1) \in 0..2 - 1
    BY <2>1, WordLength, QuotientBelow
  <2>3. in.arg1 % 2 \in 0..2 - 1
    BY <2>1
  <2>. QED  BY <2>2, <2>3 DEF Bit
<1>4. /\ Low(double) \in Word /\ High(double) \in Word /\ Low(double) \in Int
      /\ High(double) \in Int /\ res \in Word /\ res \in Int
  <2>. HIDE DEF double
  <2>. QED  BY <1>2, LowAndHigh
<1>5. IsOutput(Blank(in)) /\ Blank(in).isMemOp = 0 /\ Blank(in).isLoad = 0
  BY BlankRow
<1>6. res = IF op = "SHL" THEN Low(double) ELSE High(double)
  OBVIOUS
<1>. HIDE DEF rem, res, bit, double
<1>7. IsOutput(out)
  BY <1>2, <1>3, <1>4, <1>5 DEF IsOutput, ColumnNames
<1>8. /\ out.u1 = Low(double) /\ out.u2 = High(double) /\ out.result = res /\ out.flag = bit
      /\ out.aux1 = double /\ out.inv2 = rem /\ out.isMemOp = 0 /\ out.isLoad = 0
  BY <1>5 DEF IsOutput, ColumnNames
<1>9. op \notin LeavesFlag /\ op \notin {"SW", "LW"}
  BY DEF LeavesFlag, Jump, Moves, Output, SetOn, Shift
<1>. HIDE DEF out
<1>10. ShiftConstraints(op, c, out)
  <2>1. Remainder(c) = rem /\ Shifted(op, c) = double
    BY DEF Sees, Remainder, Shifted, ShiftAmount, rem, double
  <2>2. \A i \in Index : 2^(i + 1) <= W => Unpack(rem)[i] = 0
    <3>1. rem = in.arg2 - (in.arg2 % W)
      BY DEF rem, Remainder, ShiftAmount
    <3>. QED  BY <3>1, NothingToCount DEF IsInput
  <2>3. Inverts(rem, out.inv2)
    BY <1>8 DEF Inverts, InvTimes
  <2>. QED  BY <1>3, <1>6, <1>8, <2>1, <2>2, <2>3 DEF ShiftConstraints
<1>11. Satisfied(op, c, out)
  BY <1>8, <1>10 DEF Satisfied, Bitwise, Product, Division, Shift, Equality, Ordering,
            CompareGe, Branch, Jump, Moves, NoMemory, Opcodes, Output, SetOn
<1>. QED  BY <1>1, <1>7, <1>8, <1>9, <1>11, NoMemorySaid DEF RowOk

\* Together: the arithmetic unit is complete, but for the NOT of all ones.
LEMMA UnitCompletes == \A op \in Opcodes : Completes(op)
BY XorCompletes, NotCompletes, AndOrCompletes, AddCompletes, SubCompletes, MultCompletes,
   UmulhCompletes, SmulhCompletes, DivisionCompletes, ShiftCompletes, CompareEqCompletes,
   BranchEqCompletes, SetEqCompletes, CompareGeCompletes, BranchLessCompletes,
   SetLessCompletes, MoveCompletes, OutputCompletes, MemoryCompletes
   DEF Opcodes, Bitwise, Product, Branch, SetOn

-----------------------------------------------------------------------------
(* The state of a run: its types. *)

TraceLine == [pc : Nat, flag : Bit, time : Nat, regs : [Regs -> Word]]
Columns   == {out \in [ColumnNames -> Int] : IsOutput(out)}
TraceRow  == [first : TraceLine, arg1 : Word, arg2 : Word, dest : Word, out : Columns,
              spare : Word]

Started == \E r \in Runs : program = r[1] /\ tape = r[2]

Typed ==
  /\ t \in FirstT .. LastT
  /\ first \in TraceLine /\ first.pc < 2^PcLength
  /\ table \in Seq(TraceRow) /\ first.time = Made /\ Made <= Rows
  /\ secread_cnt \in Nat /\ secread_cnt <= Len(tape)
  /\ memory \in [DOMAIN memory -> Word] /\ DOMAIN memory \subseteq Word
  /\ found_answer \in BOOLEAN /\ answer \in Word \cup {-1}
  /\ mode = "rows" => OperandsExist

LEMMA StartedTyped ==
    Started => /\ program \in Seq(InstructionSet) /\ tape \in Seq(Word)
               /\ Len(program) \in Nat /\ Len(program) > 0
               /\ PcLength \in Nat /\ 2^PcLength \in Nat /\ 2^PcLength > 0
               /\ Len(program) <= 2^PcLength
<1>. SUFFICES ASSUME Started
              PROVE  /\ program \in Seq(InstructionSet) /\ tape \in Seq(Word)
                     /\ Len(program) \in Nat /\ Len(program) > 0
                     /\ PcLength \in Nat /\ 2^PcLength \in Nat /\ 2^PcLength > 0
                     /\ Len(program) <= 2^PcLength
  OBVIOUS
<1>1. /\ program \in Seq(InstructionSet) /\ tape \in Seq(Word)
      /\ Len(program) \in Nat /\ Len(program) > 0
  BY RunsAssumption DEF Started
<1>. DEFINE n == Len(program)
            T == {k \in Nat : k >= 1 /\ n <= 2^k}
<1>2. n \in T
  BY <1>1, BelowPower, PowerPositive
<1>3. PICK k \in T : \A m \in T : k <= m
  <2>1. T \subseteq Nat /\ T # {}
    BY <1>2
  <2>. QED  BY <2>1, LeastNatural
<1>4. k \in 1..n /\ n <= 2^k
  BY <1>1, <1>2, <1>3
<1>5. k = 1 \/ n > 2^(k - 1)
  <2>. SUFFICES ASSUME k # 1, ~ (n > 2^(k - 1)) PROVE FALSE
    OBVIOUS
  <2>1. k - 1 \in Nat /\ k - 1 >= 1 /\ 2^(k - 1) \in Nat
    BY <1>4, PowerPositive
  <2>2. k - 1 \in T
    BY <1>1, <2>1
  <2>. QED  BY <1>3, <1>4, <2>2
<1>6. PcLength \in 1..n /\ n <= 2^PcLength
  BY <1>4, <1>5 DEF PcLength
<1>7. PcLength \in Nat
  BY <1>1, <1>6
<1>. QED  BY <1>1, <1>6, <1>7, PowerPositive

\* A remainder is below what is divided by, of the program counter as well.
LEMMA Remains == \A v \in Int, d \in Nat : d > 0 => v % d \in Nat /\ v % d < d
OBVIOUS

\* The registers an instruction finds, and its operands.
LEMMA OperandsTyped ==
    ASSUME NEW ins \in InstructionSet, Started, Typed, Named(ins) \subseteq Regs,
           ~TapeExhausted(ins), ~MovesNothing(ins)
    PROVE  /\ RegsRead(ins) \in [Regs -> Word]
           /\ Arg2(ins, RegsRead(ins)) \in Word
           /\ ins.arg1 \in Regs /\ ins.dest \in Regs
<1>. DEFINE regs == RegsRead(ins)
<1>1. /\ ins.op \in Opcodes /\ ins.dest \in Nat /\ ins.arg1 \in Nat /\ ins.arg2 \in Int
      /\ ins.imm \in BOOLEAN /\ ins.imm1 \in BOOLEAN
  BY DEF InstructionSet
<1>2. ins.arg1 \in Regs /\ ins.dest \in Regs
  BY DEF Named
<1>3. first.regs \in [Regs -> Word]
  BY DEF Typed, TraceLine
<1>4. SECREAD_REGISTER \in Regs
  BY MachineAssumption DEF SECREAD_REGISTER, Regs
<1>5. regs \in [Regs -> Word]
  <2>1. CASE Reads(ins)
    <3>1. TapePosition(ins) \in Nat
      BY <1>1, <1>2, <1>3, WordsAreNumbers DEF TapePosition, Typed
    <3>2. TapePosition(ins) < Len(tape) /\ tape \in Seq(Word) /\ Len(tape) \in Nat
      BY <2>1, <3>1, StartedTyped DEF TapeExhausted
    <3>3. TapePosition(ins) + 1 \in 1..Len(tape)
      BY <3>1, <3>2
    <3>4. tape[TapePosition(ins) + 1] \in Word
      BY <3>2, <3>3
    <3>. QED  BY <1>3, <2>1, <3>4 DEF RegsRead
  <2>2. CASE ~Reads(ins)
    BY <1>3, <2>2 DEF RegsRead
  <2>. QED  BY <2>1, <2>2
<1>6. Arg2(ins, regs) \in Word
  <2>1. CASE Reads(ins)
    <3>1. Arg2(ins, regs) = regs[SECREAD_REGISTER]
      BY <2>1 DEF Arg2, Reads
    <3>. QED  BY <1>4, <1>5, <3>1
  <2>2. CASE ~Reads(ins) /\ ins.op = "REGMOVE" /\ ins.imm
    <3>1. Arg2(ins, regs) = regs[ins.arg2 + ReservedRegs]
      BY <2>2 DEF Arg2
    <3>2. ins.arg2 + ReservedRegs \in Regs
      BY <2>2 DEF Named
    <3>. QED  BY <1>5, <3>1, <3>2
  <2>3. CASE ~Reads(ins) /\ ins.op = "REGMOVE" /\ ~ins.imm
    <3>1. Arg2(ins, regs) = regs[Low16(regs[ins.arg2]) + ReservedRegs] /\ regs = first.regs
      BY <2>3 DEF Arg2, RegsRead
    <3>2. Low16(first.regs[ins.arg2]) + ReservedRegs \in Regs
      BY <2>3 DEF MovesNothing
    <3>. QED  BY <1>3, <3>1, <3>2
  <2>4. CASE ~Reads(ins) /\ ins.op # "REGMOVE" /\ ins.imm
    <3>1. Arg2(ins, regs) = ins.arg2 % 2^W
      BY <2>4 DEF Arg2
    <3>. QED  BY <1>1, <3>1, WordLength
  <2>5. CASE ~Reads(ins) /\ ins.op # "REGMOVE" /\ ~ins.imm
    <3>1. Arg2(ins, regs) = regs[ins.arg2]
      BY <2>5 DEF Arg2
    <3>2. ins.arg2 \in Regs
      BY <2>5 DEF Named
    <3>. QED  BY <1>5, <3>1, <3>2
  <2>. QED  BY <1>1, <2>1, <2>2, <2>3, <2>4, <2>5
<1>. QED  BY <1>2, <1>5, <1>6

-----------------------------------------------------------------------------
(* One row. *)

\* What the constraints ask of a row beyond what its components see to: that a
\* jump goes to where the operand says, and no NOT is refused.
Agrees(r) ==
  LET ins == Instr(r.first.pc)
  IN  /\ ~Refused(ins.op, r)
      /\ Jumps(ins.op, r.first.flag, r.out.flag) =>
           /\ r.arg2 < 2^PcLength
           /\ ins.imm => ins.arg2 \in Word

LEMMA RowInput ==
    ASSUME Started, Typed, NEW ins \in InstructionSet, Named(ins) \subseteq Regs,
           ~TapeExhausted(ins), ~MovesNothing(ins), ~LoadsNothing(ins),
           NEW in, in = [arg1 |-> RegsRead(ins)[ins.arg1], arg2 |-> Arg2(ins, RegsRead(ins)),
                         dest |-> RegsRead(ins)[ins.dest], flag |-> first.flag,
                         left |-> LastResult],
           NEW loaded, loaded = IF ins.op = "LW" THEN memory[in.arg2] ELSE 0
    PROVE  IsInput(in) /\ loaded \in Word
<1>1. /\ RegsRead(ins) \in [Regs -> Word] /\ Arg2(ins, RegsRead(ins)) \in Word
      /\ ins.arg1 \in Regs /\ ins.dest \in Regs
  BY OperandsTyped
<1>2. first.flag \in Bit
  BY DEF Typed, TraceLine
<1>3. LastResult \in Word
  <2>1. CASE Made = 0
    BY <2>1, WordLength DEF LastResult
  <2>2. CASE Made # 0
    <3>1. table \in Seq(TraceRow) /\ Made \in Nat
      BY DEF Typed, Made
    <3>2. table[Made] \in TraceRow
      BY <2>2, <3>1 DEF Made
    <3>3. table[Made].out.result \in Word
      BY <3>2 DEF TraceRow, Columns, IsOutput
    <3>. QED  BY <2>2, <3>3 DEF LastResult
  <2>. QED  BY <2>1, <2>2
<1>4. IsInput(in)
  BY <1>1, <1>2, <1>3 DEF IsInput
<1>5. loaded \in Word
  <2>1. CASE ins.op = "LW"
    <3>1. RegsRead(ins) = first.regs
      BY <2>1 DEF RegsRead, Reads
    <3>2. in.arg2 \in DOMAIN memory
      BY <2>1, <3>1 DEF LoadsNothing
    <3>. QED  BY <2>1, <3>2 DEF Typed
  <2>2. CASE ins.op # "LW"
    BY <2>2, WordLength
  <2>. QED  BY <2>1, <2>2
<1>. QED  BY <1>4, <1>5

\* The row made, of the right shape, ...
LEMMA RowTyped ==
    ASSUME Started, Typed, NEW ins \in InstructionSet, Named(ins) \subseteq Regs,
           ~TapeExhausted(ins), ~MovesNothing(ins), ~LoadsNothing(ins),
           NEW r, r = RowOf(ins)
    PROVE  /\ Kept(r) \in TraceRow /\ r.first \in TraceLine /\ r.next \in TraceLine
           /\ r.first = [first EXCEPT !.regs = RegsRead(ins)]
           /\ r.next.pc < 2^PcLength
           /\ r.next.time = first.time + 1 /\ r.next.flag = r.out.flag
           /\ r.arg1 = RegsRead(ins)[ins.arg1] /\ r.arg2 = Arg2(ins, RegsRead(ins))
           /\ r.dest = RegsRead(ins)[ins.dest]
           /\ r.next.pc = NextPc(ins, RegsRead(ins), first.flag, r.out.flag)
           /\ r.next.regs = NextRegs(ins, RegsRead(ins), r.out)
           /\ r.arg2 \in Word /\ r.out.address \in Word /\ r.out.value \in Word
           /\ SaysOfMemory(ins.op, r, IF ins.op = "LW" THEN memory[r.arg2] ELSE 0, r.out)
<1>. DEFINE regs == RegsRead(ins)
            in == [arg1 |-> regs[ins.arg1], arg2 |-> Arg2(ins, regs),
                   dest |-> regs[ins.dest], flag |-> first.flag, left |-> LastResult]
            loaded == IF ins.op = "LW" THEN memory[in.arg2] ELSE 0
            out == Witness(ins.op, in, loaded)
            pc == NextPc(ins, regs, first.flag, out.flag)
            next == NextRegs(ins, regs, out)
<1>1. /\ regs \in [Regs -> Word] /\ Arg2(ins, regs) \in Word
      /\ ins.arg1 \in Regs /\ ins.dest \in Regs
  BY OperandsTyped
<1>2. IsInput(in) /\ loaded \in Word
  BY RowInput
<1>3. r = [first |-> [first EXCEPT !.regs = regs],
           arg1 |-> in.arg1, arg2 |-> in.arg2, dest |-> in.dest, out |-> out,
           next |-> [pc |-> pc, flag |-> out.flag, time |-> first.time + 1, regs |-> next]]
  BY DEF RowOf
<1>4. RowOk(ins.op, in, loaded, in, out)
  <2>. HIDE DEF in, loaded
  <2>. QED  BY <1>2, UnitCompletes DEF Completes, InstructionSet, Sees
<1>5. IsOutput(out) /\ SaysOfMemory(ins.op, in, loaded, out)
  BY <1>4 DEF RowOk
<1>6. in.arg1 = regs[ins.arg1] /\ in.arg2 = Arg2(ins, regs) /\ in.dest = regs[ins.dest]
  OBVIOUS
<1>7. SaysOfMemory(ins.op, r, loaded, out)
  <2>. HIDE DEF in, out, loaded
  <2>1. r.arg2 = in.arg2 /\ r.dest = in.dest
    BY <1>3
  <2>. QED  BY <1>5, <2>1 DEF SaysOfMemory
<1>8. loaded = IF ins.op = "LW" THEN memory[Arg2(ins, regs)] ELSE 0
  OBVIOUS
<1>. HIDE DEF in, out, loaded, regs
<1>9. pc \in Nat /\ pc < 2^PcLength
  <2>1. first.pc \in Nat
    BY DEF Typed, TraceLine
  <2>2. 2^PcLength \in Nat /\ 2^PcLength > 0
    BY StartedTyped
  <2>3. Target(ins, regs) \in Int \/ ~Jumps(ins.op, first.flag, out.flag)
    <3>. SUFFICES ASSUME Jumps(ins.op, first.flag, out.flag) PROVE Target(ins, regs) \in Int
      OBVIOUS
    <3>1. ins.op \in Jump \cup Branch
      BY DEF Jumps, Jump
    <3>2. ~Reads(ins) /\ ins.op # "REGMOVE"
      BY <3>1 DEF Reads, Jump, Branch
    <3>3. CASE ins.imm
      BY <3>3 DEF Target, InstructionSet
    <3>4. CASE ~ins.imm
      <4>1. ins.arg2 \in Regs
        BY <3>2, <3>4 DEF Named
      <4>2. regs[ins.arg2] \in Int
        BY <1>1, <4>1, WordsAreNumbers
      <4>. QED  BY <2>2, <3>4, <4>2, Remains DEF Target
    <3>. QED  BY <3>3, <3>4
  <2>. DEFINE v == IF Jumps(ins.op, first.flag, out.flag) THEN Target(ins, regs)
                   ELSE IF Stays(ins.op) THEN first.pc ELSE first.pc + 1
  <2>4. v \in Int /\ pc = v % 2^PcLength
    BY <2>1, <2>3 DEF NextPc
  <2>. HIDE DEF v, pc
  <2>. QED  BY <2>2, <2>4, Remains
<1>10. next \in [Regs -> Word]
  BY <1>1, <1>5 DEF NextRegs, IsOutput
<1>. HIDE DEF pc, next
<1>11. /\ first \in TraceLine /\ first.flag \in Bit /\ first.time \in Nat
       /\ [first EXCEPT !.regs = regs] \in TraceLine
  BY <1>1 DEF Typed, TraceLine
<1>12. r.next \in TraceLine
  <2>1. out.flag \in Bit /\ first.time + 1 \in Nat
    BY <1>5, <1>11 DEF IsOutput
  <2>. QED  BY <1>3, <1>9, <1>10, <2>1 DEF TraceLine
<1>13. Kept(r) \in TraceRow
  <2>1. out \in Columns
    BY <1>5 DEF IsOutput, Columns
  <2>2. next[SECREAD_REGISTER] \in Word
    BY <1>10, MachineAssumption DEF Regs, SECREAD_REGISTER
  <2>3. in.arg1 \in Word /\ in.arg2 \in Word /\ in.dest \in Word
    BY <1>2 DEF IsInput
  <2>. QED  BY <1>3, <1>11, <2>1, <2>2, <2>3 DEF Kept, TraceRow
<1>14. /\ r.arg2 \in Word /\ r.out.address \in Word /\ r.out.value \in Word
  BY <1>1, <1>3, <1>5, <1>6 DEF IsOutput
<1>15. SaysOfMemory(ins.op, r, IF ins.op = "LW" THEN memory[r.arg2] ELSE 0, r.out)
  <2>1. r.out = out /\ r.arg2 = Arg2(ins, regs)
    BY <1>3, <1>6
  <2>. QED  BY <1>7, <1>8, <2>1
<1>. QED  BY <1>3, <1>6, <1>9, <1>11, <1>12, <1>13, <1>14, <1>15 DEF regs, pc, next

\* ... satisfies its constraints, with what comes after it.
LEMMA RowComplete ==
    ASSUME Started, Typed, first.pc < Len(program), NEW ins, ins = Instr(first.pc),
           ins \in InstructionSet, Named(ins) \subseteq Regs,
           ~TapeExhausted(ins), ~MovesNothing(ins), ~LoadsNothing(ins),
           NEW r, r = RowOf(ins), Agrees(Kept(r))
    PROVE  RowHolds(r)
<1>. DEFINE regs == RegsRead(ins)
            loaded == IF ins.op = "LW" THEN memory[r.arg2] ELSE 0
            in == [arg1 |-> regs[ins.arg1], arg2 |-> Arg2(ins, regs),
                   dest |-> regs[ins.dest], flag |-> first.flag, left |-> LastResult]
            seen == [arg1 |-> r.arg1, arg2 |-> r.arg2, dest |-> r.dest, flag |-> r.first.flag]
<1>1. /\ Kept(r) \in TraceRow
      /\ r.first = [first EXCEPT !.regs = regs] /\ r.next.pc < 2^PcLength
      /\ r.next.time = first.time + 1 /\ r.next.flag = r.out.flag
      /\ r.arg1 = regs[ins.arg1] /\ r.arg2 = Arg2(ins, regs) /\ r.dest = regs[ins.dest]
      /\ r.next.pc = NextPc(ins, regs, first.flag, r.out.flag)
      /\ r.next.regs = NextRegs(ins, regs, r.out) /\ r.arg2 \in Word
  BY RowTyped
<1>2. /\ regs \in [Regs -> Word] /\ ins.arg1 \in Regs /\ ins.dest \in Regs
  BY OperandsTyped
<1>3. /\ r.first.pc = first.pc /\ r.first.flag = first.flag /\ r.first.time = first.time
      /\ r.first.regs = regs /\ first.pc \in Nat /\ first.pc < 2^PcLength
      /\ 2^PcLength \in Nat /\ 2^PcLength > 0
  BY <1>1, StartedTyped DEF Typed, TraceLine
<1>4. r.out = Witness(ins.op, in, loaded)
  BY DEF RowOf
<1>5. IsInput(in) /\ loaded \in Word
  <2>1. r.arg2 = in.arg2
    BY <1>1
  <2>. QED  BY <2>1, RowInput
<1>6. Sees(seen, in)
  BY <1>1, <1>3 DEF Sees
<1>7. /\ Kept(r).first = r.first /\ Kept(r).out = r.out /\ Kept(r).arg1 = r.arg1
      /\ Kept(r).arg2 = r.arg2
  BY DEF Kept
<1>8. ~Refused(ins.op, in)
  BY <1>1, <1>3, <1>7 DEF Agrees, Refused
<1>9. Satisfied(ins.op, seen, r.out)
  <2>. HIDE DEF seen, in, loaded
  <2>. QED  BY <1>4, <1>5, <1>6, <1>8, UnitCompletes DEF Completes, RowOk, InstructionSet
<1>10. r.out.result = r.arg2 \/ ins.op \notin Jump \cup Branch
  <2>. SUFFICES ASSUME ins.op \in Jump \cup Branch PROVE r.out.result = r.arg2
    OBVIOUS
  <2>1. r.arg2 = in.arg2 /\ IsOutput(Blank(in))
    BY <1>1, <1>5, BlankRow
  <2>. HIDE DEF in
  <2>. QED  BY <1>4, <2>1
            DEF Witness, Division, Shift, CompareEq, CompareGe, Moves, Jump, Branch, Output,
                IsOutput, ColumnNames
<1>11. InputsHold(r, ins)
  BY <1>1, <1>3 DEF InputsHold
<1>12. PcHolds(r, ins)
  <2>1. CASE Jumps(ins.op, first.flag, r.out.flag)
    <3>1. ins.op \in Jump \cup Branch
      BY <2>1 DEF Jumps, Jump
    <3>2. r.arg2 < 2^PcLength /\ (ins.imm => ins.arg2 \in Word)
      BY <1>3, <1>7, <2>1 DEF Agrees
    <3>3. ~Reads(ins) /\ ins.op # "REGMOVE"
      BY <3>1 DEF Reads, Jump, Branch
    <3>4. r.arg2 = IF ins.imm THEN ins.arg2 ELSE regs[ins.arg2]
      <4>1. r.arg2 = IF ins.imm THEN ins.arg2 % 2^W ELSE regs[ins.arg2]
        BY <1>1, <3>3 DEF Arg2
      <4>2. ins.imm => ins.arg2 % 2^W = ins.arg2
        BY <3>2, LowAndHigh DEF Low
      <4>. QED  BY <4>1, <4>2
    <3>5. r.arg2 \in Nat
      BY <1>1, WordsAreNumbers
    <3>6. \A v \in Nat, d \in Nat : v < d => v % d = v /\ (v % d) % d = v
      OBVIOUS
    <3>7. r.arg2 % 2^PcLength = r.arg2 /\ (r.arg2 % 2^PcLength) % 2^PcLength = r.arg2
      BY <1>3, <3>2, <3>5, <3>6
    <3>8. Target(ins, regs) % 2^PcLength = r.arg2
      BY <3>4, <3>7 DEF Target
    <3>9. r.next.pc = r.out.result
      BY <1>1, <1>10, <2>1, <3>1, <3>8 DEF NextPc
    <3>. QED  BY <1>1, <1>3, <2>1, <3>9 DEF PcHolds
  <2>2. CASE ~Jumps(ins.op, first.flag, r.out.flag) /\ Stays(ins.op)
    <3>1. first.pc % 2^PcLength = first.pc
      BY <1>3
    <3>2. r.next.pc = first.pc
      BY <1>1, <2>2, <3>1 DEF NextPc
    <3>. QED  BY <1>1, <1>3, <2>2, <3>2 DEF PcHolds
  <2>3. CASE ~Jumps(ins.op, first.flag, r.out.flag) /\ ~Stays(ins.op)
    <3>1. r.next.pc = (first.pc + 1) % 2^PcLength
      BY <1>1, <2>3 DEF NextPc
    <3>. QED  BY <1>1, <1>3, <2>3, <3>1 DEF PcHolds
  <2>. QED  BY <2>1, <2>2, <2>3
<1>13. RegistersHold(r, ins)
  <2>. DEFINE res == r.out.result
              val == r.out.value
              next == r.next.regs
  <2>1. "LW" \notin WritesResult
    BY DEF WritesResult, Moves, Bitwise, Product, Division, Shift, SetOn
  <2>2. /\ ins.op \in WritesResult => next = [regs EXCEPT ![ins.dest] = res]
        /\ ins.op \notin WritesResult /\ ins.op = "LW" => next = [regs EXCEPT ![ins.dest] = val]
        /\ ins.op \notin WritesResult /\ ins.op # "LW" => next = regs
    <3>1. next = NextRegs(ins, regs, r.out)
      BY <1>1
    <3>. HIDE DEF next, regs
    <3>. QED  BY <2>1, <3>1 DEF NextRegs
  <2>. HIDE DEF res, val, next, regs
  <2>3. ASSUME NEW i \in Regs
        PROVE  next[i] = IF i = ins.dest /\ ins.op \in WritesResult THEN res
                         ELSE IF i = ins.dest /\ ins.op = "LW" THEN val
                         ELSE regs[i]
    BY <1>2, <2>1, <2>2
  <2>. QED  BY <1>3, <2>3 DEF RegistersHold, res, val, next
<1>. QED  BY <1>1, <1>3, <1>9, <1>11, <1>12, <1>13 DEF RowHolds

\* Two rows that differ in nothing their constraints look at.
Alike(a, b) ==
  /\ a.first = b.first /\ a.arg1 = b.arg1 /\ a.arg2 = b.arg2 /\ a.dest = b.dest
  /\ a.next.pc = b.next.pc /\ a.next.flag = b.next.flag /\ a.next.time = b.next.time
  /\ \A i \in Regs : a.next.regs[i] = b.next.regs[i]
  /\ a.out.result = b.out.result /\ a.out.flag = b.out.flag /\ a.out.value = b.out.value
  /\ a.out.isMemOp = b.out.isMemOp /\ a.out.isLoad = b.out.isLoad
  /\ a.out = b.out \/ Instr(a.first.pc).op \in {"SW", "LW"}

LEMMA AlikeHold ==
    ASSUME NEW a, NEW b, Alike(a, b), RowHolds(a)
    PROVE  RowHolds(b)
<1>. DEFINE ins == Instr(a.first.pc)
            seen == [arg1 |-> a.arg1, arg2 |-> a.arg2, dest |-> a.dest, flag |-> a.first.flag]
<1>1. /\ InputsHold(a, ins) /\ Satisfied(ins.op, seen, a.out)
      /\ a.next.time = a.first.time + 1 /\ PcHolds(a, ins) /\ RegistersHold(a, ins)
  BY DEF RowHolds
<1>2. /\ Instr(b.first.pc) = ins
      /\ [arg1 |-> b.arg1, arg2 |-> b.arg2, dest |-> b.dest, flag |-> b.first.flag] = seen
  BY DEF Alike
<1>. HIDE DEF ins, seen
<1>3. InputsHold(b, ins)
  BY <1>1 DEF InputsHold, Alike
<1>4. PcHolds(b, ins)
  BY <1>1 DEF PcHolds, Alike
<1>5. RegistersHold(b, ins)
  BY <1>1 DEF RegistersHold, Alike
<1>6. Satisfied(ins.op, seen, b.out)
  <2>1. CASE a.out = b.out
    BY <1>1, <2>1
  <2>2. CASE ins.op \in {"SW", "LW"}
    <3>1. /\ a.out.isMemOp = b.out.isMemOp /\ a.out.isLoad = b.out.isLoad
          /\ a.out.flag = b.out.flag /\ a.out.value = b.out.value
      BY DEF Alike
    <3>. QED  BY <1>1, <2>2, <3>1
              DEF Satisfied, Bitwise, Product, Division, Shift, Equality, Ordering, CompareGe,
                  Branch, Jump, Moves, NoMemory, Opcodes, Output, SetOn
  <2>. QED  BY <2>1, <2>2 DEF Alike, ins
<1>7. b.next.time = b.first.time + 1
  BY <1>1 DEF Alike
<1>. QED  BY <1>2, <1>3, <1>4, <1>5, <1>6, <1>7 DEF RowHolds

-----------------------------------------------------------------------------
(* The rows of the table: each is what an instruction made it, and its     *)
(* constraints hold with the row after it.                                 *)

Following(i) == IF i < Made THEN table[i + 1].first ELSE first

RowMade(r) ==
  LET ins == Instr(r.first.pc)
  IN  r.first.pc < Len(program) /\ SaysOfMemory(ins.op, r, r.out.value, r.out)

Chained ==
  \A i \in 1 .. Made :
    /\ table[i].first.time = i - 1
    /\ RowMade(table[i])
    /\ Agrees(table[i]) => RowHolds(AssignmentOf(table[i], Following(i)))

-----------------------------------------------------------------------------
(* Sorting the rows. *)

\* What orders row q before row r.
Precedes(q, r) ==
  LET m == table[q].out.isMemOp
      n == table[r].out.isMemOp
      a == Low16(table[q].out.address)
      b == Low16(table[r].out.address)
  IN  \/ m = 1 /\ n = 0
      \/ m = 0 /\ n = 0 /\ q < r
      \/ m = 1 /\ n = 1 /\ (a < b \/ (a = b /\ q < r))

LEMMA TableRow ==
    ASSUME Started, Typed, Chained, NEW i \in 1..Made
    PROVE  /\ table[i] \in TraceRow /\ table[i].out \in Columns
           /\ table[i].out.isMemOp \in Bit /\ table[i].out.address \in Word
           /\ table[i].out.address \in Int /\ Low16(table[i].out.address) \in Int
           /\ table[i].first \in TraceLine /\ table[i].first.time = i - 1
           /\ Made \in Nat
<1>1. table[i] \in TraceRow /\ Made \in Nat
  BY DEF Typed, Made
<1>2. table[i].out.isMemOp \in Bit
  <2>1. RowMade(table[i])
    BY DEF Chained
  <2>. QED  BY <2>1 DEF RowMade, SaysOfMemory, ToBit, Bit
<1>3. table[i].out.address \in Word /\ table[i].out.address \in Int
  BY <1>1, WordsAreNumbers DEF TraceRow, Columns, IsOutput
<1>. QED  BY <1>1, <1>2, <1>3 DEF TraceRow, Low16, Chained

LEMMA SoonerPrecedes ==
    ASSUME Started, Typed, Chained, NEW q \in 1..Made, NEW r \in 1..Made
    PROVE  Sooner(MemoryTrace[q], MemoryTrace[r]) <=> Precedes(q, r)
<1>1. ASSUME NEW i \in 1..Made
      PROVE  /\ MemoryTrace[i].serial = i - 1 /\ MemoryTrace[i].time = i - 1
             /\ MemoryTrace[i].isMemOp = table[i].out.isMemOp
             /\ MemoryTrace[i].address = IF table[i].out.isMemOp = 1 THEN table[i].out.address
                                         ELSE 0
  BY TableRow DEF MemoryTrace
<1>. DEFINE x == MemoryTrace[q]
            y == MemoryTrace[r]
<1>2. /\ x.serial = q - 1 /\ x.time = q - 1 /\ x.isMemOp = table[q].out.isMemOp
      /\ y.serial = r - 1 /\ y.time = r - 1 /\ y.isMemOp = table[r].out.isMemOp
      /\ x.isMemOp = 1 => x.address = table[q].out.address
      /\ y.isMemOp = 1 => y.address = table[r].out.address
  BY <1>1
<1>3. /\ table[q].out.isMemOp \in Bit /\ table[r].out.isMemOp \in Bit
      /\ Low16(table[q].out.address) \in Int /\ Low16(table[r].out.address) \in Int
      /\ q \in Int /\ r \in Int
  BY TableRow
<1>. HIDE DEF x, y
<1>4. Sooner(x, y) <=> Precedes(q, r)
  BY <1>2, <1>3 DEF Sooner, Precedes, Bit
<1>. QED  BY <1>4 DEF x, y

LEMMA SortedTable ==
    ASSUME Started, Typed, Chained, NEW sorted, sorted = Sorted
    PROVE  /\ \A s \in 1..Made : /\ Place(sorted, s - 1) \in 1..Made
                                 /\ sorted[Place(sorted, s - 1)] = MemoryTrace[s]
           /\ \A i \in 1..Made : \E s \in 1..Made : Place(sorted, s - 1) = i
           /\ \A q, r \in 1..Made :
                Precedes(q, r) <=> Place(sorted, q - 1) < Place(sorted, r - 1)
<1>. DEFINE n == Made
            B == {pair \in (1..n) \X (1..n) : Precedes(pair[1], pair[2])}
            rank == RanksIn(B, n)
            At(i) == CHOOSE r \in 1..n : rank[r] = i - 1
<1>1. n \in Nat
  BY DEF Typed, Made
<1>2. \A q, r \in 1..n : <<q, r>> \in B <=> Precedes(q, r)
  OBVIOUS
<1>3. \A i \in 1..n : /\ table[i].out.isMemOp \in {0, 1} /\ Low16(table[i].out.address) \in Int
  BY TableRow DEF Bit
<1>4. \A q \in 1..n : <<q, q>> \notin B
  BY <1>2, <1>3 DEF Precedes
<1>5. \A q, r \in 1..n : q # r => <<q, r>> \in B \/ <<r, q>> \in B
  <2>. SUFFICES ASSUME NEW q \in 1..n, NEW r \in 1..n, q # r
                PROVE  Precedes(q, r) \/ Precedes(r, q)
    BY <1>2
  <2>1. q \in Int /\ r \in Int
    OBVIOUS
  <2>. QED  BY <1>3, <2>1 DEF Precedes
<1>6. \A q, r, u \in 1..n : <<q, r>> \in B /\ <<r, u>> \in B => <<q, u>> \in B
  <2>. SUFFICES ASSUME NEW q \in 1..n, NEW r \in 1..n, NEW u \in 1..n,
                       Precedes(q, r), Precedes(r, u)
                PROVE  Precedes(q, u)
    BY <1>2
  <2>1. q \in Int /\ r \in Int /\ u \in Int
    OBVIOUS
  <2>. QED  BY <1>3, <2>1 DEF Precedes
<1>7. Sorted = [i \in 1..n |-> MemoryTrace[At(i)]]
  <2>1. \A r \in 1..n : {q \in 1..n : Sooner(MemoryTrace[q], MemoryTrace[r])}
                          = {q \in 1..n : <<q, r>> \in B}
    BY <1>2, SoonerPrecedes
  <2>. DEFINE sooner == [r \in 1..n |-> Cardinality({q \in 1..n :
                                            Sooner(MemoryTrace[q], MemoryTrace[r])})]
  <2>2. sooner = rank
    BY <2>1 DEF RanksIn
  <2>3. Sorted = [i \in 1..n |-> MemoryTrace[CHOOSE r \in 1..n : sooner[r] = i - 1]]
    BY DEF Sorted
  <2>. HIDE DEF sooner, rank
  <2>. QED  BY <2>2, <2>3
<1>. HIDE DEF B
<1>8. /\ \A r \in 1..n : rank[r] \in 0..n - 1
      /\ \A q, r \in 1..n : <<q, r>> \in B <=> rank[q] < rank[r]
      /\ \A q, r \in 1..n : rank[q] = rank[r] => q = r
      /\ \A i \in 0..n - 1 : \E r \in 1..n : rank[r] = i
  <2>. HIDE DEF n
  <2>1. Orders(B, n)
    BY <1>4, <1>5, <1>6 DEF Orders
  <2>2. Ranks(rank, B, n)
    BY <1>1, <2>1, OrderRanks
  <2>. HIDE DEF rank
  <2>. QED  BY <2>2 DEF Ranks
<1>. HIDE DEF rank
<1>9. ASSUME NEW s \in 1..n PROVE rank[s] + 1 \in 1..n /\ At(rank[s] + 1) = s
  <2>1. rank[s] \in 0..n - 1 /\ (rank[s] + 1) - 1 = rank[s]
    BY <1>8
  <2>2. At(rank[s] + 1) \in 1..n /\ rank[At(rank[s] + 1)] = rank[s]
    BY <2>1
  <2>. QED  BY <1>1, <1>8, <2>1, <2>2
<1>10. ASSUME NEW i \in 1..n PROVE At(i) \in 1..n /\ rank[At(i)] + 1 = i
  <2>1. \E r \in 1..n : rank[r] = i - 1
    BY <1>1, <1>8
  <2>. QED  BY <2>1
<1>11. \A s \in 1..n : MemoryTrace[s].serial = s - 1
  BY TableRow DEF MemoryTrace
<1>12. ASSUME NEW s \in 1..n
       PROVE  Place(sorted, s - 1) = rank[s] + 1 /\ sorted[rank[s] + 1] = MemoryTrace[s]
  <2>. DEFINE p == rank[s] + 1
  <2>1. p \in 1..n /\ sorted[p] = MemoryTrace[s] /\ sorted[p].serial = s - 1
    BY <1>7, <1>9, <1>11
  <2>2. ASSUME NEW i \in 1..n, sorted[i].serial = s - 1 PROVE i = p
    <3>1. At(i) \in 1..n /\ sorted[i] = MemoryTrace[At(i)] /\ rank[At(i)] + 1 = i
      BY <1>7, <1>10
    <3>2. At(i) - 1 = s - 1
      BY <1>11, <2>2, <3>1
    <3>3. At(i) = s
      BY <3>1, <3>2
    <3>. QED  BY <3>1, <3>3
  <2>. HIDE DEF p
  <2>. QED  BY <2>1, <2>2 DEF Place, p
<1>13. ASSUME NEW i \in 1..n PROVE \E s \in 1..n : Place(sorted, s - 1) = i
  BY <1>10, <1>12
<1>14. ASSUME NEW q \in 1..n, NEW r \in 1..n
       PROVE  Precedes(q, r) <=> Place(sorted, q - 1) < Place(sorted, r - 1)
  <2>1. rank[q] \in Int /\ rank[r] \in Int
    BY <1>8
  <2>2. Precedes(q, r) <=> rank[q] < rank[r]
    BY <1>2, <1>8
  <2>3. Place(sorted, q - 1) = rank[q] + 1 /\ Place(sorted, r - 1) = rank[r] + 1
    BY <1>12
  <2>. QED  BY <2>1, <2>2, <2>3
<1>. QED  BY <1>9, <1>12, <1>13, <1>14

-----------------------------------------------------------------------------
(* A row and what follows it: what may change without its constraints      *)
(* noticing.                                                               *)

SameKept(r, q) ==
  /\ r.first = q.first /\ r.arg1 = q.arg1 /\ r.arg2 = q.arg2 /\ r.dest = q.dest
  /\ r.spare = q.spare
  /\ r.out.result = q.out.result /\ r.out.flag = q.out.flag /\ r.out.value = q.out.value
  /\ r.out.address = q.out.address
  /\ r.out.isMemOp = q.out.isMemOp /\ r.out.isLoad = q.out.isLoad
  /\ r = q \/ r.out.isMemOp = 1

SameLine(a, b) ==
  /\ a.pc = b.pc /\ a.flag = b.flag /\ a.time = b.time
  /\ \A i \in Regs \ {SECREAD_REGISTER} : a.regs[i] = b.regs[i]

LEMMA SameRowsAlike ==
    ASSUME NEW r \in TraceRow, NEW q \in TraceRow, SameKept(r, q), RowMade(r),
           NEW a \in TraceLine, NEW b \in TraceLine, SameLine(a, b)
    PROVE  Alike(AssignmentOf(r, a), AssignmentOf(q, b))
<1>. DEFINE x == AssignmentOf(r, a)
            y == AssignmentOf(q, b)
<1>1. /\ x.first = r.first /\ x.arg1 = r.arg1 /\ x.arg2 = r.arg2 /\ x.dest = r.dest
      /\ y.first = q.first /\ y.arg1 = q.arg1 /\ y.arg2 = q.arg2 /\ y.dest = q.dest
      /\ x.out = [r.out EXCEPT !.flag = a.flag] /\ y.out = [q.out EXCEPT !.flag = b.flag]
      /\ x.next = [a EXCEPT !.regs[SECREAD_REGISTER] = r.spare]
      /\ y.next = [b EXCEPT !.regs[SECREAD_REGISTER] = q.spare]
  BY DEF AssignmentOf
<1>. HIDE DEF x, y
<1>2. /\ x.next.pc = a.pc /\ x.next.flag = a.flag /\ x.next.time = a.time
      /\ x.next.regs = [a.regs EXCEPT ![SECREAD_REGISTER] = r.spare]
      /\ a.regs \in [Regs -> Word]
  BY <1>1 DEF TraceLine
<1>3. /\ y.next.pc = b.pc /\ y.next.flag = b.flag /\ y.next.time = b.time
      /\ y.next.regs = [b.regs EXCEPT ![SECREAD_REGISTER] = q.spare]
      /\ b.regs \in [Regs -> Word]
  BY <1>1 DEF TraceLine
<1>4. \A i \in Regs : x.next.regs[i] = y.next.regs[i]
  BY <1>2, <1>3 DEF SameLine, SameKept
<1>5. r.out \in [ColumnNames -> Int] /\ q.out \in [ColumnNames -> Int]
  BY DEF TraceRow, Columns
<1>6. /\ x.out.result = r.out.result /\ x.out.value = r.out.value /\ x.out.flag = a.flag
      /\ x.out.isMemOp = r.out.isMemOp /\ x.out.isLoad = r.out.isLoad
      /\ y.out.result = q.out.result /\ y.out.value = q.out.value /\ y.out.flag = b.flag
      /\ y.out.isMemOp = q.out.isMemOp /\ y.out.isLoad = q.out.isLoad
  BY <1>1, <1>5 DEF ColumnNames
<1>7. x.out = y.out \/ Instr(r.first.pc).op \in {"SW", "LW"}
  <2>1. CASE r = q
    BY <1>1, <2>1 DEF SameLine
  <2>2. CASE r.out.isMemOp = 1
    BY <2>2 DEF RowMade, SaysOfMemory, ToBit
  <2>. QED  BY <2>1, <2>2 DEF SameKept
<1>. QED  BY <1>1, <1>2, <1>3, <1>4, <1>6, <1>7 DEF Alike, SameKept, SameLine, x, y

\* A row as it is made, and as it is kept.
LEMMA KeptAlike ==
    ASSUME NEW ins, NEW r, r = RowOf(ins), Kept(r) \in TraceRow, r.next \in TraceLine,
           r.next.flag = r.out.flag
    PROVE  Alike(r, AssignmentOf(Kept(r), r.next))
<1>. DEFINE k == Kept(r)
            y == AssignmentOf(k, r.next)
<1>1. /\ k.first = r.first /\ k.arg1 = r.arg1 /\ k.arg2 = r.arg2 /\ k.dest = r.dest
      /\ k.out = r.out /\ k.spare = r.next.regs[SECREAD_REGISTER]
  BY DEF Kept
<1>2. k.out \in [ColumnNames -> Int] /\ r.next.regs \in [Regs -> Word]
  BY DEF TraceRow, Columns, TraceLine
<1>3. /\ y.first = k.first /\ y.arg1 = k.arg1 /\ y.arg2 = k.arg2 /\ y.dest = k.dest
      /\ y.out = [k.out EXCEPT !.flag = r.next.flag]
      /\ y.next = [r.next EXCEPT !.regs[SECREAD_REGISTER] = k.spare]
  BY DEF AssignmentOf
<1>. HIDE DEF k, y
<1>4. /\ y.next.pc = r.next.pc /\ y.next.flag = r.next.flag /\ y.next.time = r.next.time
      /\ y.next.regs = [r.next.regs EXCEPT ![SECREAD_REGISTER] = k.spare]
  BY <1>3 DEF TraceLine
<1>5. \A i \in Regs : y.next.regs[i] = r.next.regs[i]
  BY <1>1, <1>2, <1>4
<1>6. y.out = r.out
  BY <1>1, <1>2, <1>3 DEF ColumnNames
<1>. QED  BY <1>1, <1>3, <1>4, <1>5, <1>6 DEF Alike, k, y

-----------------------------------------------------------------------------
(* The steps keep the types and the constraints. *)

\* The first row starts the trace.
Begun == LET line == IF Made = 0 THEN first ELSE table[1].first
         IN  line.pc = 0 /\ line.flag = 0 /\ line.time = 0

Modes == {"construct", "rows", "witness", "proved", "gaveup", "exit", "abort", "undefined"}

Sound == Started /\ mode \in Modes /\ Typed /\ Chained /\ Begun

\* What a step that makes a row knows of it.
Making(ins, r) ==
  /\ mode = "rows" /\ Made < Rows
  /\ first.pc < Len(program) /\ ins = Instr(first.pc) /\ r = RowOf(ins)
  /\ ins \in InstructionSet /\ Named(ins) \subseteq Regs
  /\ ~TapeExhausted(ins) /\ ~MovesNothing(ins) /\ ~LoadsNothing(ins)
  /\ table' = Append(table, Kept(r)) /\ first' = r.next
  /\ secread_cnt' = secread_cnt + ToBit(ins.op = "SECREAD")
  /\ memory' = IF ins.op = "SW" THEN Stored(r.out.address, r.out.value) ELSE memory
  /\ found_answer' = (found_answer \/ Stays(ins.op))
  /\ answer' = IF Stays(ins.op) /\ ~found_answer THEN r.arg2 ELSE answer
  /\ UNCHANGED <<program, tape, t, mode, permutation>>

LEMMA StepMakes ==
    ASSUME Sound, Step
    PROVE  \E ins, r : Making(ins, r)
<1>. DEFINE ins == Instr(first.pc)
<1>1. first.pc \in Nat /\ first.pc < Len(program) /\ program \in Seq(InstructionSet)
      /\ Len(program) \in Nat
  BY StartedTyped DEF Sound, Step, Typed, TraceLine
<1>2. first.pc + 1 \in 1..Len(program)
  BY <1>1
<1>3. ins \in InstructionSet
  BY <1>1, <1>2 DEF Instr
<1>4. Named(ins) \subseteq Regs
  <2>1. OperandsExist
    BY DEF Sound, Step, Typed
  <2>. QED  BY <1>2, <2>1 DEF OperandsExist, Instr
<1>. HIDE DEF ins
<1>5. /\ mode = "rows" /\ Made < Rows /\ ~TapeExhausted(ins) /\ ~MovesNothing(ins)
      /\ ~LoadsNothing(ins) /\ generateRow(ins)
  BY DEF Step, ins
<1>. QED  BY <1>1, <1>3, <1>4, <1>5 DEF generateRow, Making, ins

LEMMA StepTyped ==
    ASSUME Sound, NEW ins, NEW r, Making(ins, r)
    PROVE  /\ Started' /\ Typed' /\ Kept(r) \in TraceRow
           /\ Made \in Nat /\ Made' = Made + 1 /\ table'[Made + 1] = Kept(r)
           /\ \A i \in 1..Made : table'[i] = table[i]
<1>1. /\ Kept(r) \in TraceRow /\ r.next \in TraceLine /\ r.next.pc < 2^PcLength
      /\ r.next.time = first.time + 1 /\ r.arg2 \in Word /\ r.out.address \in Word
      /\ r.out.value \in Word
  BY RowTyped DEF Sound, Making
<1>2. /\ table \in Seq(TraceRow) /\ Made \in Nat /\ first.time = Made /\ secread_cnt \in Nat
      /\ secread_cnt <= Len(tape) /\ Len(tape) \in Nat /\ Made < Rows
      /\ t \in FirstT..LastT
  BY StartedTyped DEF Sound, Typed, Made, Making
<1>3. /\ table' = Append(table, Kept(r)) /\ first' = r.next
      /\ program' = program /\ tape' = tape /\ t' = t /\ mode' = mode
  BY DEF Making
<1>4. Started'
  BY <1>3 DEF Sound, Started
<1>5. PcLength' = PcLength /\ Rows' = Rows
  BY <1>3 DEF PcLength, Rows
<1>6. /\ table' \in Seq(TraceRow) /\ Len(table') = Made + 1 /\ table'[Made + 1] = Kept(r)
      /\ \A i \in 1..Made : table'[i] = table[i]
  BY <1>1, <1>2, <1>3 DEF Made
<1>7. Rows \in Nat
  <2>1. t \in Nat
    BY <1>2, MachineAssumption
  <2>2. 2^t \in Nat /\ 2^t > 0
    BY <2>1, PowerPositive
  <2>. QED  BY <2>2 DEF Rows
<1>8. secread_cnt' \in Nat /\ secread_cnt' <= Len(tape)
  <2>1. CASE ins.op = "SECREAD"
    <3>1. secread_cnt' = secread_cnt + 1 /\ TapePosition(ins) = secread_cnt /\ Reads(ins)
      BY <2>1 DEF Making, ToBit, TapePosition, Reads
    <3>2. ~ (secread_cnt >= Len(tape))
      BY <3>1 DEF Making, TapeExhausted
    <3>. QED  BY <1>2, <3>1, <3>2
  <2>2. CASE ins.op # "SECREAD"
    <3>1. secread_cnt' = secread_cnt + 0
      BY <2>2 DEF Making, ToBit
    <3>. QED  BY <1>2, <3>1
  <2>. QED  BY <2>1, <2>2
<1>9. memory' \in [DOMAIN memory' -> Word] /\ DOMAIN memory' \subseteq Word
  <2>1. memory \in [DOMAIN memory -> Word] /\ DOMAIN memory \subseteq Word
    BY DEF Sound, Typed
  <2>2. CASE ins.op = "SW"
    <3>1. memory' = Stored(r.out.address, r.out.value)
      BY <2>2 DEF Making
    <3>. QED  BY <1>1, <2>1, <3>1 DEF Stored
  <2>3. CASE ins.op # "SW"
    BY <2>1, <2>3 DEF Making
  <2>. QED  BY <2>2, <2>3
<1>10. found_answer' \in BOOLEAN /\ answer' \in Word \cup {-1}
  BY <1>1 DEF Making, Sound, Typed, Stays
<1>11. OperandsExist'
  <2>1. OperandsExist
    BY DEF Sound, Typed, Making
  <2>. QED  BY <1>3, <2>1 DEF OperandsExist
<1>12. Made' = Made + 1
  BY <1>6 DEF Made
<1>13. Typed'
  BY <1>1, <1>2, <1>3, <1>5, <1>6, <1>7, <1>8, <1>9, <1>10, <1>11, <1>12 DEF Typed
<1>. QED  BY <1>1, <1>2, <1>4, <1>6, <1>12, <1>13

\* With the same program, rows are judged the same.
LEMMA SameProgram ==
    ASSUME program' = program
    PROVE  /\ \A r : RowMade(r)' <=> RowMade(r)
           /\ \A r : Agrees(r)' <=> Agrees(r)
           /\ \A a : RowHolds(a)' <=> RowHolds(a)
<1>1. PcLength' = PcLength /\ \A pc : Instr(pc)' = Instr(pc)
  BY DEF PcLength, Instr
<1>2. \A r : RowMade(r)' <=> RowMade(r)
  BY <1>1 DEF RowMade
<1>3. \A r : Agrees(r)' <=> Agrees(r)
  BY <1>1 DEF Agrees
<1>4. \A a, ins : PcHolds(a, ins)' <=> PcHolds(a, ins)
  BY <1>1 DEF PcHolds
<1>5. \A a : RowHolds(a)' <=> RowHolds(a)
  BY <1>1, <1>4 DEF RowHolds
<1>. QED  BY <1>2, <1>3, <1>5

LEMMA StepChained ==
    ASSUME Sound, NEW ins, NEW r, Making(ins, r)
    PROVE  Chained' /\ Begun'
<1>. DEFINE k == Kept(r)
            n == Made
<1>1. /\ k \in TraceRow /\ n \in Nat /\ Made' = n + 1 /\ table'[n + 1] = k
      /\ \A i \in 1..n : table'[i] = table[i]
  BY StepTyped
<1>2. /\ r.first = [first EXCEPT !.regs = RegsRead(ins)] /\ r.first \in TraceLine
      /\ r.next \in TraceLine /\ r.next.flag = r.out.flag
      /\ SaysOfMemory(ins.op, r, IF ins.op = "LW" THEN memory[r.arg2] ELSE 0, r.out)
      /\ first' = r.next
  BY RowTyped DEF Sound, Making
<1>3. /\ k.first = r.first /\ k.out = r.out /\ k.arg1 = r.arg1 /\ k.arg2 = r.arg2
      /\ k.dest = r.dest
  BY DEF Kept
<1>4. first \in TraceLine /\ first.time = n /\ SameLine(first, r.first)
  <2>1. first \in TraceLine /\ first.time = n
    BY DEF Sound, Typed
  <2>2. r.first.pc = first.pc /\ r.first.flag = first.flag /\ r.first.time = first.time
    BY <1>2, <2>1 DEF TraceLine
  <2>3. \A i \in Regs \ {SECREAD_REGISTER} : first.regs[i] = r.first.regs[i]
    <3>1. r.first.regs = RegsRead(ins)
      BY <1>2, <2>1 DEF TraceLine
    <3>2. first.regs \in [Regs -> Word]
      BY <2>1 DEF TraceLine
    <3>. QED  BY <3>1, <3>2 DEF RegsRead
  <2>. QED  BY <2>1, <2>2, <2>3 DEF SameLine
<1>5. /\ r.first.pc = first.pc /\ Instr(first.pc) = ins /\ first.pc < Len(program)
      /\ r.first.time = n
  BY <1>4 DEF SameLine, Making
<1>6. RowMade(k)
  <2>1. SaysOfMemory(ins.op, k, k.out.value, k.out)
    <3>1. ins.op # "LW" => SaysOfMemory(ins.op, k, k.out.value, k.out)
      BY <1>2, <1>3 DEF SaysOfMemory
    <3>2. ins.op = "LW" => SaysOfMemory(ins.op, k, k.out.value, k.out)
      BY <1>2, <1>3 DEF SaysOfMemory
    <3>. QED  BY <3>1, <3>2
  <2>. QED  BY <1>3, <1>5, <2>1 DEF RowMade
<1>7. Agrees(k) => RowHolds(AssignmentOf(k, r.next))
  <2>1. Agrees(k) => RowHolds(r)
    BY RowComplete DEF Sound, Making
  <2>2. Alike(r, AssignmentOf(k, r.next))
    BY <1>1, <1>2, KeptAlike DEF Making
  <2>. QED  BY <2>1, <2>2, AlikeHold
<1>8. program' = program
  BY DEF Making
<1>. HIDE DEF k, n
<1>9. ASSUME NEW i \in 1..n
      PROVE  /\ table[i].first.time = i - 1 /\ RowMade(table[i])
             /\ Agrees(table[i]) => RowHolds(AssignmentOf(table[i], Following(i)))
             /\ table[i] \in TraceRow /\ Following(i) \in TraceLine
  <2>1. /\ table[i].first.time = i - 1 /\ RowMade(table[i])
        /\ Agrees(table[i]) => RowHolds(AssignmentOf(table[i], Following(i)))
    BY DEF Sound, Chained, n
  <2>2. \A j \in 1..n : table[j] \in TraceRow
    BY TableRow DEF Sound, n
  <2>3. Following(i) \in TraceLine
    <3>1. CASE i < n
      <4>1. Following(i) = table[i + 1].first /\ i + 1 \in 1..n
        BY <1>1, <3>1 DEF Following, n
      <4>. QED  BY <2>2, <4>1 DEF TraceRow
    <3>2. CASE ~ (i < n)
      BY <1>4, <3>2 DEF Following, n
    <3>. QED  BY <3>1, <3>2
  <2>. QED  BY <2>1, <2>2, <2>3
<1>10. ASSUME NEW i \in 1..n
       PROVE  Following(i)' \in TraceLine /\ SameLine(Following(i), Following(i)')
  <2>1. Following(i)' = table'[i + 1].first
    BY <1>1 DEF Following
  <2>2. CASE i < n
    <3>1. table'[i + 1] = table[i + 1] /\ Following(i) = table[i + 1].first
      BY <1>1, <2>2 DEF Following, n
    <3>. QED  BY <1>9, <2>1, <3>1 DEF SameLine
  <2>3. CASE i = n
    <3>1. Following(i) = first /\ Following(i)' = r.first
      BY <1>1, <1>3, <2>1, <2>3 DEF Following, n
    <3>. QED  BY <1>2, <1>4, <3>1
  <2>. QED  BY <1>1, <2>2, <2>3
<1>11. ASSUME NEW i \in 1..n + 1
       PROVE  /\ table'[i].first.time = i - 1 /\ RowMade(table'[i])
              /\ Agrees(table'[i]) => RowHolds(AssignmentOf(table'[i], Following(i)'))
  <2>1. CASE i \in 1..n
    <3>1. table'[i] = table[i]
      BY <1>1, <2>1
    <3>2. SameKept(table[i], table[i])
      BY DEF SameKept
    <3>3. Alike(AssignmentOf(table[i], Following(i)), AssignmentOf(table[i], Following(i)'))
      BY <1>9, <1>10, <2>1, <3>2, SameRowsAlike
    <3>4. Agrees(table[i]) => RowHolds(AssignmentOf(table[i], Following(i)'))
      BY <1>9, <2>1, <3>3, AlikeHold
    <3>. QED  BY <1>9, <2>1, <3>1, <3>4
  <2>2. CASE i = n + 1
    <3>1. table'[i] = k /\ Following(i)' = r.next
      BY <1>1, <1>2, <2>2 DEF Following
    <3>. QED  BY <1>1, <1>3, <1>5, <1>6, <1>7, <2>2, <3>1
  <2>. QED  BY <1>1, <2>1, <2>2
<1>12. Chained'
  BY <1>1, <1>8, <1>11, SameProgram DEF Chained
<1>13. Begun'
  <2>1. CASE n = 0
    <3>1. table'[1] = k /\ Made' # 0
      BY <1>1, <2>1
    <3>2. first.pc = 0 /\ first.flag = 0 /\ first.time = 0
      BY <2>1 DEF Sound, Begun, n
    <3>. QED  BY <1>3, <1>4, <3>1, <3>2 DEF Begun, SameLine
  <2>2. CASE n # 0
    <3>1. table'[1] = table[1] /\ Made' # 0
      BY <1>1, <2>2
    <3>. QED  BY <2>2, <3>1 DEF Sound, Begun, n
  <2>. QED  BY <2>1, <2>2
<1>. QED  BY <1>12, <1>13

-----------------------------------------------------------------------------
(* Linking the rows. *)

\* What is written over the row made at s, when it is a memory row.
LEMMA LinkedRows ==
    ASSUME Started, Typed, Chained, NEW sorted, sorted = Sorted,
           NEW rows, rows = Overwritten(sorted)
    PROVE  /\ rows \in Seq(TraceRow) /\ Len(rows) = Made
           /\ \A s \in 1..Made : SameKept(table[s], rows[s])
           /\ \A s \in 1..Made :
                LET one == sorted[Place(sorted, s - 1)]
                    two == sorted[Place(sorted, s - 1) + 1]
                    out == rows[s].out
                IN  table[s].out.isMemOp = 1 /\ Place(sorted, s - 1) < Made =>
                      /\ out.u1 = one.address /\ out.u2 = two.address
                      /\ out.aux1 = one.time /\ out.aux2 = two.time
                      /\ out.aux3 = Order(two.address, one.address)
                      /\ out.aux4 = Order(two.time, one.time)
<1>1. Made \in Nat /\ DOMAIN rows = 1..Made
  BY DEF Typed, Made, Overwritten
<1>2. ASSUME NEW s \in 1..Made
      PROVE  /\ MemoryTrace[s].address \in Int /\ MemoryTrace[s].time \in Int
  BY TableRow DEF MemoryTrace, TraceRow, TraceLine
<1>3. ASSUME NEW i \in 1..Made PROVE sorted[i].address \in Int /\ sorted[i].time \in Int
  <2>1. PICK s \in 1..Made : Place(sorted, s - 1) = i
    BY SortedTable
  <2>2. sorted[i] = MemoryTrace[s]
    BY <2>1, SortedTable
  <2>. QED  BY <1>2, <2>2
<1>4. ASSUME NEW s \in 1..Made
      PROVE  /\ rows[s] \in TraceRow
             /\ SameKept(table[s], rows[s])
             /\ LET one == sorted[Place(sorted, s - 1)]
                    two == sorted[Place(sorted, s - 1) + 1]
                    out == rows[s].out
                IN  table[s].out.isMemOp = 1 /\ Place(sorted, s - 1) < Made =>
                      /\ out.u1 = one.address /\ out.u2 = two.address
                      /\ out.aux1 = one.time /\ out.aux2 = two.time
                      /\ out.aux3 = Order(two.address, one.address)
                      /\ out.aux4 = Order(two.time, one.time)
  <2>. DEFINE i == Place(sorted, s - 1)
              one == sorted[i]
              two == sorted[i + 1]
              made == table[s].out
              u1 == IF i = Made THEN 0 ELSE one.address
              u2 == IF i = Made THEN 0 ELSE two.address
              aux1 == IF i = Made THEN 0 ELSE one.time
              aux2 == IF i = Made THEN 0 ELSE two.time
              aux3 == IF i = Made THEN 0 ELSE Order(two.address, one.address)
              aux4 == IF i = Made THEN 0 ELSE Order(two.time, one.time)
              out == [made EXCEPT !.u1 = u1, !.u2 = u2, !.aux1 = aux1, !.aux2 = aux2,
                                  !.aux3 = aux3, !.aux4 = aux4]
  <2>1. i \in 1..Made
    BY SortedTable
  <2>2. i # Made => i + 1 \in 1..Made
    BY <1>1, <2>1
  <2>3. /\ u1 \in Int /\ u2 \in Int /\ aux1 \in Int /\ aux2 \in Int
        /\ aux3 \in Int /\ aux4 \in Int
    <3>1. i # Made => /\ one.address \in Int /\ two.address \in Int
                      /\ one.time \in Int /\ two.time \in Int
      BY <1>3, <2>1, <2>2
    <3>. HIDE DEF i, one, two
    <3>. QED  BY <3>1, WordsAreNumbers
  <2>4. table[s] \in TraceRow /\ made \in [ColumnNames -> Int] /\ IsOutput(made)
        /\ made.isMemOp \in Bit
    BY TableRow DEF TraceRow, Columns
  <2>5. rows[s] = IF made.isMemOp = 0 THEN table[s] ELSE [table[s] EXCEPT !.out = out]
    <3>1. CASE i = Made
      <4>1. rows[s] = IF made.isMemOp = 0 THEN table[s]
                      ELSE [table[s] EXCEPT !.out = Unrelated(@)]
        BY <3>1 DEF Overwritten
      <4>2. Unrelated(made) = out
        BY <3>1 DEF Unrelated
      <4>. QED  BY <4>1, <4>2
    <3>2. CASE i # Made
      <4>1. rows[s] = IF made.isMemOp = 0 THEN table[s]
                      ELSE [table[s] EXCEPT !.out = Related(@, one, two)]
        BY <3>2 DEF Overwritten
      <4>2. Related(made, one, two) = out
        BY <3>2 DEF Related
      <4>. QED  BY <4>1, <4>2
    <3>. QED  BY <3>1, <3>2
  <2>6. /\ i < Made => /\ u1 = one.address /\ u2 = two.address
                       /\ aux1 = one.time /\ aux2 = two.time
                       /\ aux3 = Order(two.address, one.address)
                       /\ aux4 = Order(two.time, one.time)
    BY <1>1, <2>1
  <2>. HIDE DEF u1, u2, aux1, aux2, aux3, aux4
  <2>7. /\ out.u1 = u1 /\ out.u2 = u2 /\ out.aux1 = aux1 /\ out.aux2 = aux2
        /\ out.aux3 = aux3 /\ out.aux4 = aux4 /\ out.result = made.result
        /\ out.flag = made.flag /\ out.value = made.value /\ out.address = made.address
        /\ out.isMemOp = made.isMemOp /\ out.isLoad = made.isLoad
    BY <2>4 DEF ColumnNames
  <2>8. out \in [ColumnNames -> Int]
    <3>1. \A f \in [ColumnNames -> Int], v \in Int :
            /\ [f EXCEPT !.u1 = v] \in [ColumnNames -> Int]
            /\ [f EXCEPT !.u2 = v] \in [ColumnNames -> Int]
            /\ [f EXCEPT !.aux1 = v] \in [ColumnNames -> Int]
            /\ [f EXCEPT !.aux2 = v] \in [ColumnNames -> Int]
            /\ [f EXCEPT !.aux3 = v] \in [ColumnNames -> Int]
            /\ [f EXCEPT !.aux4 = v] \in [ColumnNames -> Int]
      OBVIOUS
    <3>. HIDE DEF made
    <3>. QED  BY <2>3, <2>4, <3>1, Zenon
  <2>. HIDE DEF out, one, two, i
  <2>9. out \in Columns
    BY <2>4, <2>7, <2>8 DEF Columns, IsOutput
  <2>10. rows[s] \in TraceRow
    BY <2>4, <2>5, <2>9 DEF TraceRow
  <2>11. made.isMemOp = 1 =>
           /\ rows[s].out = out /\ rows[s].first = table[s].first
           /\ rows[s].arg1 = table[s].arg1 /\ rows[s].arg2 = table[s].arg2
           /\ rows[s].dest = table[s].dest /\ rows[s].spare = table[s].spare
    BY <2>4, <2>5 DEF TraceRow
  <2>12. made.isMemOp = 0 => rows[s] = table[s]
    BY <2>5
  <2>13. SameKept(table[s], rows[s])
    BY <2>4, <2>7, <2>11, <2>12 DEF SameKept, Bit
  <2>. QED  BY <2>6, <2>7, <2>10, <2>11, <2>13 DEF i, one, two
<1>5. rows = [s \in 1..Made |-> rows[s]]
  BY DEF Overwritten
<1>6. rows \in Seq(TraceRow) /\ Len(rows) = Made
  BY <1>1, <1>4, <1>5
<1>. QED  BY <1>4, <1>6

LEMMA LinkKeeps ==
    ASSUME Sound, LinkRows
    PROVE  Sound'
<1>1. PICK sorted, rows : /\ sorted = Sorted /\ rows = Overwritten(sorted) /\ table' = rows
                          /\ mode' \in {"witness", "abort"}
  BY DEF LinkRows
<1>2. UNCHANGED <<program, tape, t, first, secread_cnt, memory, found_answer, answer>>
  BY DEF LinkRows
<1>3. Started /\ Typed /\ Chained
  BY DEF Sound
<1>4. /\ table' \in Seq(TraceRow) /\ Made' = Made /\ Made \in Nat
      /\ \A s \in 1..Made : SameKept(table[s], table'[s]) /\ table'[s] \in TraceRow
  <2>1. /\ rows \in Seq(TraceRow) /\ Len(rows) = Made
        /\ \A s \in 1..Made : SameKept(table[s], rows[s])
    BY <1>1, <1>3, LinkedRows
  <2>2. Made \in Nat
    BY <1>3 DEF Typed, Made
  <2>. QED  BY <1>1, <2>1, <2>2 DEF Made
<1>5. Started'
  BY <1>2, <1>3 DEF Started
<1>6. PcLength' = PcLength /\ Rows' = Rows
  BY <1>2 DEF PcLength, Rows
<1>7. Typed'
  BY <1>1, <1>2, <1>3, <1>4, <1>6 DEF Typed
<1>8. ASSUME NEW s \in 1..Made
      PROVE  /\ table'[s].first.time = s - 1 /\ RowMade(table'[s])
             /\ Agrees(table'[s]) => RowHolds(AssignmentOf(table'[s], Following(s)'))
  <2>1. /\ table[s].first.time = s - 1 /\ RowMade(table[s])
        /\ Agrees(table[s]) => RowHolds(AssignmentOf(table[s], Following(s)))
        /\ table[s] \in TraceRow
    BY <1>3, TableRow DEF Chained
  <2>2. SameKept(table[s], table'[s]) /\ table'[s] \in TraceRow
    BY <1>4
  <2>3. Following(s)' = Following(s) /\ Following(s) \in TraceLine
    <3>1. CASE s < Made
      <4>1. Following(s) = table[s + 1].first /\ Following(s)' = table'[s + 1].first
            /\ s + 1 \in 1..Made
        BY <1>4, <3>1 DEF Following
      <4>2. table[s + 1] \in TraceRow
        BY <1>3, <4>1, TableRow
      <4>. QED  BY <1>4, <4>1, <4>2 DEF SameKept, TraceRow
    <3>2. CASE ~ (s < Made)
      BY <1>2, <1>3, <1>4, <3>2 DEF Following, Typed
    <3>. QED  BY <3>1, <3>2
  <2>4. SameLine(Following(s), Following(s))
    BY DEF SameLine
  <2>5. Alike(AssignmentOf(table[s], Following(s)), AssignmentOf(table'[s], Following(s)))
    BY <2>1, <2>2, <2>3, <2>4, SameRowsAlike
  <2>6. Agrees(table'[s]) => Agrees(table[s])
    BY <2>2 DEF Agrees, SameKept, Refused
  <2>7. RowMade(table'[s])
    BY <2>1, <2>2 DEF RowMade, SameKept, SaysOfMemory
  <2>8. table'[s].first.time = s - 1
    BY <2>1, <2>2 DEF SameKept
  <2>. QED  BY <2>1, <2>3, <2>5, <2>6, <2>7, <2>8, AlikeHold
<1>9. Chained'
  BY <1>2, <1>4, <1>8, SameProgram DEF Chained
<1>10. Begun'
  <2>1. Made # 0 => table'[1].first = table[1].first
    BY <1>4 DEF SameKept
  <2>. QED  BY <1>2, <1>4, <2>1 DEF Sound, Begun
<1>. QED  BY <1>1, <1>5, <1>7, <1>9, <1>10 DEF Sound, Modes

-----------------------------------------------------------------------------
(* The induction. *)

LEMMA Starts == Init => Sound
<1>. SUFFICES ASSUME Init PROVE Sound
  OBVIOUS
<1>1. Started /\ mode \in Modes
  BY DEF Init, Started, Modes
<1>2. StartOfTrace \in TraceLine /\ StartOfTrace.pc = 0 /\ StartOfTrace.time = 0
      /\ StartOfTrace.flag = 0
  BY WordLength DEF StartOfTrace, TraceLine, Bit
<1>3. table = <<>> /\ Made = 0
  BY DEF Init, Made
<1>4. t \in FirstT..LastT /\ 2^t \in Nat /\ 2^t > 0
  BY MachineAssumption, PowerPositive DEF Init
<1>5. memory \in [DOMAIN memory -> Word] /\ DOMAIN memory \subseteq Word
  BY DEF Init
<1>6. Len(tape) \in Nat
  BY <1>1, StartedTyped
<1>7. Typed
  <2>1. first = StartOfTrace /\ secread_cnt = 0 /\ found_answer = FALSE /\ answer = -1
        /\ mode = "construct"
    BY DEF Init
  <2>2. 0 < 2^PcLength
    BY <1>1, StartedTyped
  <2>3. Rows \in Nat
    BY <1>4 DEF Rows
  <2>4. table \in Seq(TraceRow) /\ first \in TraceLine /\ first.pc = 0 /\ first.time = 0
    BY <1>2, <1>3, <2>1
  <2>5. first.pc < 2^PcLength
    BY <2>2, <2>4, Zenon
  <2>6. Made <= Rows /\ secread_cnt <= Len(tape) /\ first.time = Made
    BY <1>3, <1>6, <2>1, <2>3, <2>4
  <2>. QED  BY <1>4, <1>5, <2>1, <2>4, <2>5, <2>6, Zenon DEF Typed
<1>8. Chained /\ Begun
  BY <1>2, <1>3 DEF Init, Chained, Begun
<1>. QED  BY <1>1, <1>7, <1>8 DEF Sound

\* An attempt begins with no row.
LEMMA FreshKeeps ==
    ASSUME Sound, NextAttempt
    PROVE  Sound'
<1>1. /\ t' = t + 1 /\ t < LastT /\ mode' = "construct" /\ first' = StartOfTrace
      /\ table' = <<>> /\ secread_cnt' = 0 /\ memory' = <<>>
      /\ program' = program /\ tape' = tape /\ found_answer' = found_answer
      /\ answer' = answer
  BY DEF NextAttempt, Fresh
<1>2. Started' /\ mode' \in Modes
  BY <1>1 DEF Sound, Started, Modes
<1>3. StartOfTrace \in TraceLine /\ StartOfTrace.pc = 0 /\ StartOfTrace.time = 0
      /\ StartOfTrace.flag = 0
  BY WordLength DEF StartOfTrace, TraceLine, Bit
<1>4. Made' = 0
  BY <1>1 DEF Made
<1>5. t' \in FirstT..LastT /\ 2^t' \in Nat /\ 2^t' > 0
  <2>1. t' \in FirstT..LastT /\ t' \in Nat
    BY <1>1, MachineAssumption DEF Sound, Typed
  <2>. QED  BY <2>1, PowerPositive
<1>6. Rows' \in Nat
  <2>1. PICK p \in Nat : p = 2^t' /\ p > 0
    BY <1>5
  <2>2. Rows' = p - 1
    BY <2>1, Zenon DEF Rows
  <2>. QED  BY <2>1, <2>2
<1>7. Typed'
  <2>1. PcLength' = PcLength /\ 0 < 2^PcLength /\ Len(tape) \in Nat
    BY <1>1, StartedTyped DEF PcLength, Sound
  <2>2. memory' \in [DOMAIN memory' -> Word] /\ DOMAIN memory' \subseteq Word
    BY <1>1
  <2>. QED  BY <1>1, <1>3, <1>4, <1>5, <1>6, <2>1, <2>2 DEF Typed, Sound
<1>8. Chained' /\ Begun'
  BY <1>1, <1>3, <1>4 DEF Chained, Begun
<1>. QED  BY <1>2, <1>7, <1>8 DEF Sound

\* Only mode and found_answer change.
LEMMA SameRun ==
    ASSUME Sound, UNCHANGED <<program, tape, t, first, table, secread_cnt, memory, answer>>,
           mode' \in Modes, found_answer' \in BOOLEAN,
           mode' = "rows" => OperandsExist
    PROVE  Sound'
<1>1. Started'
  BY DEF Sound, Started
<1>2. PcLength' = PcLength /\ Rows' = Rows /\ Made' = Made /\ OperandsExist' = OperandsExist
  BY DEF PcLength, Rows, Made, OperandsExist
<1>3. Typed'
  BY <1>2 DEF Sound, Typed
<1>4. \A i : Following(i)' = Following(i)
  BY <1>2 DEF Following
<1>5. Chained'
  BY <1>2, <1>4, SameProgram DEF Sound, Chained
<1>6. Begun'
  BY <1>2 DEF Sound, Begun
<1>. QED  BY <1>1, <1>3, <1>5, <1>6 DEF Sound

LEMMA Keeps == Sound /\ [Next]_vars => Sound'
<1>. SUFFICES ASSUME Sound, [Next]_vars PROVE Sound'
  OBVIOUS
<1>. mode \in Modes /\ found_answer \in BOOLEAN /\ (mode = "rows" => OperandsExist)
  BY DEF Sound, Typed
<1>1. CASE GenerateConstraints
  BY <1>1, SameRun DEF GenerateConstraints, Modes
<1>2. CASE Step
  <2>1. PICK ins, r : Making(ins, r)
    BY <1>2, StepMakes
  <2>2. Started' /\ Typed' /\ Chained' /\ Begun'
    BY <2>1, StepTyped, StepChained
  <2>3. mode' \in Modes
    BY <2>1 DEF Making
  <2>. QED  BY <2>2, <2>3 DEF Sound
<1>3. CASE StepFails
  BY <1>3, SameRun DEF StepFails, Modes
<1>4. CASE LinkRows
  BY <1>4, LinkKeeps
<1>5. CASE Answered
  BY <1>5, SameRun DEF Answered, Modes
<1>6. CASE NextAttempt
  BY <1>6, FreshKeeps
<1>7. CASE GiveUp
  BY <1>7, SameRun DEF GiveUp, Modes
<1>8. CASE UNCHANGED vars
  BY <1>8, SameRun DEF vars
<1>. QED  BY <1>1, <1>2, <1>3, <1>4, <1>5, <1>6, <1>7, <1>8 DEF Next

LEMMA Soundness == Spec => []Sound
BY Starts, Keeps, PTL DEF Spec

\* The driver's state is what the code takes it to be: the program counter within its
\* bits, a row for each unit of time, the tape never read past its end.
THEOREM Typing == Spec => []TypeOK
<1>1. Sound => TypeOK
  <2>. SUFFICES ASSUME Sound PROVE TypeOK
    OBVIOUS
  <2>1. PcLength \in Nat /\ 2^PcLength \in Nat
    BY StartedTyped DEF Sound
  <2>2. first.pc \in 0..2^PcLength - 1 /\ first.flag \in Bit /\ first.regs \in [Regs -> Word]
    BY <2>1 DEF Sound, Typed, TraceLine
  <2>. QED  BY <2>2 DEF Sound, Typed, TypeOK, Modes
<1>. QED  BY <1>1, Soundness, PTL

\* Every row the witness procedures make satisfies the constraints of its instruction,
\* unless it takes a jump to a line the program counter has no bits for, or it is the
\* NOT of a word of ones.
THEOREM RowsComplete ==
    Spec => []((Made > 0 => Agrees(table[Made])) => RowsSatisfied)
<1>1. Sound => ((Made > 0 => Agrees(table[Made])) => RowsSatisfied)
  <2>. SUFFICES ASSUME Sound, Made > 0, Agrees(table[Made])
                PROVE  RowHolds(AssignmentOf(table[Made], first))
    BY DEF RowsSatisfied
  <2>1. Made \in 1..Made
    BY DEF Sound, Typed, Made
  <2>2. Following(Made) = first
    BY <2>1 DEF Following
  <2>. QED  BY <2>1, <2>2 DEF Sound, Chained
<1>. QED  BY <1>1, Soundness, PTL

-----------------------------------------------------------------------------
(* What the rows say of the memory and of the answer. *)

\* Rows q and r use the same cell of the memory.
SameCell(q, r) ==
  q.out.isMemOp = 1 /\ r.out.isMemOp = 1 /\ q.out.address = r.out.address

\* The protoboard holds what was last stored or loaded.
Remembered ==
  \A i \in 1 .. Made :
    table[i].out.isMemOp = 1 /\ (\A j \in i + 1 .. Made : ~SameCell(table[i], table[j])) =>
      /\ table[i].out.address \in DOMAIN memory
      /\ memory[table[i].out.address] = table[i].out.value

\* A load gives what the last row at its address gave or stored.
Loaded ==
  \A i \in 1 .. Made : \A j \in 1 .. i - 1 :
    /\ table[i].out.isLoad = 1 /\ SameCell(table[j], table[i])
    /\ \A k \in j + 1 .. i - 1 : ~SameCell(table[k], table[i])
    => table[j].out.value = table[i].out.value

\* An answer stays.
Held ==
  found_answer => /\ Made > 0 /\ Stays(Instr(table[Made].first.pc).op)
                  /\ first.pc = table[Made].first.pc

\* The links, once they are made.
LinkedModes == {"witness", "proved", "gaveup"}

OneCycle == verify_permutation /\ {Follow[k] : k \in 0 .. Rows - 1} = 0 .. Rows - 1

Linkage ==
  IF mode \in LinkedModes
  THEN /\ Made = Rows /\ OneCycle
       /\ found_answer => verify_constraintsPermutation
  ELSE permutation = <<>>

\* What is proved is an answer.
Concluded == mode = "proved" => found_answer

Consistent == Sound /\ Remembered /\ Loaded /\ Held /\ Linkage /\ Concluded

LEMMA StepRemembers ==
    ASSUME Sound, Remembered, Loaded, NEW ins, NEW r, Making(ins, r)
    PROVE  Remembered' /\ Loaded'
<1>. DEFINE n == Made
            k == Kept(r)
<1>1. /\ k \in TraceRow /\ n \in Nat /\ Made' = n + 1 /\ table'[n + 1] = k
      /\ \A i \in 1..n : table'[i] = table[i]
  BY StepTyped
<1>2. /\ SaysOfMemory(ins.op, r, IF ins.op = "LW" THEN memory[r.arg2] ELSE 0, r.out)
      /\ r.arg2 = Arg2(ins, RegsRead(ins))
  BY RowTyped DEF Sound, Making
<1>3. k.out = r.out
  BY DEF Kept
<1>. HIDE DEF k, n
<1>6. /\ k.out.isMemOp = 1 <=> ins.op \in {"SW", "LW"}
      /\ k.out.isLoad = 1 <=> ins.op = "LW"
      /\ ins.op = "LW" => k.out.address = r.arg2 /\ k.out.value = memory[r.arg2]
  BY <1>2, <1>3 DEF SaysOfMemory, ToBit
<1>7. ins.op = "LW" => k.out.address \in DOMAIN memory
  <2>1. ins.op = "LW" => RegsRead(ins) = first.regs
    BY DEF RegsRead, Reads
  <2>. QED  BY <1>2, <1>6, <2>1 DEF Making, LoadsNothing
<1>8. memory' = IF ins.op = "SW" THEN Stored(k.out.address, k.out.value) ELSE memory
  BY <1>3 DEF Making
<1>9. ASSUME NEW i \in 1..n, table[i].out.isMemOp = 1, \A j \in i + 1..n : ~SameCell(table[i], table[j])
      PROVE  /\ table[i].out.address \in DOMAIN memory
             /\ memory[table[i].out.address] = table[i].out.value
  BY <1>9 DEF Remembered, n
<1>10. Remembered'
  <2>. SUFFICES ASSUME NEW i \in 1..n + 1, table'[i].out.isMemOp = 1,
                       \A j \in i + 1..n + 1 : ~SameCell(table'[i], table'[j])
                PROVE  /\ table'[i].out.address \in DOMAIN memory'
                       /\ memory'[table'[i].out.address] = table'[i].out.value
    BY <1>1 DEF Remembered
  <2>1. CASE i = n + 1
    <3>1. table'[i] = k /\ ins.op \in {"SW", "LW"}
      BY <1>1, <1>6, <2>1
    <3>2. CASE ins.op = "SW"
      BY <1>8, <3>1, <3>2 DEF Stored
    <3>3. CASE ins.op = "LW"
      BY <1>6, <1>7, <1>8, <3>1, <3>3
    <3>. QED  BY <3>1, <3>2, <3>3
  <2>2. CASE i \in 1..n
    <3>1. table'[i] = table[i]
      BY <1>1, <2>2
    <3>2. \A j \in i + 1..n : ~SameCell(table[i], table[j])
      BY <1>1, <2>2
    <3>3. /\ table[i].out.address \in DOMAIN memory
          /\ memory[table[i].out.address] = table[i].out.value
      BY <1>9, <2>2, <3>1, <3>2
    <3>4. ~SameCell(table[i], k)
      BY <1>1, <2>2, <3>1
    <3>5. ins.op = "SW" => table[i].out.address # k.out.address
      BY <1>6, <3>1, <3>4 DEF SameCell
    <3>. QED  BY <1>8, <3>1, <3>3, <3>5 DEF Stored
  <2>. QED  BY <1>1, <2>1, <2>2
<1>11. Loaded'
  <2>. SUFFICES ASSUME NEW i \in 1..n + 1, NEW j \in 1..i - 1, table'[i].out.isLoad = 1,
                       SameCell(table'[j], table'[i]), \A q \in j + 1..i - 1 : ~SameCell(table'[q], table'[i])
                PROVE  table'[j].out.value = table'[i].out.value
    BY <1>1 DEF Loaded
  <2>1. j \in 1..n /\ table'[j] = table[j]
    BY <1>1
  <2>2. CASE i = n + 1
    <3>1. table'[i] = k /\ ins.op = "LW" /\ table[j].out.isMemOp = 1
          /\ table[j].out.address = k.out.address
      BY <1>1, <1>6, <2>1, <2>2 DEF SameCell
    <3>2. \A q \in j + 1..n : ~SameCell(table[j], table[q])
      <4>. SUFFICES ASSUME NEW q \in j + 1..n, SameCell(table[j], table[q]) PROVE FALSE
        OBVIOUS
      <4>1. q \in 1..n /\ q \in j + 1..i - 1
        BY <1>1, <2>1, <2>2
      <4>2. SameCell(table[q], k) /\ table'[q] = table[q] /\ table'[i] = k
        BY <1>1, <3>1, <4>1 DEF SameCell
      <4>. QED  BY <2>2, <4>1, <4>2
    <3>3. memory[table[j].out.address] = table[j].out.value
      BY <1>9, <2>1, <3>1, <3>2
    <3>. QED  BY <1>6, <2>1, <3>1, <3>3
  <2>3. CASE i \in 1..n
    <3>1. table'[i] = table[i] /\ table[i].out.isLoad = 1 /\ SameCell(table[j], table[i])
      BY <1>1, <2>1, <2>3
    <3>2. \A q \in j + 1..i - 1 : ~SameCell(table[q], table[i])
      BY <1>1, <2>1, <2>3
    <3>3. i \in 1..Made /\ j \in 1..i - 1
      BY <2>3 DEF n
    <3>4. table[j].out.value = table[i].out.value
      BY <3>1, <3>2, <3>3 DEF Loaded
    <3>. QED  BY <2>1, <3>1, <3>4
  <2>. QED  BY <1>1, <2>2, <2>3
<1>. QED  BY <1>10, <1>11

LEMMA StepHolds ==
    ASSUME Sound, Held, NEW ins, NEW r, Making(ins, r)
    PROVE  Held'
<1>1. Made \in Nat /\ Made' = Made + 1 /\ table'[Made + 1] = Kept(r)
  BY StepTyped
<1>2. /\ r.first.pc = first.pc /\ first.pc \in Nat /\ first.pc < 2^PcLength
      /\ r.next.pc = NextPc(ins, RegsRead(ins), first.flag, r.out.flag)
  <2>1. /\ r.first = [first EXCEPT !.regs = RegsRead(ins)]
        /\ r.next.pc = NextPc(ins, RegsRead(ins), first.flag, r.out.flag)
    BY RowTyped DEF Sound, Making
  <2>2. first \in TraceLine /\ first.pc < 2^PcLength
    BY DEF Sound, Typed
  <2>. QED  BY <2>1, <2>2 DEF TraceLine
<1>. SUFFICES ASSUME found_answer'
              PROVE  /\ Made' > 0 /\ Stays(program'[table'[Made'].first.pc + 1].op)
                     /\ first'.pc = table'[Made'].first.pc
  BY DEF Held, Instr, Stays
<1>3. Stays(ins.op)
  BY DEF Held, Making
<1>4. r.next.pc = first.pc
  <2>1. ~Jumps(ins.op, first.flag, r.out.flag)
    BY <1>3 DEF Stays, Jumps, Branch
  <2>2. r.next.pc = first.pc % 2^PcLength
    BY <1>2, <1>3, <2>1 DEF NextPc
  <2>3. 2^PcLength \in Nat
    BY StartedTyped DEF Sound
  <2>. DEFINE d == 2^PcLength
  <2>4. d \in Nat /\ first.pc < d /\ r.next.pc = first.pc % d
    BY <1>2, <2>2, <2>3
  <2>. HIDE DEF d
  <2>. QED  BY <1>2, <2>4
<1>5. table'[Made'].first.pc = first.pc
  BY <1>1, <1>2 DEF Kept
<1>6. first' = r.next /\ program' = program /\ ins = program[first.pc + 1]
  BY DEF Making, Instr
<1>. QED  BY <1>1, <1>3, <1>4, <1>5, <1>6

-----------------------------------------------------------------------------
(* The links: one cycle through all the rows, on which every memory row is *)
(* related to the next.                                                    *)

\* Counting on from a remainder.
LEMMA CountingOn ==
    ASSUME NEW n \in Nat, n > 0
    PROVE  /\ n % n = 0
           /\ \A x \in 0..n - 1 : x % n = x /\ (x + n) % n = x
           /\ \A i \in Nat : i % n \in 0..n - 1 /\ ((i % n) + 1) % n = (i + 1) % n
<1>1. \A q \in Nat, r \in 0..n - 1 : (n * q + r) % n = r
  BY QuotientUnique
<1>2. n * 0 = 0 /\ n * 1 = n
  OBVIOUS
<1>3. \A x \in 0..n - 1 : x % n = x /\ (x + n) % n = x
  <2>. SUFFICES ASSUME NEW x \in 0..n - 1 PROVE x % n = x /\ (x + n) % n = x
    OBVIOUS
  <2>1. (n * 0 + x) % n = x /\ (n * 1 + x) % n = x
    BY <1>1
  <2>2. n * 0 + x = x /\ n * 1 + x = x + n
    BY <1>2
  <2>. QED  BY <2>1, <2>2
<1>4. n % n = 0
  <2>1. 0 \in 0..n - 1 /\ 0 + n = n
    OBVIOUS
  <2>. QED  BY <1>3, <2>1
<1>5. ASSUME NEW i \in Nat PROVE i % n \in 0..n - 1 /\ ((i % n) + 1) % n = (i + 1) % n
  <2>. DEFINE q == i \div n
              r == i % n
  <2>1. q \in Nat /\ r \in 0..n - 1 /\ i = n * q + r
    BY Quotient
  <2>. HIDE DEF q, r
  <2>2. CASE r + 1 < n
    <3>1. r + 1 \in 0..n - 1 /\ i + 1 = n * q + (r + 1)
      BY <2>1, <2>2
    <3>2. (i + 1) % n = r + 1 /\ (r + 1) % n = r + 1
      BY <1>1, <1>3, <2>1, <3>1
    <3>. QED  BY <2>1, <3>2 DEF r
  <2>3. CASE r + 1 = n
    <3>1. i + 1 = n * (q + 1) + 0 /\ q + 1 \in Nat /\ 0 \in 0..n - 1
      BY <2>1, <2>3
    <3>2. (i + 1) % n = 0 /\ (r + 1) % n = 0
      BY <1>1, <1>4, <2>3, <3>1
    <3>. QED  BY <2>1, <3>2 DEF r
  <2>. QED  BY <2>1, <2>2, <2>3
<1>. QED  BY <1>3, <1>4, <1>5

\* A function that follows perm from 0.
Follows(f, perm) == f = [k \in Nat |-> IF k = 0 THEN 0 ELSE perm[f[k - 1]]]
Followed(f, perm) == f = CHOOSE g : Follows(g, perm)

LEMMA FollowsStep ==
    ASSUME NEW f, NEW perm, Follows(f, perm)
    PROVE  \A k \in Nat : f[k] = IF k = 0 THEN 0 ELSE perm[f[k - 1]]
<1>. DEFINE h == [k \in Nat |-> IF k = 0 THEN 0 ELSE perm[f[k - 1]]]
<1>1. f = h /\ \A k \in Nat : h[k] = IF k = 0 THEN 0 ELSE perm[f[k - 1]]
  BY DEF Follows
<1>. HIDE DEF h
<1>. QED  BY <1>1

\* perm takes every number to the next on a list of them all, given their places.
Cyclic(n, at, place, perm) ==
  /\ \A i \in 1..n : at[i] \in 0..n - 1 /\ place[at[i]] = i
  /\ \A v \in 0..n - 1 : place[v] \in 1..n /\ at[place[v]] = v
  /\ \A v \in 0..n - 1 : perm[v] = at[(place[v] % n) + 1]

Covers(f, n) == {f[k] : k \in 0..n - 1} = 0..n - 1

\* Going round a list of all the numbers, given the place of each.
LEMMA RoundTheList ==
    ASSUME NEW n \in Nat, n > 0, NEW at, NEW place, NEW perm, NEW follow,
           Cyclic(n, at, place, perm), Followed(follow, perm)
    PROVE  Covers(perm, n) /\ Covers(follow, n)
<1>. DEFINE p == place[0]
            g == [k \in Nat |-> at[((p - 1 + k) % n) + 1]]
<1>. /\ \A i \in 1..n : at[i] \in 0..n - 1 /\ place[at[i]] = i
     /\ \A v \in 0..n - 1 : place[v] \in 1..n /\ at[place[v]] = v
     /\ \A v \in 0..n - 1 : perm[v] = at[(place[v] % n) + 1]
  BY DEF Cyclic
<1>1. p \in 1..n /\ at[p] = 0
  OBVIOUS
<1>2. /\ n % n = 0
      /\ \A x \in 0..n - 1 : x % n = x /\ (x + n) % n = x
      /\ \A i \in Nat : i % n \in 0..n - 1 /\ ((i % n) + 1) % n = (i + 1) % n
  BY CountingOn
<1>3. Follows(g, perm)
  <2>. SUFFICES ASSUME NEW k \in Nat PROVE g[k] = IF k = 0 THEN 0 ELSE perm[g[k - 1]]
    BY DEF Follows
  <2>1. CASE k = 0
    <3>1. (p - 1 + 0) % n = p - 1
      <4>. HIDE DEF p
      <4>1. p - 1 + 0 = p - 1 /\ p - 1 \in 0..n - 1
        BY <1>1
      <4>. QED  BY <1>2, <4>1
    <3>. QED  BY <1>1, <2>1, <3>1
  <2>2. CASE k # 0
    <3>. DEFINE i == p - 1 + (k - 1)
    <3>1. i \in Nat /\ k - 1 \in Nat /\ p - 1 + k = i + 1
      BY <1>1, <2>2
    <3>2. g[k - 1] = at[(i % n) + 1] /\ g[k] = at[((i + 1) % n) + 1]
      BY <3>1
    <3>. HIDE DEF i, g, p
    <3>3. (i % n) + 1 \in 1..n /\ ((i % n) + 1) % n = (i + 1) % n
      BY <1>2, <3>1
    <3>. DEFINE q == (i % n) + 1
    <3>4. q \in 1..n /\ q % n = (i + 1) % n /\ g[k - 1] = at[q]
      BY <3>2, <3>3
    <3>. HIDE DEF q
    <3>5. at[q] \in 0..n - 1 /\ place[at[q]] = q
      BY <3>4
    <3>6. perm[at[q]] = at[(q % n) + 1]
      BY <3>5
    <3>. QED  BY <2>2, <3>2, <3>4, <3>6
  <2>. QED  BY <2>1, <2>2
<1>. HIDE DEF g
<1>4. Follows(follow, perm)
  BY <1>3 DEF Followed
<1>5. \A k \in Nat : follow[k] = g[k]
  <2>. DEFINE S == {k \in Nat : follow[k] = g[k]}
  <2>1. /\ \A k \in Nat : follow[k] = IF k = 0 THEN 0 ELSE perm[follow[k - 1]]
        /\ \A k \in Nat : g[k] = IF k = 0 THEN 0 ELSE perm[g[k - 1]]
    BY <1>3, <1>4, FollowsStep
  <2>2. 0 \in S
    BY <2>1
  <2>3. ASSUME NEW k \in Nat, k \in S PROVE k + 1 \in S
    <3>1. k + 1 \in Nat /\ k + 1 # 0 /\ (k + 1) - 1 = k
      OBVIOUS
    <3>2. follow[k + 1] = perm[follow[k]] /\ g[k + 1] = perm[g[k]]
      BY <2>1, <3>1
    <3>. QED  BY <2>3, <3>1, <3>2
  <2>. HIDE DEF S
  <2>4. \A k \in Nat : k \in S
    BY <2>2, <2>3, SetInduction
  <2>. QED  BY <2>4 DEF S
<1>6. ASSUME NEW v \in 0..n - 1 PROVE perm[v] \in 0..n - 1 /\ \E u \in 0..n - 1 : perm[u] = v
  <2>. DEFINE i == place[v]
              j == IF i = 1 THEN n ELSE i - 1
  <2>1. i \in 1..n /\ at[i] = v /\ i \in Nat /\ (i % n) + 1 \in 1..n
    BY <1>2
  <2>. HIDE DEF i
  <2>2. j \in 1..n /\ (j % n) + 1 = i
    <3>1. CASE i = 1
      BY <1>2, <3>1
    <3>2. CASE i # 1
      <4>1. i - 1 \in 1..n /\ i - 1 \in 0..n - 1
        BY <2>1, <3>2
      <4>. QED  BY <1>2, <2>1, <3>2, <4>1
    <3>. QED  BY <3>1, <3>2
  <2>. HIDE DEF j
  <2>3. at[j] \in 0..n - 1 /\ place[at[j]] = j
    BY <2>2
  <2>4. perm[at[j]] = v
    BY <2>1, <2>2, <2>3
  <2>5. perm[v] \in 0..n - 1
    BY <2>1 DEF i
  <2>. QED  BY <2>3, <2>4, <2>5
<1>7. ASSUME NEW k \in 0..n - 1 PROVE follow[k] \in 0..n - 1
  <2>. DEFINE i == p - 1 + k
  <2>1. i \in Nat /\ k \in Nat /\ follow[k] = at[(i % n) + 1]
    <3>1. i \in Nat /\ k \in Nat
      BY <1>1
    <3>2. follow[k] = g[k]
      BY <1>5, <3>1
    <3>3. g[k] = at[((p - 1 + k) % n) + 1]
      BY <3>1 DEF g
    <3>. QED  BY <3>1, <3>2, <3>3
  <2>. HIDE DEF i
  <2>2. (i % n) + 1 \in 1..n
    BY <1>2, <2>1
  <2>. QED  BY <2>1, <2>2
<1>8. ASSUME NEW v \in 0..n - 1 PROVE \E k \in 0..n - 1 : follow[k] = v
  <2>. DEFINE i == place[v]
              k == IF i >= p THEN i - p ELSE i - p + n
  <2>1. i \in 1..n /\ at[i] = v
    OBVIOUS
  <2>. HIDE DEF i, p
  <2>2. k \in 0..n - 1 /\ k \in Nat
    BY <1>1, <2>1
  <2>3. (p - 1 + k) % n = i - 1
    <3>1. CASE i >= p
      <4>1. p - 1 + k = i - 1 /\ i - 1 \in 0..n - 1
        BY <1>1, <2>1, <3>1
      <4>. HIDE DEF k
      <4>. QED  BY <1>2, <4>1
    <3>2. CASE i < p
      <4>1. p - 1 + k = (i - 1) + n
        BY <1>1, <2>1, <3>2
      <4>2. i - 1 \in 0..n - 1
        BY <2>1
      <4>. HIDE DEF k
      <4>. QED  BY <1>2, <4>1, <4>2
    <3>. QED  BY <1>1, <2>1, <3>1, <3>2
  <2>. HIDE DEF k
  <2>4. follow[k] = at[((p - 1 + k) % n) + 1]
    BY <1>5, <2>2 DEF g
  <2>5. follow[k] = at[(i - 1) + 1] /\ (i - 1) + 1 = i
    BY <2>1, <2>3, <2>4
  <2>. QED  BY <2>1, <2>2, <2>5
<1>9. Covers(perm, n)
  BY <1>6 DEF Covers
<1>10. Covers(follow, n)
  BY <1>7, <1>8 DEF Covers
<1>. QED  BY <1>9, <1>10

\* A word is its own low bits, in words no longer than the 16 bits that sorting and
\* the moves between registers count on.
LEMMA ShortWords ==
    ASSUME W <= 16
    PROVE  \A v \in Word : Low16(v) = v
<1>1. 2^W <= 2^16 /\ 2^16 \in Nat /\ 2^W \in Nat
  BY WordLength, PowerMonotone, PowerPositive
<1>. DEFINE d == 2^16
<1>2. \A v \in Word : v \in Nat /\ v < d
  BY <1>1 DEF Word
<1>3. d \in Nat
  BY <1>1
<1>. HIDE DEF d
<1>4. \A v \in Word : v % d = v
  BY <1>2, <1>3
<1>. QED  BY <1>4 DEF Low16, d

\* Rows that follow each other once they are sorted.
LEMMA LinkedPairs ==
    ASSUME W <= 16, Sound, Loaded, NEW sorted, sorted = Sorted,
           NEW rows, rows = Overwritten(sorted),
           NEW s \in 1..Made, NEW u \in 1..Made,
           Place(sorted, u - 1) = Place(sorted, s - 1) + 1
    PROVE  PairHolds(rows[s], rows[u])
<1>. DEFINE p == Place(sorted, s - 1)
            one == rows[s]
            two == rows[u]
            a == table[s].out.address
            b == table[u].out.address
<1>. SUFFICES ASSUME two.out.isMemOp = 1
              PROVE  /\ one.out.isMemOp = 1
                     /\ one.out.aux1 = one.first.time /\ one.out.aux2 = two.first.time
                     /\ one.out.aux3 = Order(one.out.u2, one.out.u1)
                     /\ one.out.aux4 = Order(one.out.aux2, one.out.aux1)
                     /\ one.out.aux3 # Less
                     /\ one.out.aux3 = Equal =>
                          /\ two.out.isLoad = 1 => one.out.value = two.out.value
                          /\ one.out.aux4 = Greater
  BY DEF PairHolds
<1>1. Started /\ Typed /\ Chained
  BY DEF Sound
<1>2. SameKept(table[s], one) /\ SameKept(table[u], two)
  BY <1>1, LinkedRows
<1>3. /\ table[u].out.isMemOp = 1 /\ table[u].out.isLoad = two.out.isLoad
      /\ table[u].out.value = two.out.value /\ table[s].out.value = one.out.value
      /\ table[s].out.isMemOp = one.out.isMemOp
      /\ table[s].first = one.first /\ table[u].first = two.first
  BY <1>2 DEF SameKept
<1>4. \A q, r \in 1..Made : Precedes(q, r) <=> Place(sorted, q - 1) < Place(sorted, r - 1)
  BY <1>1, SortedTable
<1>5. \A q \in 1..Made : Place(sorted, q - 1) \in 1..Made
  BY <1>1, SortedTable
<1>6. p \in 1..Made /\ p + 1 \in 1..Made /\ p < Made
  <2>1. p + 1 \in 1..Made /\ p \in 1..Made /\ Made \in Nat
    BY <1>1, <1>5 DEF Typed, Made
  <2>. HIDE DEF p
  <2>. QED  BY <2>1
<1>7. Precedes(s, u)
  BY <1>4, <1>6
<1>8. /\ table[s].out.isMemOp \in Bit /\ a \in Word /\ b \in Word /\ a \in Int /\ b \in Int
      /\ table[s].first.time = s - 1 /\ table[u].first.time = u - 1
      /\ \A q \in 1..Made : table[q].out.isMemOp \in Bit
  BY <1>1, TableRow
<1>9. table[s].out.isMemOp = 1
  BY <1>3, <1>7, <1>8 DEF Precedes, Bit
<1>10. Low16(a) = a /\ Low16(b) = b
  BY <1>8, ShortWords
<1>11. a < b \/ (a = b /\ s < u)
  BY <1>3, <1>7, <1>9, <1>10 DEF Precedes
<1>12. /\ sorted[p].address = a /\ sorted[p].time = s - 1
       /\ sorted[p + 1].address = b /\ sorted[p + 1].time = u - 1
  <2>1. sorted[p] = MemoryTrace[s] /\ sorted[p + 1] = MemoryTrace[u]
    BY <1>1, SortedTable
  <2>. QED  BY <1>3, <1>8, <1>9, <2>1 DEF MemoryTrace
<1>13. /\ one.out.u1 = a /\ one.out.u2 = b /\ one.out.aux1 = s - 1 /\ one.out.aux2 = u - 1
       /\ one.out.aux3 = Order(b, a) /\ one.out.aux4 = Order(u - 1, s - 1)
  BY <1>1, <1>6, <1>9, <1>12, LinkedRows
<1>. HIDE DEF one, two, a, b, p
<1>14. one.out.aux3 # Less /\ (one.out.aux3 = Equal => a = b /\ s < u)
  BY <1>8, <1>11, <1>13 DEF Order, Less, Equal, Greater
<1>15. s < u => one.out.aux4 = Greater
  <2>1. s < u => u - 1 > s - 1
    OBVIOUS
  <2>. QED  BY <1>13, <2>1 DEF Order
<1>16. ASSUME a = b, s < u, table[u].out.isLoad = 1
       PROVE  table[s].out.value = table[u].out.value
  <2>1. SameCell(table[s], table[u])
    BY <1>3, <1>9, <1>16 DEF SameCell, a, b
  <2>2. ASSUME NEW k \in s + 1..u - 1, SameCell(table[k], table[u]) PROVE FALSE
    <3>1. k \in 1..Made /\ s < k /\ k < u
      BY <1>1 DEF Typed, Made
    <3>2. /\ table[k].out.isMemOp = 1 /\ table[k].out.address = b
      BY <2>2 DEF SameCell, b
    <3>3. Precedes(s, k) /\ Precedes(k, u)
      BY <1>3, <1>9, <1>16, <3>1, <3>2 DEF Precedes, a, b
    <3>4. p < Place(sorted, k - 1) /\ Place(sorted, k - 1) < p + 1
      BY <1>4, <3>1, <3>3 DEF p
    <3>5. Place(sorted, k - 1) \in Int
      BY <1>5, <3>1
    <3>. QED  BY <1>6, <3>4, <3>5
  <2>3. s \in 1..u - 1
    BY <1>16
  <2>. QED  BY <1>16, <2>1, <2>2, <2>3 DEF Loaded
<1>. QED  BY <1>3, <1>8, <1>9, <1>13, <1>14, <1>15, <1>16

LEMMA AssertionNeverFails ==
    ASSUME W <= 16, Sound, Loaded, NEW sorted, sorted = Sorted
    PROVE  AssertionHolds(sorted, Overwritten(sorted))
<1>. DEFINE rows == Overwritten(sorted)
<1>. HIDE DEF rows
<1>. SUFFICES ASSUME NEW i \in 1..Made - 1
              PROVE  PairHolds(rows[sorted[i].serial + 1], rows[sorted[i + 1].serial + 1])
  BY DEF AssertionHolds, rows
<1>1. Started /\ Typed /\ Chained /\ Made \in Nat
  BY DEF Sound, Typed, Made
<1>2. i \in 1..Made /\ i + 1 \in 1..Made
  BY <1>1
<1>3. PICK s \in 1..Made : Place(sorted, s - 1) = i
  BY <1>1, <1>2, SortedTable
<1>4. PICK u \in 1..Made : Place(sorted, u - 1) = i + 1
  BY <1>1, <1>2, SortedTable
<1>5. sorted[i] = MemoryTrace[s] /\ sorted[i + 1] = MemoryTrace[u]
  BY <1>1, <1>3, <1>4, SortedTable
<1>6. sorted[i].serial + 1 = s /\ sorted[i + 1].serial + 1 = u
  BY <1>5 DEF MemoryTrace
<1>7. PairHolds(rows[s], rows[u])
  BY <1>3, <1>4, LinkedPairs DEF rows
<1>. QED  BY <1>6, <1>7

\* The row of an answer touches no memory, and comes last.
LEMMA LastRowPlace ==
    ASSUME Sound, Held, found_answer, NEW sorted, sorted = Sorted, NEW s \in 1..Made - 1
    PROVE  Place(sorted, s - 1) \in 1..Made - 1
<1>1. Started /\ Typed /\ Chained /\ Made \in Nat
  BY DEF Sound, Typed, Made
<1>2. s \in 1..Made /\ Made \in 1..Made /\ s < Made
  BY <1>1
<1>3. table[Made].out.isMemOp = 0
  <2>1. Stays(Instr(table[Made].first.pc).op) /\ RowMade(table[Made])
    BY <1>1, <1>2 DEF Held, Chained
  <2>. QED  BY <2>1 DEF RowMade, SaysOfMemory, ToBit, Stays
<1>4. table[s].out.isMemOp \in Bit
  BY <1>1, <1>2, TableRow
<1>5. Precedes(s, Made)
  BY <1>2, <1>3, <1>4 DEF Precedes, Bit
<1>6. /\ Place(sorted, s - 1) \in 1..Made /\ Place(sorted, Made - 1) \in 1..Made
      /\ Place(sorted, s - 1) < Place(sorted, Made - 1)
  BY <1>1, <1>2, <1>5, SortedTable
<1>. DEFINE p == Place(sorted, s - 1)
            q == Place(sorted, Made - 1)
<1>7. p \in 1..Made /\ q \in 1..Made /\ p < q
  BY <1>6
<1>. HIDE DEF p, q
<1>8. p \in 1..Made - 1
  BY <1>1, <1>7
<1>. QED  BY <1>8 DEF p

\* The links are those of the cycle of the sorted rows.
LEMMA LinkedCycle ==
    ASSUME Sound, NEW sorted, sorted = Sorted, NEW perm, perm = Linked(sorted),
           NEW follow, Followed(follow, perm)
    PROVE  /\ DOMAIN perm = 0..Made - 1
           /\ Covers(perm, Made) /\ Covers(follow, Made)
           /\ \A s \in 1..Made : Place(sorted, s - 1) < Made =>
                \E u \in 1..Made : /\ perm[s - 1] = u - 1
                                   /\ Place(sorted, u - 1) = Place(sorted, s - 1) + 1
<1>. DEFINE n == Made
            at == [i \in 1..n |-> sorted[i].serial]
            place == [v \in 0..n - 1 |-> Place(sorted, v)]
<1>1. Started /\ Typed /\ Chained /\ n \in Nat
  BY DEF Sound, Typed, Made
<1>2. ASSUME NEW i \in 1..n
      PROVE  \E s \in 1..n : Place(sorted, s - 1) = i /\ sorted[i].serial = s - 1
  <2>1. PICK s \in 1..n : Place(sorted, s - 1) = i
    BY <1>1, SortedTable
  <2>2. sorted[i] = MemoryTrace[s]
    BY <1>1, <2>1, SortedTable
  <2>. QED  BY <2>1, <2>2 DEF MemoryTrace
<1>3. ASSUME NEW s \in 1..n
      PROVE  Place(sorted, s - 1) \in 1..n /\ sorted[Place(sorted, s - 1)].serial = s - 1
  <2>1. /\ Place(sorted, s - 1) \in 1..n
        /\ sorted[Place(sorted, s - 1)] = MemoryTrace[s]
    BY <1>1, SortedTable
  <2>. QED  BY <2>1 DEF MemoryTrace
<1>4. perm = [v \in 0..n - 1 |-> sorted[(Place(sorted, v) % n) + 1].serial]
  BY DEF Linked, After
<1>. HIDE DEF n
<1>5. \A v \in 0..n - 1 : v + 1 \in 1..n /\ (v + 1) - 1 = v
  BY <1>1
<1>6. \A i \in 1..n : at[i] \in 0..n - 1 /\ place[at[i]] = i
  <2>. SUFFICES ASSUME NEW i \in 1..n PROVE at[i] \in 0..n - 1 /\ place[at[i]] = i
    OBVIOUS
  <2>1. PICK s \in 1..n : Place(sorted, s - 1) = i /\ sorted[i].serial = s - 1
    BY <1>2
  <2>2. at[i] = s - 1 /\ s - 1 \in 0..n - 1
    BY <1>1, <2>1
  <2>. QED  BY <2>1, <2>2
<1>7. \A v \in 0..n - 1 : place[v] \in 1..n /\ at[place[v]] = v
  <2>. SUFFICES ASSUME NEW v \in 0..n - 1 PROVE place[v] \in 1..n /\ at[place[v]] = v
    OBVIOUS
  <2>1. Place(sorted, v) \in 1..n /\ sorted[Place(sorted, v)].serial = v
    BY <1>3, <1>5
  <2>. QED  BY <2>1
<1>8. \A v \in 0..n - 1 : perm[v] = at[(place[v] % n) + 1]
  <2>. SUFFICES ASSUME NEW v \in 0..n - 1 PROVE perm[v] = at[(place[v] % n) + 1]
    OBVIOUS
  <2>. DEFINE p == Place(sorted, v)
  <2>1. place[v] = p /\ p \in 1..n
    BY <1>7
  <2>2. perm[v] = sorted[(p % n) + 1].serial
    BY <1>4
  <2>. HIDE DEF p
  <2>3. (p % n) + 1 \in 1..n
    BY <1>1, <2>1, CountingOn
  <2>. QED  BY <2>1, <2>2, <2>3
<1>9. ASSUME n > 0
      PROVE  Covers(perm, n) /\ Covers(follow, n)
  <2>1. Cyclic(n, at, place, perm)
    BY <1>6, <1>7, <1>8 DEF Cyclic
  <2>. HIDE DEF at, place
  <2>. QED  BY <1>1, <1>9, <2>1, RoundTheList
<1>10. ASSUME n = 0
       PROVE  Covers(perm, n) /\ Covers(follow, n)
  BY <1>10 DEF Covers
<1>11. ASSUME NEW s \in 1..n, Place(sorted, s - 1) < n
       PROVE  \E u \in 1..n : /\ perm[s - 1] = u - 1
                              /\ Place(sorted, u - 1) = Place(sorted, s - 1) + 1
  <2>. DEFINE p == Place(sorted, s - 1)
  <2>1. p \in 1..n /\ p < n /\ s - 1 \in 0..n - 1
    BY <1>1, <1>3, <1>11
  <2>2. perm[s - 1] = sorted[(p % n) + 1].serial
    BY <1>4, <2>1
  <2>. HIDE DEF p
  <2>3. p \in 0..n - 1 /\ p + 1 \in 1..n /\ n > 0
    BY <1>1, <2>1
  <2>4. p % n = p
    BY <1>1, <2>3, CountingOn
  <2>5. PICK u \in 1..n : Place(sorted, u - 1) = p + 1 /\ sorted[p + 1].serial = u - 1
    BY <1>2, <2>3
  <2>. QED  BY <2>2, <2>4, <2>5 DEF p
<1>12. DOMAIN perm = 0..n - 1
  BY <1>4
<1>13. n = 0 \/ n > 0
  BY <1>1
<1>. QED  BY <1>9, <1>10, <1>11, <1>12, <1>13 DEF n

-----------------------------------------------------------------------------
(* The induction, with the memory, the answer and the links. *)

LEMMA FollowIsFollowed == Followed(Follow, permutation)
BY DEF Followed, Follows, Follow

LEMMA LinkConsistent ==
    ASSUME W <= 16, Consistent, LinkRows
    PROVE  Consistent'
<1>. DEFINE sorted == Sorted
            rows == Overwritten(sorted)
            perm == Linked(sorted)
<1>1. Sound /\ Remembered /\ Loaded /\ Held
  BY DEF Consistent
<1>2. Started /\ Typed /\ Chained /\ Made \in Nat
  BY <1>1 DEF Sound, Typed, Made
<1>3. mode' = "witness"
  BY <1>1, AssertionNeverFails DEF LinkRows
<1>4. table' = rows /\ permutation' = perm /\ Made = Rows
      /\ UNCHANGED <<program, tape, t, first, secread_cnt, memory, found_answer, answer>>
  BY DEF LinkRows
<1>5. Len(rows) = Made /\ \A s \in 1..Made : SameKept(table[s], rows[s])
  BY <1>2, LinkedRows
<1>6. \A s \in 1..Made : Place(sorted, s - 1) < Made =>
        \E u \in 1..Made : perm[s - 1] = u - 1 /\ PairHolds(rows[s], rows[u])
  <2>. SUFFICES ASSUME NEW s \in 1..Made, Place(sorted, s - 1) < Made
                PROVE  \E u \in 1..Made : perm[s - 1] = u - 1 /\ PairHolds(rows[s], rows[u])
    OBVIOUS
  <2>1. \E f : Followed(f, perm)
    BY DEF Followed
  <2>. HIDE DEF perm
  <2>2. PICK u \in 1..Made : perm[s - 1] = u - 1
                             /\ Place(sorted, u - 1) = Place(sorted, s - 1) + 1
    BY <1>1, <2>1, LinkedCycle DEF perm
  <2>3. PairHolds(rows[s], rows[u])
    BY <1>1, <2>2, LinkedPairs
  <2>. QED  BY <2>2, <2>3
<1>7. found_answer => \A s \in 1..Made - 1 : Place(sorted, s - 1) \in 1..Made - 1
  BY <1>1, LastRowPlace
<1>8. Followed(Follow', perm)
  <2>1. Followed(Follow, permutation)'
    BY DEF Followed, Follows, Follow
  <2>. QED  BY <1>4, <2>1 DEF Followed, Follows
<1>9. DOMAIN perm = 0..Made - 1 /\ Covers(perm, Made) /\ Covers(Follow', Made)
  BY <1>1, <1>8, LinkedCycle
<1>. HIDE DEF rows, perm, sorted
<1>10. Made' = Made /\ Rows' = Made
  BY <1>4, <1>5 DEF Made, Rows
<1>11. \A s \in 1..Made : /\ table'[s].out.isMemOp = table[s].out.isMemOp
                          /\ table'[s].out.isLoad = table[s].out.isLoad
                          /\ table'[s].out.address = table[s].out.address
                          /\ table'[s].out.value = table[s].out.value
                          /\ table'[s].first = table[s].first
  BY <1>4, <1>5 DEF SameKept
<1>12. Sound'
  BY <1>1, LinkKeeps
<1>13. \A i, j \in 1..Made : SameCell(table'[i], table'[j]) <=> SameCell(table[i], table[j])
  BY <1>11 DEF SameCell
<1>14. Remembered'
  <2>. SUFFICES ASSUME NEW i \in 1..Made, table'[i].out.isMemOp = 1,
                       \A j \in i + 1..Made : ~SameCell(table'[i], table'[j])
                PROVE  /\ table'[i].out.address \in DOMAIN memory'
                       /\ memory'[table'[i].out.address] = table'[i].out.value
    BY <1>10 DEF Remembered
  <2>1. \A j \in i + 1..Made : ~SameCell(table[i], table[j])
    BY <1>2, <1>13
  <2>. QED  BY <1>1, <1>4, <1>11, <2>1 DEF Remembered
<1>15. Loaded'
  <2>. SUFFICES ASSUME NEW i \in 1..Made, NEW j \in 1..i - 1, table'[i].out.isLoad = 1,
                       SameCell(table'[j], table'[i]),
                       \A k \in j + 1..i - 1 : ~SameCell(table'[k], table'[i])
                PROVE  table'[j].out.value = table'[i].out.value
    BY <1>10 DEF Loaded
  <2>1. j \in 1..Made /\ \A k \in j + 1..i - 1 : k \in 1..Made
    BY <1>2
  <2>2. SameCell(table[j], table[i]) /\ \A k \in j + 1..i - 1 : ~SameCell(table[k], table[i])
    BY <1>13, <2>1
  <2>3. table[i].out.isLoad = 1
    BY <1>11
  <2>4. table[j].out.value = table[i].out.value
    BY <1>1, <2>2, <2>3 DEF Loaded
  <2>. QED  BY <1>11, <2>1, <2>4
<1>16. Held'
  <2>1. Made > 0 => Made \in 1..Made
    BY <1>2
  <2>. QED  BY <1>1, <1>4, <1>10, <1>11, <2>1 DEF Held, Instr, Stays
<1>17. OneCycle'
  BY <1>4, <1>9, <1>10 DEF OneCycle, verify_permutation, Covers
<1>18. found_answer' => verify_constraintsPermutation'
  <2>. SUFFICES ASSUME found_answer, NEW s \in 1..Made - 1
                PROVE  PairHolds(table'[s], table'[permutation'[s - 1] + 1])
    BY <1>4, <1>10 DEF verify_constraintsPermutation
  <2>1. s \in 1..Made /\ Place(sorted, s - 1) < Made
    <3>1. Place(sorted, s - 1) \in 1..Made - 1 /\ Made \in Int
      BY <1>2, <1>7
    <3>. QED  BY <1>2, <3>1
  <2>2. PICK u \in 1..Made : perm[s - 1] = u - 1 /\ PairHolds(rows[s], rows[u])
    BY <1>6, <2>1
  <2>3. perm[s - 1] + 1 = u
    BY <2>2
  <2>. QED  BY <1>4, <2>2, <2>3
<1>19. Linkage'
  BY <1>3, <1>4, <1>10, <1>17, <1>18 DEF Linkage, LinkedModes
<1>. QED  BY <1>3, <1>12, <1>14, <1>15, <1>16, <1>19 DEF Consistent, Concluded

\* A step that leaves the rows, the memory and the links alone.
LEMMA SameLinks ==
    ASSUME Remembered, Loaded, Held, Linkage,
           UNCHANGED <<program, t, first, table, memory, permutation>>,
           found_answer' => found_answer, mode' \in LinkedModes <=> mode \in LinkedModes
    PROVE  Remembered' /\ Loaded' /\ Held' /\ Linkage'
<1>1. Made' = Made /\ Rows' = Rows
  BY DEF Made, Rows
<1>2. Remembered' /\ Loaded'
  BY <1>1 DEF Remembered, Loaded
<1>3. Held'
  BY <1>1 DEF Held, Instr, Stays
<1>4. verify_constraintsPermutation' <=> verify_constraintsPermutation
  BY <1>1 DEF verify_constraintsPermutation
<1>5. Follow' = Follow
  BY DEF Follow
<1>6. OneCycle' <=> OneCycle
  BY <1>1, <1>5 DEF OneCycle, verify_permutation
<1>7. Linkage'
  BY <1>1, <1>4, <1>6 DEF Linkage
<1>. QED  BY <1>2, <1>3, <1>7

LEMMA StartsConsistent == Init => Consistent
<1>. SUFFICES ASSUME Init PROVE Consistent
  OBVIOUS
<1>1. Sound
  BY Starts
<1>2. Made = 0 /\ ~found_answer /\ permutation = <<>> /\ mode = "construct"
  BY DEF Init, Made
<1>. QED  BY <1>1, <1>2 DEF Consistent, Remembered, Loaded, Held, Linkage, LinkedModes, Concluded

LEMMA KeepsConsistent ==
    ASSUME W <= 16
    PROVE  Consistent /\ [Next]_vars => Consistent'
<1>. SUFFICES ASSUME Consistent, [Next]_vars PROVE Consistent'
  OBVIOUS
<1>1. Sound /\ Remembered /\ Loaded /\ Held /\ Linkage
  BY DEF Consistent
<1>2. Sound'
  BY <1>1, Keeps
<1>3. CASE GenerateConstraints
  BY <1>1, <1>2, <1>3, SameLinks DEF GenerateConstraints, LinkedModes, Consistent, Concluded
<1>4. CASE Step
  <2>1. PICK ins, r : Making(ins, r)
    BY <1>1, <1>4, StepMakes
  <2>2. Remembered' /\ Loaded' /\ Held'
    BY <1>1, <2>1, StepRemembers, StepHolds
  <2>3. mode' = "rows" /\ mode = "rows" /\ permutation' = permutation
    BY <2>1 DEF Making
  <2>4. Linkage'
    BY <1>1, <2>3 DEF Linkage, LinkedModes
  <2>. QED  BY <1>2, <2>2, <2>3, <2>4 DEF Consistent, Concluded
<1>5. CASE StepFails
  BY <1>1, <1>2, <1>5, SameLinks DEF StepFails, LinkedModes, Consistent, Concluded
<1>6. CASE LinkRows
  BY <1>6, LinkConsistent
<1>7. CASE Answered
  BY <1>1, <1>2, <1>7, SameLinks DEF Answered, LinkedModes, Consistent, Concluded
<1>8. CASE NextAttempt
  <2>1. Made' = 0 /\ ~found_answer' /\ permutation' = <<>> /\ mode' = "construct"
    BY <1>8 DEF NextAttempt, Fresh, Made
  <2>. QED  BY <1>2, <2>1 DEF Consistent, Remembered, Loaded, Held, Linkage, LinkedModes, Concluded
<1>9. CASE GiveUp
  BY <1>1, <1>2, <1>9, SameLinks DEF GiveUp, LinkedModes, Consistent, Concluded
<1>10. CASE UNCHANGED vars
  BY <1>1, <1>2, <1>10, SameLinks DEF vars, Consistent, Concluded
<1>. QED  BY <1>3, <1>4, <1>5, <1>6, <1>7, <1>8, <1>9, <1>10 DEF Next

\* The witness of a program that answers is accepted: the checker's tests pass on what
\* is handed to the prover, unless a row takes a jump past the program counter or is the
\* NOT of a word of ones; and the assertion on the sorted memory rows ends no run.
THEOREM WitnessesAccepted ==
    ASSUME W <= 16
    PROVE  Spec => []((\A s \in 1 .. Made : Agrees(table[s])) => WitnessAccepted)
<1>1. Consistent => ((\A s \in 1..Made : Agrees(table[s])) => WitnessAccepted)
  <2>. SUFFICES ASSUME Consistent, \A s \in 1..Made : Agrees(table[s]) PROVE WitnessAccepted
    OBVIOUS
  <2>1. /\ Chained /\ Begun /\ Held /\ Linkage /\ Made \in Nat
    BY DEF Consistent, Sound, Typed, Made
  <2>2. mode = "abort" => permutation = <<>>
    BY <2>1 DEF Linkage, LinkedModes
  <2>3. ASSUME mode = "proved", found_answer
        PROVE  /\ verify_permutation
               /\ {Follow[k] : k \in 0..Rows - 1} = 0..Rows - 1
               /\ verify_constraintsAssignment
               /\ verify_constraintsPermutation
               /\ verify_boundary
    <3>1. Made = Rows /\ OneCycle /\ verify_constraintsPermutation
      BY <2>1, <2>3 DEF Linkage, LinkedModes
    <3>2. verify_constraintsAssignment
      <4>. SUFFICES ASSUME NEW s \in 1..Rows - 1
                    PROVE  RowHolds(AssignmentOf(table[s], table[s + 1].first))
        BY DEF verify_constraintsAssignment
      <4>1. s \in 1..Made /\ s < Made
        BY <2>1, <3>1
      <4>2. Following(s) = table[s + 1].first
        BY <4>1 DEF Following
      <4>. QED  BY <2>1, <4>1, <4>2 DEF Chained
    <3>3. verify_boundary
      BY <2>1, <2>3 DEF Begun, Held, verify_boundary
    <3>. QED  BY <3>1, <3>2, <3>3 DEF OneCycle
  <2>4. mode = "proved" => found_answer
    BY DEF Consistent, Concluded
  <2>. QED  BY <2>2, <2>3, <2>4 DEF WitnessAccepted
<1>2. Spec => []Consistent
  BY StartsConsistent, KeepsConsistent, PTL DEF Spec
<1>. QED  BY <1>1, <1>2, PTL

-----------------------------------------------------------------------------
(* What the arithmetic unit computes is what the instruction set says,     *)
(* opcode by opcode.                                                       *)

LEMMA BlankColumns ==
    ASSUME NEW in
    PROVE  Blank(in) = [Zeros EXCEPT !.result = in.left, !.flag = in.flag]
           /\ DOMAIN Blank(in) = ColumnNames
BY DEF Blank, Zeros, ColumnNames

\* The column of the result, by opcode.
LEMMA ResultColumn ==
    ASSUME NEW in, NEW loaded
    PROVE  /\ Witness("ADD", in, loaded).result = Low(in.arg1 + in.arg2)
           /\ Witness("SUB", in, loaded).result = Low(in.arg1 - in.arg2)
           /\ Witness("MULT", in, loaded).result = Low(Times("MULT", in))
           /\ Witness("UMULH", in, loaded).result = High(Times("UMULH", in))
           /\ Witness("SMULH", in, loaded).result = High(Times("SMULH", in))
           /\ Witness("UDIV", in, loaded).result = IF in.arg2 = 0 THEN 0 ELSE in.arg1 \div in.arg2
           /\ Witness("UMOD", in, loaded).result = IF in.arg2 = 0 THEN 0 ELSE in.arg1 % in.arg2
           /\ Witness("SHL", in, loaded).result = Low(Shifted("SHL", in))
           /\ Witness("SHR", in, loaded).result = High(Shifted("SHR", in))
           /\ \A op \in Bitwise :
                Witness(op, in, loaded).result = BitwiseResult(op, in.arg1, in.arg2)
           /\ \A op \in SetOn : Witness(op, in, loaded).result = SetsBit(op, in)
           /\ \A op \in Moves : Witness(op, in, loaded).result = in.arg2
<1>. DEFINE b == Blank(in)
<1>1. DOMAIN b = ColumnNames
  BY BlankColumns
<1>. HIDE DEF b
<1>2. Witness("ADD", in, loaded).result = Low(in.arg1 + in.arg2)
  BY <1>1 DEF Witness, Division, Shift, CompareEq, CompareGe, Moves, Jump, Output, ColumnNames, b
<1>3. Witness("SUB", in, loaded).result = Low(in.arg1 - in.arg2)
  BY <1>1 DEF Witness, Division, Shift, CompareEq, CompareGe, Moves, Jump, Output, ColumnNames, b
<1>4. Witness("MULT", in, loaded).result = Low(Times("MULT", in))
  BY <1>1 DEF Witness, Division, Shift, CompareEq, CompareGe, Moves, Jump, Output, ColumnNames, b
<1>5. Witness("UMULH", in, loaded).result = High(Times("UMULH", in))
  BY <1>1 DEF Witness, Division, Shift, CompareEq, CompareGe, Moves, Jump, Output, ColumnNames, b
<1>6. Witness("SMULH", in, loaded).result = High(Times("SMULH", in))
  BY <1>1 DEF Witness, Division, Shift, CompareEq, CompareGe, Moves, Jump, Output, ColumnNames, b
<1>7. /\ Witness("UDIV", in, loaded).result = IF in.arg2 = 0 THEN 0 ELSE in.arg1 \div in.arg2
      /\ Witness("UMOD", in, loaded).result = IF in.arg2 = 0 THEN 0 ELSE in.arg1 % in.arg2
  BY <1>1 DEF Witness, Division, Shift, CompareEq, CompareGe, Moves, Jump, Output, ColumnNames, b
<1>8. /\ Witness("SHL", in, loaded).result = Low(Shifted("SHL", in))
      /\ Witness("SHR", in, loaded).result = High(Shifted("SHR", in))
  BY <1>1 DEF Witness, Division, Shift, CompareEq, CompareGe, Moves, Jump, Output, ColumnNames, b
<1>9. ASSUME NEW op \in Bitwise
      PROVE  Witness(op, in, loaded).result = BitwiseResult(op, in.arg1, in.arg2)
  <2>1. CASE op \in {"XOR", "NOT"}
    BY <1>1, <2>1 DEF Witness, Division, Shift, CompareEq, CompareGe, Moves, Jump, Output, ColumnNames, b
  <2>2. CASE op \in {"AND", "OR"}
    BY <1>1, <2>2 DEF Witness, Division, Shift, CompareEq, CompareGe, Moves, Jump, Output, ColumnNames, b
  <2>. QED  BY <2>1, <2>2 DEF Bitwise
<1>10. ASSUME NEW op \in SetOn
      PROVE  Witness(op, in, loaded).result = SetsBit(op, in)
  <2>1. CASE op \in {"SEQ", "SNE"}
    BY <1>1, <2>1 DEF Witness, Division, Shift, CompareEq, CompareGe, Moves, Jump, Output, ColumnNames, b
  <2>2. CASE op \in {"SLT", "SLE"}
    BY <1>1, <2>2 DEF Witness, Division, Shift, CompareEq, CompareGe, Moves, Jump, Output, ColumnNames, b
  <2>. QED  BY <2>1, <2>2 DEF SetOn
<1>11. ASSUME NEW op \in Moves PROVE Witness(op, in, loaded).result = in.arg2
  BY <1>1 DEF Witness, Division, Shift, CompareEq, CompareGe, Moves, Jump, Output, ColumnNames, b
<1>. QED  BY <1>2, <1>3, <1>4, <1>5, <1>6, <1>7, <1>8, <1>9, <1>10, <1>11

\* The column of the flag, of what compares.
LEMMA FlagColumn ==
    ASSUME NEW in, NEW loaded, NEW op \in CompareEq \cup CompareGe \cup Branch
    PROVE  Witness(op, in, loaded).flag = SetsBit(op, in)
<1>. DEFINE b == Blank(in)
<1>1. DOMAIN b = ColumnNames
  BY BlankColumns
<1>. HIDE DEF b
<1>2. CASE op \in CompareEq
  BY <1>1, <1>2 DEF Witness, Division, Shift, CompareEq, CompareGe, Moves, Jump, Output, ColumnNames, b
<1>3. CASE op \in CompareGe
  BY <1>1, <1>3 DEF Witness, Division, Shift, CompareEq, CompareGe, Moves, Jump, Output, ColumnNames, b
<1>4. CASE op \in {"BEQ", "BNE"}
  BY <1>1, <1>4 DEF Witness, Division, Shift, CompareEq, CompareGe, Moves, Jump, Output, ColumnNames, b
<1>5. CASE op \in {"BLT", "BLE"}
  BY <1>1, <1>5 DEF Witness, Division, Shift, CompareEq, CompareGe, Moves, Jump, Output, ColumnNames, b
<1>. QED  BY <1>2, <1>3, <1>4, <1>5 DEF Branch

\* The result of an operation, whatever the row before left.
ResultMeant(op) ==
  \A in, loaded :
    IsInput(in) => Witness(op, in, loaded).result \in Zmips!Results(op, in.arg1, in.arg2)

LEMMA ArithmeticMeant ==
    \A op \in {"ADD", "SUB", "MULT", "UMULH", "SMULH"} : ResultMeant(op)
<1>. SUFFICES ASSUME NEW op \in {"ADD", "SUB", "MULT", "UMULH", "SMULH"}, NEW in, NEW loaded
              PROVE  Witness(op, in, loaded).result \in Zmips!Results(op, in.arg1, in.arg2)
  BY DEF ResultMeant
<1>. DEFINE x == in.arg1
            y == in.arg2
<1>1. CASE op \in {"ADD", "SUB"}
  BY <1>1, ResultColumn DEF Low, Zmips!Results
<1>2. CASE op \in {"MULT", "UMULH"}
  BY <1>2, ResultColumn DEF Low, High, Times, Zmips!Results
<1>3. CASE op = "SMULH"
  <2>1. Signed(x) = Zmips!Int2(x) /\ Signed(y) = Zmips!Int2(y)
    BY DEF Signed, Zmips!Int2
  <2>2. Witness(op, in, loaded).result = ((Signed(x) * Signed(y)) \div 2^W) % 2^W
    BY <1>3, ResultColumn DEF High, Times
  <2>. QED  BY <1>3, <2>1, <2>2 DEF Zmips!Results
<1>. QED  BY <1>1, <1>2, <1>3

LEMMA Dividing ==
    ASSUME NEW x \in Nat, NEW y \in Nat, y > 0
    PROVE  /\ x \div y \in 0..x /\ (x \div y) * y <= x /\ x < ((x \div y) + 1) * y
           /\ x % y \in 0..x /\ x % y < y /\ (x - (x % y)) % y = 0
<1>. DEFINE q == x \div y
            m == x % y
<1>1. q \in Nat /\ m \in 0..y - 1 /\ x = y * q + m
  BY Quotient
<1>2. (y * q + 0) % y = 0
  <2>. HIDE DEF q
  <2>. QED  BY <1>1, QuotientUnique
<1>. HIDE DEF q, m
<1>3. PICK p \in Nat : p = y * q
  BY <1>1
<1>4. p >= q
  <2>1. PICK e \in Nat : y = 1 + e
    OBVIOUS
  <2>2. p = q + e * q /\ e * q >= 0
    BY <1>1, <1>3, <2>1
  <2>. QED  BY <1>1, <2>2
<1>5. q * y = p /\ (q + 1) * y = p + y
  BY <1>1, <1>3
<1>6. x = p + m
  BY <1>1, <1>3
<1>7. (x - m) % y = 0
  BY <1>1, <1>2, <1>3, <1>6
<1>8. q \in 0..x /\ m \in 0..x /\ m < y /\ q * y <= x /\ x < (q + 1) * y
  BY <1>1, <1>3, <1>4, <1>5, <1>6
<1>. QED  BY <1>7, <1>8 DEF q, m

LEMMA DivisionMeant == \A op \in Division : ResultMeant(op)
<1>. SUFFICES ASSUME NEW op \in Division, NEW in, NEW loaded, IsInput(in)
              PROVE  Witness(op, in, loaded).result \in Zmips!Results(op, in.arg1, in.arg2)
  BY DEF ResultMeant
<1>1. PICK x, y : x = in.arg1 /\ y = in.arg2
  OBVIOUS
<1>2. /\ x \in Word /\ y \in Word /\ x \in Nat /\ y \in Nat /\ Zmips!Values = Word
      /\ 0 \in Word
  BY <1>1, WordsAreNumbers, WordLength DEF IsInput, Zmips!Values, Word
<1>3. \A k \in 0..x : k \in Word
  BY <1>2, WordLength DEF Word
<1>4. CASE op = "UDIV"
  <2>1. Witness(op, in, loaded).result = IF y = 0 THEN 0 ELSE x \div y
    BY <1>1, <1>4, ResultColumn
  <2>2. PICK v : v = IF y = 0 THEN 0 ELSE x \div y
    OBVIOUS
  <2>3. v \in Word /\ (y # 0 => v * y <= x /\ x < (v + 1) * y)
    BY <1>2, <1>3, <2>2, Dividing
  <2>. QED  BY <1>1, <1>2, <1>4, <2>1, <2>2, <2>3 DEF Zmips!Results
<1>5. CASE op = "UMOD"
  <2>1. Witness(op, in, loaded).result = IF y = 0 THEN 0 ELSE x % y
    BY <1>1, <1>5, ResultColumn
  <2>2. PICK v : v = IF y = 0 THEN 0 ELSE x % y
    OBVIOUS
  <2>3. v \in Word /\ (y # 0 => v < y /\ (x - v) % y = 0)
    BY <1>2, <1>3, <2>2, Dividing
  <2>. QED  BY <1>1, <1>2, <1>5, <2>1, <2>2, <2>3 DEF Zmips!Results
<1>. QED  BY <1>4, <1>5 DEF Division

\* A word has a digit at every place, and they are those Unpack gives.
LEMMA DigitsOfWord ==
    ASSUME NEW v \in Word
    PROVE  \A i \in Index : Zmips!Digit(v, i) = Unpack(v)[i] /\ Unpack(v)[i] \in {0, 1}
BY UnpackedWord DEF Zmips!Digit, Unpack, Bit

\* The digits of a word taken from all ones are the other digits.
LEMMA OnesComplement ==
    ASSUME NEW x \in Word
    PROVE  XorWord(AllOnes, x) = 2^W - 1 - x
<1>1. /\ W \in Nat /\ x \in 0..2^W - 1 /\ x \in Nat /\ 2^W \in Nat /\ AllOnes = 2^W - 1
      /\ AllOnes \in Word
  BY WordLength, WordsAreNumbers DEF Word, AllOnes
<1>2. ASSUME NEW y \in Word, NEW i \in Index
      PROVE  ((2^W - 1 - y) \div 2^i) % 2 = 1 - ((y \div 2^i) % 2)
  <2>. DEFINE d == 2^i
              e == 2^(W - i)
              h == 2^(W - i - 1)
              q == y \div d
              m == y % d
  <2>1. i \in Nat /\ W - i \in Nat /\ W - i - 1 \in Nat /\ i \in 0..W
    BY <1>1 DEF Index
  <2>2. d \in Nat /\ d > 0 /\ e \in Nat /\ h \in Nat /\ 2^W = e * d
    BY <1>1, <2>1, PowerPositive, PowerMonotone
  <2>3. e = h + h
    <3>1. (W - i - 1) + 1 = W - i
      BY <1>1, <2>1
    <3>2. 2^((W - i - 1) + 1) = h + h
      BY <2>1, PowerStep
    <3>. QED  BY <3>1, <3>2
  <2>4. y \in Nat /\ y \in 0..2^W - 1
    BY <1>1 DEF Word
  <2>5. q \in 0..e - 1
    <3>. HIDE DEF d, e
    <3>1. y \in 0..e * d - 1
      BY <2>2, <2>4
    <3>. QED  BY <2>2, <3>1, QuotientBelow
  <2>6. m \in 0..d - 1 /\ y = d * q + m
    <3>. HIDE DEF d
    <3>. QED  BY <2>2, <2>4, Quotient
  <2>. HIDE DEF d, e, h, q, m
  <2>7. 2^W - 1 - y = d * (e - 1 - q) + (d - 1 - m)
    <3>1. d * (e - 1 - q) = e * d - d - d * q
      BY <2>2, <2>5
    <3>. QED  BY <2>2, <2>4, <2>5, <2>6, <3>1
  <2>8. e - 1 - q \in Nat /\ d - 1 - m \in 0..d - 1
    BY <2>2, <2>5, <2>6
  <2>9. (2^W - 1 - y) \div d = e - 1 - q
    BY <2>2, <2>7, <2>8, QuotientUnique
  <2>10. (e - 1 - q) % 2 = 1 - (q % 2)
    BY <2>2, <2>3, <2>5
  <2>. QED  BY <2>9, <2>10 DEF d, q
<1>. DEFINE z == 2^W - 1 - x
<1>3. z \in Word
  BY <1>1 DEF Word
<1>4. ASSUME NEW i \in Index PROVE Unpack(AllOnes)[i] = 1
  <2>1. 0 \in Word /\ AllOnes = 2^W - 1 - 0
    BY <1>1, WordLength
  <2>2. Unpack(AllOnes)[i] = 1 - ((0 \div 2^i) % 2)
    BY <1>2, <2>1 DEF Unpack
  <2>3. 2^i \in Nat /\ 2^i > 0
    BY WordLength, PowerPositive DEF Index
  <2>4. \A d \in Nat : d > 0 => (0 \div d) % 2 = 0
    OBVIOUS
  <2>. QED  BY <2>2, <2>3, <2>4
<1>5. ASSUME NEW i \in Index PROVE Unpack(XorWord(AllOnes, x))[i] = Unpack(z)[i]
  <2>1. Unpack(z)[i] = 1 - Unpack(x)[i]
    BY <1>2 DEF Unpack
  <2>2. Unpack(XorWord(AllOnes, x))[i] = (1 + Unpack(x)[i]) % 2
    BY <1>1, <1>4, XorOfWords
  <2>3. Unpack(x)[i] \in {0, 1}
    BY DigitsOfWord
  <2>. HIDE DEF z
  <2>. QED  BY <2>1, <2>2, <2>3
<1>. HIDE DEF z
<1>6. XorWord(AllOnes, x) \in Word
  BY <1>1, XorOfWords
<1>. QED  BY <1>3, <1>5, <1>6, SameBits DEF z

LEMMA BitwiseMeant == \A op \in Bitwise : ResultMeant(op)
<1>. SUFFICES ASSUME NEW op \in Bitwise, NEW in, NEW loaded, IsInput(in)
              PROVE  Witness(op, in, loaded).result \in Zmips!Results(op, in.arg1, in.arg2)
  BY DEF ResultMeant
<1>1. PICK x, y : x = in.arg1 /\ y = in.arg2
  OBVIOUS
<1>2. x \in Word /\ y \in Word /\ Zmips!Values = Word /\ 0..W - 1 = Index
  BY <1>1 DEF IsInput, Zmips!Values, Word, Index
<1>3. Witness(op, in, loaded).result = BitwiseResult(op, x, y)
  BY <1>1, ResultColumn
<1>4. \A i \in Index : /\ Zmips!Digit(x, i) = Unpack(x)[i] /\ Zmips!Digit(y, i) = Unpack(y)[i]
                       /\ Unpack(x)[i] \in {0, 1} /\ Unpack(y)[i] \in {0, 1}
  BY <1>2, DigitsOfWord
<1>5. CASE op = "XOR"
  <2>1. XorWord(x, y) \in Word
    BY <1>2, XorOfWords
  <2>2. \A i \in Index : Zmips!Digit(XorWord(x, y), i) = (Zmips!Digit(x, i) + Zmips!Digit(y, i)) % 2
    BY <1>2, <1>4, <2>1, XorOfWords, DigitsOfWord
  <2>3. Zmips!Digitwise(XorWord(x, y), x, y, LAMBDA a, b : (a + b) % 2)
    BY <1>2, <2>2 DEF Zmips!Digitwise
  <2>. QED  BY <1>1, <1>2, <1>3, <1>5, <2>1, <2>3 DEF BitwiseResult, Zmips!Results
<1>6. CASE op = "AND"
  <2>1. AndWord(x, y) \in Word
    BY <1>2, AndOfWords
  <2>2. \A i \in Index : Zmips!Digit(AndWord(x, y), i) = Zmips!Digit(x, i) * Zmips!Digit(y, i)
    BY <1>2, <1>4, <2>1, AndOfWords, DigitsOfWord
  <2>3. Zmips!Digitwise(AndWord(x, y), x, y, LAMBDA a, b : a * b)
    BY <1>2, <2>2 DEF Zmips!Digitwise
  <2>. QED  BY <1>1, <1>2, <1>3, <1>6, <2>1, <2>3 DEF BitwiseResult, Zmips!Results
<1>7. CASE op = "OR"
  <2>1. XorWord(x, y) \in Word /\ AndWord(x, y) \in Word /\ OrWord(x, y) \in Word
    BY <1>2, XorOfWords, AndOfWords, OrOfWords
  <2>2. ASSUME NEW i \in Index
        PROVE  Zmips!Digit(OrWord(x, y), i)
                 = Zmips!Digit(x, i) + Zmips!Digit(y, i) - Zmips!Digit(x, i) * Zmips!Digit(y, i)
    <3>1. Unpack(OrWord(x, y))[i] = (Unpack(XorWord(x, y))[i] + Unpack(AndWord(x, y))[i]) % 2
      BY <2>1, XorOfWords DEF OrWord
    <3>2. /\ Unpack(XorWord(x, y))[i] = (Unpack(x)[i] + Unpack(y)[i]) % 2
          /\ Unpack(AndWord(x, y))[i] = Unpack(x)[i] * Unpack(y)[i]
      BY <1>2, XorOfWords, AndOfWords
    <3>3. \A a, b \in {0, 1} : (((a + b) % 2) + (a * b)) % 2 = a + b - a * b
      OBVIOUS
    <3>. QED  BY <1>4, <2>1, <3>1, <3>2, <3>3, DigitsOfWord
  <2>3. Zmips!Digitwise(OrWord(x, y), x, y, LAMBDA a, b : a + b - a * b)
    BY <1>2, <2>2 DEF Zmips!Digitwise
  <2>. QED  BY <1>1, <1>2, <1>3, <1>7, <2>1, <2>3 DEF BitwiseResult, Zmips!Results
<1>8. CASE op = "NOT"
  BY <1>1, <1>2, <1>3, <1>8, OnesComplement DEF BitwiseResult, Zmips!Results
<1>. QED  BY <1>5, <1>6, <1>7, <1>8 DEF Bitwise

\* A multiple of a divisor's multiple.
LEMMA QuotientOfMultiple ==
    ASSUME NEW x \in Nat, NEW c \in Nat, c > 0, NEW d \in Nat, d > 0
    PROVE  (x * c) \div (c * d) = x \div d
<1>. DEFINE q == x \div d
            m == x % d
<1>1. q \in Nat /\ m \in 0..d - 1 /\ x = d * q + m
  BY Quotient
<1>. HIDE DEF q, m
<1>2. x * c = (c * d) * q + m * c
  BY <1>1
<1>3. m * c \in 0..(c * d) - 1
  <2>1. PICK e \in Nat : d = m + 1 + e
    BY <1>1
  <2>2. c * d = m * c + c + c * e /\ c * e >= 0 /\ m * c >= 0
    BY <1>1, <2>1
  <2>. QED  BY <1>1, <2>2
<1>4. c * d \in Nat
  OBVIOUS
<1>5. (x * c) \div (c * d) = q
  BY <1>1, <1>2, <1>3, <1>4, QuotientUnique
<1>. QED  BY <1>5 DEF q

LEMMA ShiftMeant == \A op \in Shift : ResultMeant(op)
<1>. SUFFICES ASSUME NEW op \in Shift, NEW in, NEW loaded, IsInput(in)
              PROVE  Witness(op, in, loaded).result \in Zmips!Results(op, in.arg1, in.arg2)
  BY DEF ResultMeant
<1>1. PICK x, y : x = in.arg1 /\ y = in.arg2
  OBVIOUS
<1>2. x \in Nat /\ y \in Nat /\ W \in Nat /\ W > 0
  BY <1>1, WordsAreNumbers, WordLength DEF IsInput
<1>3. PICK s \in 0..W - 1, p \in Nat : s = y % W /\ y = W * p + s
  <2>1. y \div W \in Nat /\ y % W \in 0..W - 1 /\ y = W * (y \div W) + (y % W)
    BY <1>2, Quotient
  <2>. QED  BY <2>1
<1>4. y - s = 0 <=> y < W
  <2>1. CASE p = 0
    BY <1>2, <1>3, <2>1
  <2>2. CASE p # 0
    <3>1. PICK e \in Nat : p = 1 + e
      BY <2>2
    <3>2. y = W + W * e + s /\ W * e >= 0
      BY <1>2, <1>3, <3>1
    <3>. QED  BY <1>2, <1>3, <3>2
  <2>. QED  BY <2>1, <2>2
<1>5. y < W => s = y
  BY <1>2, <1>3, <1>4
<1>6. Remainder(in) = y - s /\ ShiftAmount(in) = s
  BY <1>1, <1>3 DEF Remainder, ShiftAmount
<1>7. Shifted(op, in) = IF y >= W THEN 0 ELSE IF op = "SHL" THEN x * 2^y ELSE x * 2^(W - y)
  BY <1>1, <1>2, <1>4, <1>5, <1>6 DEF Shifted
<1>8. CASE op = "SHL"
  BY <1>1, <1>7, <1>8, ResultColumn DEF Low, Zmips!Results
<1>9. CASE op = "SHR"
  <2>1. Shifted(op, in) \div 2^W = IF y >= W THEN 0 ELSE x \div 2^y
    <3>1. CASE y >= W
      <4>1. \A d \in Nat : d > 0 => 0 \div d = 0
        OBVIOUS
      <4>2. 2^W \in Nat /\ 2^W > 0
        BY <1>2, PowerPositive
      <4>. QED  BY <1>7, <3>1, <4>1, <4>2
    <3>2. CASE y < W
      <4>1. W - y \in Nat /\ y \in 0..W
        BY <1>2, <3>2
      <4>2. /\ 2^(W - y) \in Nat /\ 2^(W - y) > 0 /\ 2^y \in Nat /\ 2^y > 0
            /\ 2^W = 2^(W - y) * 2^y
        BY <1>2, <4>1, PowerPositive, PowerMonotone
      <4>3. (x * 2^(W - y)) \div (2^(W - y) * 2^y) = x \div 2^y
        BY <1>2, <4>2, QuotientOfMultiple
      <4>4. Shifted(op, in) = x * 2^(W - y) /\ ~(y >= W)
        BY <1>2, <1>7, <1>9, <3>2
      <4>. QED  BY <4>2, <4>3, <4>4
    <3>. QED  BY <1>2, <3>1, <3>2
  <2>2. Witness(op, in, loaded).result = (Shifted(op, in) \div 2^W) % 2^W
    BY <1>9, ResultColumn DEF High
  <2>. QED  BY <1>1, <1>9, <2>1, <2>2 DEF Zmips!Results
<1>. QED  BY <1>8, <1>9 DEF Shift

\* What a comparison decides is whether its condition holds.
LEMMA Conditions ==
    ASSUME NEW in, IsInput(in)
    PROVE  /\ \A op \in {"BEQ", "BNE", "BLT", "BLE"} :
                SetsBit(op, in) = 1 <=> Zmips!Holds(op, in.dest, in.arg1)
           /\ \A op \in CompareEq \cup CompareGe :
                SetsBit(op, in) = 1 <=> Zmips!Holds(op, in.arg1, in.arg2)
           /\ SetsBit("SEQ", in) = 1 <=> in.arg1 = in.arg2
           /\ SetsBit("SNE", in) = 1 <=> in.arg1 # in.arg2
           /\ SetsBit("SLT", in) = 1 <=> Zmips!Int2(in.arg1) < Zmips!Int2(in.arg2)
           /\ SetsBit("SLE", in) = 1 <=> Zmips!Int2(in.arg1) <= Zmips!Int2(in.arg2)
           /\ \A op : SetsBit(op, in) \in Bit
<1>. USE DEF ToBit, Equality, Negated, SignedOp, Strict, Compared, Decides, Left, Right, Order,
             Less, Greater, Equal
<1>1. /\ \A v \in Word : Signed(v) = Zmips!Int2(v) /\ Signed(v) \in Int /\ v \in Int
      /\ in.arg1 \in Word /\ in.arg2 \in Word /\ in.dest \in Word
  BY WordsAreNumbers, SignedIsNumber DEF Signed, Zmips!Int2, IsInput
<1>2. /\ SetsBit("BEQ", in) = 1 <=> in.dest = in.arg1
      /\ SetsBit("BNE", in) = 1 <=> in.dest # in.arg1
      /\ SetsBit("CMPE", in) = 1 <=> in.arg1 = in.arg2
      /\ SetsBit("CMPNE", in) = 1 <=> in.arg1 # in.arg2
      /\ SetsBit("SEQ", in) = 1 <=> in.arg1 = in.arg2
      /\ SetsBit("SNE", in) = 1 <=> in.arg1 # in.arg2
  BY DEF SetsBit
<1>3. /\ SetsBit("BLT", in) = 1 <=> Signed(in.dest) < Signed(in.arg1)
      /\ SetsBit("BLE", in) = 1 <=> Signed(in.dest) <= Signed(in.arg1)
      /\ SetsBit("CMPA", in) = 1 <=> in.arg1 > in.arg2
      /\ SetsBit("CMPAE", in) = 1 <=> in.arg1 >= in.arg2
  BY <1>1 DEF SetsBit
<1>4. /\ SetsBit("CMPG", in) = 1 <=> Signed(in.arg1) > Signed(in.arg2)
      /\ SetsBit("CMPGE", in) = 1 <=> Signed(in.arg1) >= Signed(in.arg2)
      /\ SetsBit("SLT", in) = 1 <=> Signed(in.arg1) < Signed(in.arg2)
      /\ SetsBit("SLE", in) = 1 <=> Signed(in.arg1) <= Signed(in.arg2)
  BY <1>1 DEF SetsBit
<1>5. /\ \A x, y : Zmips!Holds("BEQ", x, y) <=> x = y
      /\ \A x, y : Zmips!Holds("CMPE", x, y) <=> x = y
      /\ \A x, y : Zmips!Holds("BNE", x, y) <=> x # y
      /\ \A x, y : Zmips!Holds("CMPNE", x, y) <=> x # y
      /\ \A x, y : Zmips!Holds("BLT", x, y) <=> Zmips!Int2(x) < Zmips!Int2(y)
      /\ \A x, y : Zmips!Holds("BLE", x, y) <=> Zmips!Int2(x) <= Zmips!Int2(y)
      /\ \A x, y : Zmips!Holds("CMPA", x, y) <=> x > y
      /\ \A x, y : Zmips!Holds("CMPAE", x, y) <=> x >= y
      /\ \A x, y : Zmips!Holds("CMPG", x, y) <=> Zmips!Int2(x) > Zmips!Int2(y)
      /\ \A x, y : Zmips!Holds("CMPGE", x, y) <=> Zmips!Int2(x) >= Zmips!Int2(y)
  BY DEF Zmips!Holds
<1>6. \A op : SetsBit(op, in) \in Bit
  BY DEF SetsBit, Bit
<1>. QED  BY <1>1, <1>2, <1>3, <1>4, <1>5, <1>6 DEF CompareEq, CompareGe

LEMMA SetOnMeant == \A op \in SetOn : ResultMeant(op)
<1>. SUFFICES ASSUME NEW op \in SetOn, NEW in, NEW loaded, IsInput(in)
              PROVE  Witness(op, in, loaded).result \in Zmips!Results(op, in.arg1, in.arg2)
  BY DEF ResultMeant
<1>1. Witness(op, in, loaded).result = SetsBit(op, in) /\ SetsBit(op, in) \in {0, 1}
  BY ResultColumn, Conditions DEF Bit
<1>2. CASE op \in {"SEQ", "SNE"}
  BY <1>1, <1>2, Conditions DEF Zmips!Results
<1>3. CASE op \in {"SLT", "SLE"}
  BY <1>1, <1>3, Conditions DEF Zmips!Results
<1>. QED  BY <1>2, <1>3 DEF SetOn

LEMMA UnitMeant == \A op \in Zmips!Computes : ResultMeant(op)
BY ArithmeticMeant, DivisionMeant, BitwiseMeant, ShiftMeant, SetOnMeant
   DEF Zmips!Computes, Division, Bitwise, Shift, SetOn

-----------------------------------------------------------------------------
(* The machine implements the instruction set.                             *)

\* The register the tape is read into is the machine's own: an instruction neither
\* reads it by its number nor moves it.  A number that is moved from is taken to 16 bits.
LeavesTapeRegister(ins) ==
  /\ ins.dest # SECREAD_REGISTER
  /\ (ins.op = "SECSEEK" /\ ins.imm1) \/ ins.arg1 # SECREAD_REGISTER
  /\ ins.imm \/ Reads(ins) \/ ins.arg2 # SECREAD_REGISTER
  /\ ins.op = "REGMOVE" =>
       IF ins.imm THEN ins.arg2 + ReservedRegs # SECREAD_REGISTER ELSE W <= 16

TapeRegisterLeft == \A run \in Runs : \A i \in 1..Len(run[1]) : LeavesTapeRegister(run[1][i])

\* The line after a row, were lines any numbers, is one the program counter has bits for.
LineMeant(r) ==
  LET ins == Instr(r.first.pc)
  IN  IF Jumps(ins.op, r.first.flag, r.out.flag)
      THEN IF ins.imm THEN ins.arg2 ELSE r.first.regs[ins.arg2]
      ELSE IF Stays(ins.op) THEN r.first.pc ELSE r.first.pc + 1
StaysInside(r) == LineMeant(r) \in 0 .. 2^PcLength - 1

Apart    == Regs \ {SECREAD_REGISTER}
RegsSeen == [i \in Apart |-> first.regs[i]]
Moved(ins) == IF ins.imm THEN ins.arg2 ELSE RegsSeen[ins.arg2]

\* What a row does to the state that programs see.
Effect(ins, r, in) ==
  /\ IsInput(in)
  /\ r.out = Witness(ins.op, in, IF ins.op = "LW" THEN memory[in.arg2] ELSE 0)
  /\ r.arg2 = in.arg2 /\ r.dest = in.dest
  /\ \/ ins.op = "SECSEEK" /\ ins.imm1
     \/ ins.arg1 \in Apart /\ in.arg1 = RegsSeen[ins.arg1]
  /\ ins.dest \in Apart /\ in.dest = RegsSeen[ins.dest]
  /\ first'.flag = r.out.flag /\ r.out.flag \in Bit
  /\ ins.op \in LeavesFlag => r.out.flag = first.flag
  /\ first'.pc = IF Jumps(ins.op, first.flag, r.out.flag) THEN Moved(ins)
                 ELSE IF Stays(ins.op) THEN first.pc ELSE first.pc + 1
  /\ RegsSeen' = IF ins.op \in WritesResult THEN [RegsSeen EXCEPT ![ins.dest] = r.out.result]
                 ELSE IF ins.op = "LW" THEN [RegsSeen EXCEPT ![ins.dest] = r.out.value]
                 ELSE RegsSeen
  /\ in.arg2 = CASE Reads(ins) -> tape[TapePosition(ins) + 1]
                 [] ins.op = "REGMOVE" -> RegsSeen[Moved(ins) + ReservedRegs]
                 [] OTHER -> IF ins.imm THEN ins.arg2 % 2^W ELSE RegsSeen[ins.arg2]

LEMMA StepEffect ==
    ASSUME Sound, TapeRegisterLeft, NEW ins, NEW r, Making(ins, r), StaysInside(Kept(r))
    PROVE  \E in : Effect(ins, r, in)
<1>. DEFINE regs == RegsRead(ins)
            in == [arg1 |-> regs[ins.arg1], arg2 |-> Arg2(ins, regs), dest |-> regs[ins.dest],
                   flag |-> first.flag, left |-> LastResult]
            loaded == IF ins.op = "LW" THEN memory[in.arg2] ELSE 0
            out == Witness(ins.op, in, loaded)
<1>1. /\ Started /\ Typed /\ ins \in InstructionSet /\ Named(ins) \subseteq Regs /\ r = RowOf(ins)
      /\ ~TapeExhausted(ins) /\ ~MovesNothing(ins) /\ ~LoadsNothing(ins) /\ first' = r.next
      /\ first.pc < Len(program) /\ ins = Instr(first.pc)
  BY DEF Sound, Making
<1>2. /\ regs \in [Regs -> Word] /\ Arg2(ins, regs) \in Word /\ ins.arg1 \in Regs
      /\ ins.dest \in Regs
  BY <1>1, OperandsTyped
<1>3. IsInput(in) /\ loaded \in Word
  BY <1>1, RowInput
<1>4. r.out = out /\ r.arg1 = in.arg1 /\ r.arg2 = in.arg2 /\ r.dest = in.dest
  BY <1>1 DEF RowOf
<1>5. /\ r.first = [first EXCEPT !.regs = regs] /\ r.next.flag = r.out.flag
      /\ r.next.pc = NextPc(ins, regs, first.flag, r.out.flag)
      /\ r.next.regs = NextRegs(ins, regs, r.out)
      /\ r.next \in TraceLine
  BY <1>1, RowTyped
<1>6. first \in TraceLine /\ first.regs \in [Regs -> Word]
  BY <1>1 DEF Typed, TraceLine
<1>7. LeavesTapeRegister(ins)
  <2>1. PICK run \in Runs : program = run[1]
    BY <1>1 DEF Started
  <2>2. first.pc + 1 \in 1..Len(program)
    BY <1>1, <1>6, StartedTyped DEF TraceLine
  <2>. QED  BY <1>1, <2>1, <2>2 DEF TapeRegisterLeft, Instr
<1>. HIDE DEF loaded
<1>8. ins.op \in LeavesFlag => r.out.flag = first.flag
  <2>1. in.flag = first.flag
    OBVIOUS
  <2>. HIDE DEF in
  <2>2. RowOk(ins.op, in, loaded, in, out)
    BY <1>1, <1>3, UnitCompletes DEF Completes, InstructionSet, Sees
  <2>. QED  BY <1>4, <2>1, <2>2 DEF RowOk
<1>9. SECREAD_REGISTER \in Regs /\ \A i \in Apart : regs[i] = first.regs[i] /\ RegsSeen[i] = first.regs[i]
  <2>1. SECREAD_REGISTER \in Regs
    BY MachineAssumption DEF SECREAD_REGISTER, Regs
  <2>. QED  BY <1>6, <2>1 DEF RegsRead, Apart, RegsSeen
<1>10. /\ \/ ins.op = "SECSEEK" /\ ins.imm1
          \/ ins.arg1 \in Apart /\ in.arg1 = RegsSeen[ins.arg1]
       /\ ins.dest \in Apart /\ in.dest = RegsSeen[ins.dest]
  BY <1>2, <1>7, <1>9 DEF LeavesTapeRegister, Apart
<1>11. in.arg2 = CASE Reads(ins) -> tape[TapePosition(ins) + 1]
                  [] ins.op = "REGMOVE" -> RegsSeen[Moved(ins) + ReservedRegs]
                  [] OTHER -> IF ins.imm THEN ins.arg2 % 2^W ELSE RegsSeen[ins.arg2]
  <2>1. in.arg2 = Arg2(ins, regs)
    OBVIOUS
  <2>. HIDE DEF in
  <2>2. CASE Reads(ins)
    <3>1. Arg2(ins, regs) = regs[SECREAD_REGISTER]
      BY <2>2 DEF Arg2, Reads
    <3>2. regs[SECREAD_REGISTER] = tape[TapePosition(ins) + 1]
      BY <1>6, <1>9, <2>2 DEF RegsRead
    <3>3. ins.op # "REGMOVE"
      BY <2>2 DEF Reads
    <3>. QED  BY <2>1, <2>2, <3>1, <3>2, <3>3
  <2>3. CASE ~Reads(ins) /\ ins.op = "REGMOVE" /\ ins.imm
    <3>1. Arg2(ins, regs) = regs[ins.arg2 + ReservedRegs]
      BY <2>3 DEF Arg2
    <3>2. ins.arg2 + ReservedRegs \in Apart
      BY <1>1, <1>7, <2>3 DEF Named, LeavesTapeRegister, Apart
    <3>. QED  BY <1>9, <2>1, <2>3, <3>1, <3>2 DEF Moved
  <2>4. CASE ~Reads(ins) /\ ins.op = "REGMOVE" /\ ~ins.imm
    <3>1. Arg2(ins, regs) = regs[Low16(regs[ins.arg2]) + ReservedRegs] /\ regs = first.regs
      BY <2>4 DEF Arg2, RegsRead
    <3>2. ins.arg2 \in Apart /\ Low16(first.regs[ins.arg2]) + ReservedRegs \in Regs
      BY <1>1, <1>7, <2>4 DEF MovesNothing, LeavesTapeRegister, Apart
    <3>3. regs[ins.arg2] \in Word /\ W <= 16 /\ regs[ins.arg2] = RegsSeen[ins.arg2]
      BY <1>2, <1>7, <1>9, <2>4, <3>2 DEF Apart, LeavesTapeRegister
    <3>4. Low16(regs[ins.arg2]) = RegsSeen[ins.arg2] /\ RegsSeen[ins.arg2] \in Nat
      BY <3>3, ShortWords, WordsAreNumbers
    <3>5. RegsSeen[ins.arg2] + ReservedRegs \in Apart
      BY <3>1, <3>2, <3>4, MachineAssumption DEF Apart, SECREAD_REGISTER
    <3>. QED  BY <1>9, <2>1, <2>4, <3>1, <3>4, <3>5 DEF Moved
  <2>5. CASE ~Reads(ins) /\ ins.op # "REGMOVE" /\ ins.imm
    <3>1. Arg2(ins, regs) = ins.arg2 % 2^W
      BY <2>5 DEF Arg2
    <3>. QED  BY <2>1, <2>5, <3>1
  <2>6. CASE ~Reads(ins) /\ ins.op # "REGMOVE" /\ ~ins.imm
    <3>1. Arg2(ins, regs) = regs[ins.arg2]
      BY <2>6 DEF Arg2
    <3>2. ins.arg2 \in Apart
      BY <1>1, <1>7, <2>6 DEF Named, LeavesTapeRegister, Apart
    <3>. QED  BY <1>9, <2>1, <2>6, <3>1, <3>2
  <2>. QED  BY <2>2, <2>3, <2>4, <2>5, <2>6
<1>12. first'.pc = IF Jumps(ins.op, first.flag, r.out.flag) THEN Moved(ins)
                   ELSE IF Stays(ins.op) THEN first.pc ELSE first.pc + 1
  <2>. DEFINE d == 2^PcLength
              jumps == Jumps(ins.op, first.flag, r.out.flag)
              v == IF jumps THEN Moved(ins)
                   ELSE IF Stays(ins.op) THEN first.pc ELSE first.pc + 1
  <2>1. Kept(r).first = r.first /\ Kept(r).out = r.out /\ r.first.pc = first.pc
        /\ r.first.flag = first.flag /\ r.first.regs = regs
    BY <1>5, <1>6 DEF Kept, TraceLine
  <2>2. jumps => ~Reads(ins) /\ ins.op # "REGMOVE"
    BY DEF Jumps, Reads, Branch
  <2>3. jumps /\ ~ins.imm => ins.arg2 \in Apart
    BY <1>1, <1>7, <2>2 DEF Named, LeavesTapeRegister, Apart
  <2>4. jumps /\ ~ins.imm => regs[ins.arg2] = RegsSeen[ins.arg2]
    BY <1>9, <2>3
  <2>5. v = LineMeant(Kept(r))
    BY <1>1, <2>1, <2>4 DEF LineMeant, Moved
  <2>6. d \in Nat /\ d > 0
    BY <1>1, StartedTyped
  <2>7. v \in 0..d - 1
    BY <2>5 DEF StaysInside
  <2>8. r.next.pc = v % d
    <3>. HIDE DEF d
    <3>1. \A a \in Int : a \in 0..d - 1 => a % d = a
      BY <2>6
    <3>2. CASE jumps /\ ~ins.imm
      <4>1. v = regs[ins.arg2] /\ Target(ins, regs) = regs[ins.arg2] % d
        BY <2>4, <3>2 DEF Moved, Target, d
      <4>2. Target(ins, regs) = v
        BY <2>6, <2>7, <3>1, <4>1
      <4>. QED  BY <1>5, <3>2, <4>2 DEF NextPc, d
    <3>3. CASE jumps /\ ins.imm
      BY <1>5, <3>3 DEF NextPc, Moved, Target, d
    <3>4. CASE ~jumps
      BY <1>5, <3>4 DEF NextPc, d
    <3>. QED  BY <3>2, <3>3, <3>4
  <2>. HIDE DEF d, v
  <2>9. r.next.pc = v
    BY <2>6, <2>7, <2>8
  <2>. QED  BY <1>1, <2>9 DEF v
<1>13. RegsSeen' = IF ins.op \in WritesResult THEN [RegsSeen EXCEPT ![ins.dest] = r.out.result]
                   ELSE IF ins.op = "LW" THEN [RegsSeen EXCEPT ![ins.dest] = r.out.value]
                   ELSE RegsSeen
  <2>1. RegsSeen' = [i \in Apart |-> r.next.regs[i]] /\ RegsSeen = [i \in Apart |-> regs[i]]
    BY <1>1, <1>9 DEF RegsSeen, Apart, Regs
  <2>2. Apart \subseteq Regs
    BY DEF Apart
  <2>. HIDE DEF regs
  <2>3. "LW" \notin WritesResult
    BY DEF WritesResult, Moves, Bitwise, Product, Division, Shift, SetOn
  <2>. DEFINE others == [regs EXCEPT ![ins.dest] = r.out.result]
              loads  == [regs EXCEPT ![ins.dest] = r.out.value]
  <2>4. CASE ins.op \in WritesResult
    <3>0. ins.op # "LW"
      BY <2>3, <2>4
    <3>1. r.next.regs = others
      BY <1>5, <2>4, <3>0 DEF NextRegs
    <3>. QED  BY <1>2, <2>1, <2>2, <2>4, <3>1
  <2>5. CASE ins.op = "LW"
    <3>0. ins.op \notin WritesResult
      BY <2>3, <2>5
    <3>1. r.next.regs = loads
      BY <1>5, <2>5, <3>0 DEF NextRegs
    <3>. QED  BY <1>2, <2>1, <2>2, <2>5, <3>0, <3>1
  <2>6. CASE ins.op \notin WritesResult /\ ins.op # "LW"
    <3>1. r.next.regs = regs
      BY <1>5, <2>6 DEF NextRegs
    <3>. QED  BY <2>1, <2>6, <3>1
  <2>. QED  BY <2>4, <2>5, <2>6
<1>14. first'.flag = r.out.flag /\ r.out.flag \in Bit
  BY <1>1, <1>5 DEF TraceLine
<1>15. r.out = Witness(ins.op, in, IF ins.op = "LW" THEN memory[in.arg2] ELSE 0)
  BY <1>4 DEF loaded
<1>. HIDE DEF in
<1>. QED  BY <1>3, <1>4, <1>8, <1>10, <1>11, <1>12, <1>13, <1>14, <1>15 DEF Effect

\* What programs see of a step that makes a row, before any answer is found.
Seeing(ins, in) ==
  /\ Zmips!Ins = ins /\ Zmips!Given = Moved(ins)
  /\ \A ops : Zmips!Is(ops) <=> ins.op \in ops
  /\ ~Reads(ins) /\ ins.op # "REGMOVE" => Zmips!Operand = in.arg2
  /\ Zmips!AnyFlag

LEMMA StepSeen ==
    ASSUME Sound, ~found_answer, NEW ins, NEW r, Making(ins, r), NEW in, Effect(ins, r, in)
    PROVE  Seeing(ins, in)
<1>1. Zmips!Ins = ins
  BY DEF Zmips!Ins, Making, Instr
<1>2. Zmips!Given = Moved(ins)
  BY <1>1 DEF Zmips!Given, Moved, RegsSeen, Apart
<1>3. ASSUME NEW ops PROVE Zmips!Is(ops) <=> ins.op \in ops
  BY <1>1 DEF Zmips!Is, Zmips!NoAnswer, Making
<1>4. ~Reads(ins) /\ ins.op # "REGMOVE" => Zmips!Operand = in.arg2
  <2>. SUFFICES ASSUME ~Reads(ins), ins.op # "REGMOVE" PROVE Zmips!Operand = in.arg2
    OBVIOUS
  <2>1. in.arg2 = IF ins.imm THEN ins.arg2 % 2^W ELSE RegsSeen[ins.arg2]
    BY DEF Effect
  <2>. QED  BY <1>1, <2>1 DEF Zmips!Operand, RegsSeen, Apart
<1>5. Zmips!AnyFlag
  BY DEF Zmips!AnyFlag, Effect, Bit
<1>. QED  BY <1>1, <1>2, <1>3, <1>4, <1>5 DEF Seeing

LEMMA GoesOn ==
    ASSUME Sound, ~found_answer, NEW ins, NEW r, Making(ins, r), NEW in, Effect(ins, r, in),
           ~Stays(ins.op)
    PROVE  /\ ~Jumps(ins.op, first.flag, r.out.flag) => Zmips!Continue
           /\ found_answer' = FALSE /\ program' = program /\ tape' = tape
           /\ ins.op # "SW" => memory' = memory
           /\ ins.op # "SECREAD" => secread_cnt' = secread_cnt
<1>1. /\ found_answer' = FALSE /\ program' = program /\ tape' = tape
      /\ ins.op # "SW" => memory' = memory
  BY DEF Making, Stays
<1>2. ins.op # "SECREAD" => secread_cnt' = secread_cnt
  BY DEF Making, Sound, Typed, ToBit
<1>3. ~Jumps(ins.op, first.flag, r.out.flag) => first'.pc = first.pc + 1
  BY DEF Effect
<1>. QED  BY <1>1, <1>2, <1>3 DEF Zmips!Continue

\* An operation computes one of the results the instruction set gives it.
LEMMA ComputeMeant ==
    ASSUME Sound, ~found_answer, NEW ins, NEW r, Making(ins, r), NEW in, Effect(ins, r, in),
           ins.op \in Zmips!Computes
    PROVE  Zmips!Compute
<1>1. /\ ins.op \in WritesResult /\ ~Reads(ins) /\ ~Stays(ins.op)
      /\ ins.op \notin {"REGMOVE", "SW", "SECREAD", "SECSEEK"}
      /\ ~Jumps(ins.op, first.flag, r.out.flag)
  BY DEF Zmips!Computes, WritesResult, Bitwise, Product, Division, Shift, SetOn, Reads, Stays,
         Jumps, Branch
<1>2. Seeing(ins, in)
  BY StepSeen
<1>3. Zmips!Continue /\ memory' = memory /\ secread_cnt' = secread_cnt
  BY <1>1, GoesOn
<1>4. r.out.result \in Zmips!Results(ins.op, in.arg1, in.arg2)
  BY UnitMeant DEF ResultMeant, Effect
<1>5. in.arg1 = RegsSeen[ins.arg1]
  BY <1>1 DEF Effect
<1>6. RegsSeen' = [RegsSeen EXCEPT ![ins.dest] = r.out.result]
  BY <1>1 DEF Effect
<1>. QED  BY <1>1, <1>2, <1>3, <1>4, <1>5, <1>6
          DEF Zmips!Compute, Zmips!Put, Seeing, RegsSeen, Apart

LEMMA MoveMeant ==
    ASSUME Sound, ~found_answer, NEW ins, NEW r, Making(ins, r), NEW in, Effect(ins, r, in),
           ins.op \in {"MOVE", "REGMOVE"}
    PROVE  Zmips!Move
<1>1. /\ ins.op \in WritesResult /\ ~Reads(ins) /\ ~Stays(ins.op)
      /\ ~Jumps(ins.op, first.flag, r.out.flag)
  BY DEF WritesResult, Moves, Reads, Stays, Jumps, Branch
<1>2. Seeing(ins, in)
  BY StepSeen
<1>3. Zmips!Continue /\ memory' = memory /\ secread_cnt' = secread_cnt
  BY <1>1, GoesOn
<1>4. r.out.result = in.arg2
  BY ResultColumn DEF Effect, Moves
<1>5. RegsSeen' = [RegsSeen EXCEPT ![ins.dest] = in.arg2]
  BY <1>1, <1>4 DEF Effect
<1>6. in.arg2 = IF ins.op = "MOVE" THEN Zmips!Operand ELSE RegsSeen[Moved(ins) + ReservedRegs]
  <2>1. CASE ins.op = "MOVE"
    BY <1>1, <1>2, <2>1 DEF Seeing
  <2>2. CASE ins.op = "REGMOVE"
    BY <1>1, <2>2 DEF Effect
  <2>. QED  BY <2>1, <2>2
<1>7. Zmips!Is({"MOVE", "REGMOVE"})
  BY <1>2 DEF Seeing
<1>8. Zmips!Ins = ins /\ Zmips!Given = Moved(ins) /\ Zmips!AnyFlag
  BY <1>2 DEF Seeing
<1>9. RegsSeen' = [RegsSeen EXCEPT ![ins.dest] = IF ins.op = "MOVE" THEN Zmips!Operand
                                                 ELSE RegsSeen[Moved(ins) + ReservedRegs]]
  BY <1>5, <1>6
<1>. QED  BY <1>3, <1>7, <1>8, <1>9 DEF Zmips!Move, Zmips!Put, RegsSeen, Apart

LEMMA ReadMeant ==
    ASSUME Sound, ~found_answer, NEW ins, NEW r, Making(ins, r), NEW in, Effect(ins, r, in),
           Reads(ins)
    PROVE  Zmips!ReadTape
<1>. DEFINE place == IF ins.op = "SECREAD" THEN secread_cnt
                     ELSE IF ins.imm1 THEN ins.arg1 ELSE RegsSeen[ins.arg1]
<1>1. /\ ins.op \in WritesResult /\ ~Stays(ins.op) /\ ins.op \in {"SECREAD", "SECSEEK"}
      /\ ~Jumps(ins.op, first.flag, r.out.flag) /\ ins.op # "SW"
  BY DEF WritesResult, Moves, Reads, Stays, Jumps, Branch
<1>2. Seeing(ins, in)
  BY StepSeen
<1>3. Zmips!Continue /\ memory' = memory
  BY <1>1, GoesOn
<1>4. place = TapePosition(ins)
  BY <1>1 DEF TapePosition, Effect, RegsSeen
<1>5. place \in Nat /\ Len(tape) \in Nat
  <2>1. first.regs \in [Regs -> Word] /\ secread_cnt \in Nat /\ ins.arg1 \in Nat
    BY DEF Sound, Typed, TraceLine, Making, InstructionSet
  <2>2. RegsSeen \in [Apart -> Nat]
    BY <2>1, WordsAreNumbers DEF RegsSeen, Apart
  <2>3. Len(tape) \in Nat
    BY StartedTyped DEF Sound
  <2>. QED  BY <1>1, <2>1, <2>2, <2>3 DEF Effect
<1>6. place < Len(tape)
  BY <1>4, <1>5 DEF Making, TapeExhausted
<1>7. r.out.result = in.arg2
  BY <1>1, ResultColumn DEF Effect, Moves
<1>8. in.arg2 = tape[place + 1]
  <2>1. ins.op # "REGMOVE"
    BY <1>1
  <2>. QED  BY <1>4, <2>1 DEF Effect
<1>9. RegsSeen' = [RegsSeen EXCEPT ![ins.dest] = tape[place + 1]]
  BY <1>1, <1>7, <1>8 DEF Effect
<1>10. secread_cnt' = IF ins.op = "SECREAD" THEN secread_cnt + 1 ELSE secread_cnt
  BY DEF Making, Sound, Typed, ToBit
<1>11. Zmips!Is({"SECREAD", "SECSEEK"}) /\ Zmips!Ins = ins /\ Zmips!AnyFlag
  BY <1>1, <1>2 DEF Seeing
<1>. QED  BY <1>3, <1>6, <1>9, <1>10, <1>11 DEF Zmips!ReadTape, Zmips!Put, RegsSeen, Apart

LEMMA LoadMeant ==
    ASSUME Sound, ~found_answer, NEW ins, NEW r, Making(ins, r), NEW in, Effect(ins, r, in),
           ins.op = "LW"
    PROVE  Zmips!Load
<1>1. /\ ins.op \notin WritesResult /\ ~Reads(ins) /\ ~Stays(ins.op)
      /\ ~Jumps(ins.op, first.flag, r.out.flag)
  BY DEF WritesResult, Moves, Bitwise, Product, Division, Shift, SetOn, Reads, Stays, Jumps, Branch
<1>2. Seeing(ins, in)
  BY StepSeen
<1>3. Zmips!Continue /\ memory' = memory /\ secread_cnt' = secread_cnt
  BY <1>1, GoesOn
<1>4. /\ r.arg2 = Arg2(ins, RegsRead(ins))
      /\ SaysOfMemory(ins.op, r, IF ins.op = "LW" THEN memory[r.arg2] ELSE 0, r.out)
  BY RowTyped DEF Making, Sound
<1>5. r.out.value = memory[in.arg2] /\ in.arg2 = r.arg2
  BY <1>4 DEF SaysOfMemory, Effect
<1>6. in.arg2 \in DOMAIN memory
  BY <1>1, <1>4, <1>5 DEF Making, LoadsNothing, RegsRead
<1>7. Zmips!Operand = in.arg2
  BY <1>1, <1>2 DEF Seeing
<1>8. RegsSeen' = [RegsSeen EXCEPT ![ins.dest] = memory[in.arg2]]
  BY <1>1, <1>5 DEF Effect
<1>9. Zmips!Is({"LW"}) /\ Zmips!AnyFlag /\ Zmips!Ins = ins
  BY <1>2 DEF Seeing
<1>. QED  BY <1>3, <1>6, <1>7, <1>8, <1>9 DEF Zmips!Load, Zmips!Put, RegsSeen, Apart

LEMMA StoreMeant ==
    ASSUME Sound, ~found_answer, NEW ins, NEW r, Making(ins, r), NEW in, Effect(ins, r, in),
           ins.op = "SW"
    PROVE  Zmips!Store
<1>1. /\ ins.op \notin WritesResult /\ ~Reads(ins) /\ ~Stays(ins.op)
      /\ ~Jumps(ins.op, first.flag, r.out.flag)
  BY DEF WritesResult, Moves, Bitwise, Product, Division, Shift, SetOn, Reads, Stays, Jumps, Branch
<1>2. Seeing(ins, in)
  BY StepSeen
<1>3. Zmips!Continue /\ secread_cnt' = secread_cnt
  BY <1>1, GoesOn
<1>4. SaysOfMemory(ins.op, r, IF ins.op = "LW" THEN memory[r.arg2] ELSE 0, r.out)
  BY RowTyped DEF Making, Sound
<1>5. r.out.address = in.arg2 /\ r.out.value = RegsSeen[ins.dest]
  BY <1>4 DEF SaysOfMemory, Effect
<1>6. Zmips!Operand = in.arg2
  BY <1>1, <1>2 DEF Seeing
<1>7. memory' = [a \in DOMAIN memory \cup {Zmips!Operand} |->
                   IF a = Zmips!Operand THEN RegsSeen[ins.dest] ELSE memory[a]]
  BY <1>5, <1>6 DEF Making, Stored
<1>8. RegsSeen' = RegsSeen
  BY <1>1 DEF Effect
<1>. QED  BY <1>2, <1>3, <1>7, <1>8 DEF Zmips!Store, Seeing, RegsSeen, Apart

LEMMA CompareMeant ==
    ASSUME Sound, ~found_answer, NEW ins, NEW r, Making(ins, r), NEW in, Effect(ins, r, in),
           ins.op \in Zmips!Compares
    PROVE  Zmips!Compare
<1>1. /\ ins.op \notin WritesResult /\ ~Reads(ins) /\ ~Stays(ins.op)
      /\ ins.op \notin {"REGMOVE", "SW", "SECREAD", "SECSEEK", "LW"}
      /\ ins.op \in CompareEq \cup CompareGe
      /\ ~Jumps(ins.op, first.flag, r.out.flag)
  BY DEF Zmips!Compares, WritesResult, Moves, Bitwise, Product, Division, Shift, SetOn, Reads,
         Stays, Jumps, Branch, CompareEq, CompareGe
<1>2. Seeing(ins, in)
  BY StepSeen
<1>3. Zmips!Continue /\ memory' = memory /\ secread_cnt' = secread_cnt
  BY <1>1, GoesOn
<1>4. in.arg1 = RegsSeen[ins.arg1] /\ RegsSeen' = RegsSeen
  BY <1>1 DEF Effect
<1>5. r.out.flag = SetsBit(ins.op, in) /\ first'.flag = r.out.flag
  BY <1>1, FlagColumn DEF Effect
<1>6. /\ SetsBit(ins.op, in) \in {0, 1}
      /\ SetsBit(ins.op, in) = 1 <=> Zmips!Holds(ins.op, in.arg1, in.arg2)
  BY <1>1, Conditions DEF Effect, Bit
<1>7. first'.flag = IF Zmips!Holds(ins.op, RegsSeen[ins.arg1], Zmips!Operand) THEN 1 ELSE 0
  BY <1>1, <1>2, <1>4, <1>5, <1>6 DEF Seeing
<1>. QED  BY <1>2, <1>3, <1>4, <1>7 DEF Zmips!Compare, Seeing, RegsSeen, Apart

\* A step to another line, of an instruction that writes nothing.
LEMMA GoneTo ==
    ASSUME Sound, ~found_answer, NEW ins, NEW r, Making(ins, r), NEW in, Effect(ins, r, in),
           ins.op \in Branch \cup Jump, NEW p,
           Jumps(ins.op, first.flag, r.out.flag) <=> p
    PROVE  Zmips!GoTo(p)
<1>1. ins.op \notin WritesResult /\ ins.op \notin {"SW", "SECREAD", "LW"} /\ ~Stays(ins.op)
  BY DEF WritesResult, Moves, Bitwise, Product, Division, Shift, SetOn, Stays, Branch, Jump
<1>2. Seeing(ins, in)
  BY StepSeen
<1>3. /\ memory' = memory /\ secread_cnt' = secread_cnt /\ found_answer' = FALSE
      /\ program' = program /\ tape' = tape
  BY <1>1, GoesOn
<1>4. RegsSeen' = RegsSeen
  BY <1>1 DEF Effect
<1>5. first'.pc = IF p THEN Zmips!Given ELSE first.pc + 1
  BY <1>1, <1>2 DEF Effect, Seeing
<1>. QED  BY <1>3, <1>4, <1>5 DEF Zmips!GoTo, RegsSeen, Apart

LEMMA BranchMeant ==
    ASSUME Sound, ~found_answer, NEW ins, NEW r, Making(ins, r), NEW in, Effect(ins, r, in),
           ins.op \in Branch
    PROVE  Zmips!Branch
<1>. DEFINE p == Zmips!Holds(ins.op, RegsSeen[ins.dest], RegsSeen[ins.arg1])
<1>1. Seeing(ins, in)
  BY StepSeen
<1>2. in.dest = RegsSeen[ins.dest] /\ in.arg1 = RegsSeen[ins.arg1]
  BY DEF Effect, Branch
<1>3. r.out.flag = SetsBit(ins.op, in)
  BY FlagColumn DEF Effect
<1>4. SetsBit(ins.op, in) = 1 <=> p
  BY <1>2, Conditions DEF Effect, Branch
<1>6. Jumps(ins.op, first.flag, r.out.flag) <=> p
  BY <1>3, <1>4 DEF Jumps, Branch
<1>. HIDE DEF p
<1>7. Zmips!GoTo(p)
  BY <1>6, GoneTo
<1>8. Zmips!Is(Zmips!Branches)
  BY <1>1 DEF Seeing, Branch, Zmips!Branches
<1>. QED  BY <1>1, <1>7, <1>8 DEF Zmips!Branch, Seeing, RegsSeen, Apart, p

LEMMA JumpMeant ==
    ASSUME Sound, ~found_answer, NEW ins, NEW r, Making(ins, r), NEW in, Effect(ins, r, in),
           ins.op \in Jump
    PROVE  Zmips!Jump \/ Zmips!JumpOnFlag
<1>1. Seeing(ins, in)
  BY StepSeen
<1>2. CASE ins.op \in {"JMP", "JR"}
  <2>1. Zmips!GoTo(TRUE)
    BY <1>2, GoneTo DEF Jumps, Jump
  <2>. QED  BY <1>1, <1>2, <2>1 DEF Zmips!Jump, Seeing
<1>3. CASE ins.op \in {"CJMP", "CNJMP"}
  <2>. DEFINE p == (first.flag = 1) <=> (ins.op = "CJMP")
  <2>1. first.flag \in {0, 1}
    BY DEF Sound, Typed, TraceLine, Bit
  <2>2. Jumps(ins.op, first.flag, r.out.flag) <=> p
    BY <1>3, <2>1 DEF Jumps, Branch
  <2>. HIDE DEF p
  <2>4. Zmips!GoTo(p)
    BY <1>3, <2>2, GoneTo
  <2>. QED  BY <1>1, <1>3, <2>4 DEF Zmips!JumpOnFlag, Seeing, p
<1>. QED  BY <1>2, <1>3 DEF Jump

LEMMA OutputMeant ==
    ASSUME Sound, ~found_answer, NEW ins, NEW r, Making(ins, r), NEW in, Effect(ins, r, in),
           ins.op \in Output
    PROVE  Zmips!Show \/ Zmips!Answer
<1>1. /\ ins.op \notin WritesResult /\ ~Reads(ins) /\ ins.op \in LeavesFlag
      /\ ins.op \notin {"REGMOVE", "SW", "SECREAD", "SECSEEK", "LW"}
      /\ ~Jumps(ins.op, first.flag, r.out.flag)
  BY DEF Output, WritesResult, Moves, Bitwise, Product, Division, Shift, SetOn, Reads,
         LeavesFlag, Jumps, Branch
<1>2. Seeing(ins, in)
  BY StepSeen
<1>3. RegsSeen' = RegsSeen
  BY <1>1 DEF Effect
<1>4. CASE Stays(ins.op)
  <2>1. /\ first'.pc = first.pc /\ first'.flag = first.flag
    BY <1>1, <1>4 DEF Effect
  <2>2. /\ found_answer' = TRUE /\ answer' = r.arg2 /\ program' = program /\ tape' = tape
        /\ memory' = memory
    BY <1>1, <1>4 DEF Making
  <2>3. secread_cnt' = secread_cnt
    BY <1>1 DEF Making, Sound, Typed, ToBit
  <2>4. Zmips!Operand = r.arg2
    BY <1>1, <1>2 DEF Seeing, Effect
  <2>5. Zmips!Is({"ANSWER", "ERROR"})
    BY <1>2, <1>4 DEF Seeing, Stays
  <2>. QED  BY <1>3, <2>1, <2>2, <2>3, <2>4, <2>5 DEF Zmips!Answer, RegsSeen, Apart
<1>5. CASE ~Stays(ins.op)
  <2>1. Zmips!Continue /\ memory' = memory /\ secread_cnt' = secread_cnt
    BY <1>1, <1>5, GoesOn
  <2>2. Zmips!Is({"PRINT", "PRINTLN"})
    BY <1>2, <1>5 DEF Seeing, Stays, Output
  <2>. QED  BY <1>2, <1>3, <2>1, <2>2 DEF Zmips!Show, Seeing, RegsSeen, Apart
<1>. QED  BY <1>4, <1>5

\* Once an answer is found the rows repeat it.
LEMMA AnswerRepeats ==
    ASSUME Sound, Held, found_answer, NEW ins, NEW r, Making(ins, r), NEW in, Effect(ins, r, in)
    PROVE  UNCHANGED Zmips!vars
<1>1. Stays(ins.op)
  BY DEF Held, Making, Instr
<1>2. /\ ins.op \notin WritesResult /\ ins.op \in LeavesFlag
      /\ ins.op \notin {"SW", "SECREAD", "LW"} /\ ~Jumps(ins.op, first.flag, r.out.flag)
  BY <1>1 DEF Stays, WritesResult, Moves, Bitwise, Product, Division, Shift, SetOn, LeavesFlag,
              Output, Jumps, Branch
<1>3. RegsSeen' = RegsSeen /\ first'.pc = first.pc /\ first'.flag = first.flag
  BY <1>1, <1>2 DEF Effect
<1>4. /\ found_answer' = TRUE /\ answer' = answer /\ program' = program /\ tape' = tape
      /\ memory' = memory
  BY <1>2 DEF Making
<1>5. secread_cnt' = secread_cnt
  BY <1>2 DEF Making, Sound, Typed, ToBit
<1>. QED  BY <1>3, <1>4, <1>5 DEF Zmips!vars, RegsSeen, Apart

\* A step that makes a row is a step of the instruction.
LEMMA StepMeant ==
    ASSUME Sound, Held, TapeRegisterLeft, Step, Made' > 0 => StaysInside(table[Made])'
    PROVE  [Zmips!Next]_Zmips!vars
<1>1. PICK ins, r : Making(ins, r)
  BY StepMakes
<1>2. StaysInside(Kept(r))
  <2>1. Made \in Nat /\ Made' = Made + 1 /\ table'[Made + 1] = Kept(r)
    BY <1>1, StepTyped
  <2>2. program' = program
    BY <1>1 DEF Making
  <2>3. StaysInside(table[Made])' <=> StaysInside(Kept(r))
    BY <2>1, <2>2 DEF StaysInside, LineMeant, Instr, PcLength
  <2>. QED  BY <2>1, <2>3
<1>3. PICK in : Effect(ins, r, in)
  BY <1>1, <1>2, StepEffect
<1>4. CASE found_answer
  BY <1>1, <1>3, <1>4, AnswerRepeats
<1>5. CASE ~found_answer
  <2>1. \/ ins.op \in Zmips!Computes \/ ins.op \in {"MOVE", "REGMOVE"} \/ Reads(ins)
        \/ ins.op = "LW" \/ ins.op = "SW" \/ ins.op \in Zmips!Compares
        \/ ins.op \in Branch \/ ins.op \in Jump \/ ins.op \in Output
    <3>1. ins.op \in Opcodes
      BY <1>1 DEF Making, InstructionSet
    <3>. QED  BY <3>1 DEF Opcodes, Zmips!Computes, Zmips!Compares, Reads, Bitwise, Division, Product,
                          Shift, SetOn, CompareEq, CompareGe, Moves
  <2>2. Zmips!Next
    BY <1>1, <1>3, <1>5, <2>1, ComputeMeant, MoveMeant, ReadMeant, LoadMeant, StoreMeant,
       CompareMeant, BranchMeant, JumpMeant, OutputMeant DEF Zmips!Next
  <2>. QED  BY <2>2
<1>. QED  BY <1>4, <1>5

\* What programs see is untouched by the rest of the driver, or starts again.
Seen == <<program, tape, first, memory, secread_cnt, found_answer, answer>>
LEMMA UnseenStep ==
    ASSUME UNCHANGED Seen
    PROVE  UNCHANGED Zmips!vars
BY DEF Zmips!vars, Seen

\* No answer is known before the constraints are made.
Fair == Sound /\ Held /\ (mode = "construct" => ~found_answer)

LEMMA StartsFair == Init => Fair
<1>. SUFFICES ASSUME Init PROVE Fair
  OBVIOUS
<1>. QED  BY Starts DEF Init, Fair, Held

LEMMA KeepsFair == Fair /\ [Next]_vars => Fair'
<1>. SUFFICES ASSUME Fair, [Next]_vars PROVE Fair'
  OBVIOUS
<1>1. Sound /\ Held /\ (mode = "construct" => ~found_answer) /\ Sound'
  BY Keeps DEF Fair
<1>2. ASSUME UNCHANGED <<program, table, first>>, found_answer' => found_answer
      PROVE  Held'
  BY <1>1, <1>2 DEF Held, Made, Instr
<1>3. CASE GenerateConstraints
  BY <1>1, <1>2, <1>3 DEF GenerateConstraints, Fair
<1>4. CASE Step
  <2>1. PICK ins, r : Making(ins, r)
    BY <1>1, <1>4, StepMakes
  <2>2. Held' /\ mode' = "rows"
    BY <1>1, <2>1, StepHolds DEF Making
  <2>. QED  BY <1>1, <2>2 DEF Fair
<1>5. CASE StepFails
  BY <1>1, <1>2, <1>5 DEF StepFails, Fair
<1>6. CASE LinkRows
  <2>1. /\ mode' # "construct" /\ program' = program /\ first' = first
        /\ found_answer' = found_answer
    BY <1>6 DEF LinkRows
  <2>2. Made' = Made /\ \A i \in 1 .. Made : table'[i].first = table[i].first
    <3>1. PICK sorted, rows : sorted = Sorted /\ rows = Overwritten(sorted) /\ table' = rows
      BY <1>6 DEF LinkRows
    <3>2. Len(rows) = Made /\ \A i \in 1..Made : SameKept(table[i], rows[i])
      BY <1>1, <3>1, LinkedRows DEF Sound
    <3>. QED  BY <3>1, <3>2 DEF SameKept, Made
  <2>3. Made > 0 => Made \in 1..Made
    BY <1>1 DEF Sound, Typed, Made
  <2>4. Held'
    BY <1>1, <2>1, <2>2, <2>3 DEF Held, Instr
  <2>. QED  BY <1>1, <2>1, <2>4 DEF Fair
<1>7. CASE Answered
  BY <1>1, <1>2, <1>7 DEF Answered, Fair
<1>8. CASE NextAttempt
  BY <1>1, <1>8 DEF NextAttempt, Fresh, Fair, Held
<1>9. CASE GiveUp
  BY <1>1, <1>2, <1>9 DEF GiveUp, Fair
<1>10. CASE UNCHANGED vars
  BY <1>1, <1>2, <1>10 DEF vars, Fair
<1>. QED  BY <1>3, <1>4, <1>5, <1>6, <1>7, <1>8, <1>9, <1>10 DEF Next

LEMMA StepImplements ==
    ASSUME Fair, TapeRegisterLeft, [Next]_vars, Made' > 0 => StaysInside(table[Made])'
    PROVE  [Zmips!Next]_Zmips!vars
<1>. Sound /\ Held /\ (mode = "construct" => ~found_answer)
  BY DEF Fair
<1>1. CASE GenerateConstraints
  <2>1. found_answer' = found_answer
    BY <1>1 DEF GenerateConstraints, Sound, Typed
  <2>. QED  BY <1>1, <2>1, UnseenStep DEF GenerateConstraints, Seen
<1>2. CASE Step
  BY <1>2, StepMeant
<1>3. CASE StepFails
  BY <1>3, UnseenStep DEF StepFails, Seen
<1>4. CASE LinkRows
  BY <1>4, UnseenStep DEF LinkRows, Seen
<1>5. CASE Answered
  BY <1>5, UnseenStep DEF Answered, Seen
<1>6. CASE NextAttempt
  <2>1. /\ ~found_answer /\ first' = StartOfTrace /\ memory' = <<>> /\ secread_cnt' = 0
        /\ program' = program /\ tape' = tape /\ found_answer' = found_answer
        /\ answer' = answer
    BY <1>6 DEF NextAttempt, Fresh
  <2>2. /\ first'.pc = 0 /\ first'.flag = 0
        /\ RegsSeen' = [i \in Apart |-> 0]
    BY <2>1 DEF StartOfTrace, RegsSeen, Apart
  <2>3. Zmips!Restart
    BY <2>1, <2>2 DEF Zmips!Restart, Zmips!NoAnswer, Zmips!ZeroRegisters, RegsSeen, Apart
  <2>. QED  BY <2>3 DEF Zmips!Next
<1>7. CASE GiveUp
  BY <1>7, UnseenStep DEF GiveUp, Seen
<1>8. CASE UNCHANGED vars
  BY <1>8, UnseenStep DEF vars, Seen
<1>. QED  BY <1>1, <1>2, <1>3, <1>4, <1>5, <1>6, <1>7, <1>8 DEF Next

LEMMA StartImplements == Init => Zmips!Init
<1>. SUFFICES ASSUME Init PROVE Zmips!Init
  OBVIOUS
<1>1. /\ program \in Programs /\ tape \in Tapes /\ first = StartOfTrace /\ memory = <<>>
      /\ secread_cnt = 0 /\ found_answer = FALSE
  BY DEF Init, Programs, Tapes
<1>2. first.pc = 0 /\ first.flag = 0 /\ RegsSeen = [i \in Apart |-> 0]
  BY <1>1 DEF StartOfTrace, RegsSeen, Apart
<1>. QED  BY <1>1, <1>2 DEF Zmips!Init, Zmips!NoAnswer, Zmips!ZeroRegisters, RegsSeen, Apart

\* What is proved is what the program means: every row does what the instruction set says
\* of its instruction, and every attempt begins the program anew, whatever earlier attempts
\* and rows left; in programs that leave the tape's register to the machine, as long as no
\* row takes the program to a line the program counter has no bits for.
THEOREM Meaning ==
    ASSUME TapeRegisterLeft
    PROVE  Spec /\ [](Made > 0 => StaysInside(table[Made])) => ImplementsIsa
<1>1. Spec => []Fair
  BY StartsFair, KeepsFair, PTL DEF Spec
<1>2. /\ Fair /\ (Made > 0 => StaysInside(table[Made]))'
      /\ [Next]_vars
      => [Zmips!Next]_Zmips!vars
  BY StepImplements
<1>. QED  BY <1>1, <1>2, StartImplements, PTL DEF Spec, ImplementsIsa, Zmips!Spec
=============================================================================

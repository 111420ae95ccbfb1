----------------------------- MODULE Assembler ------------------------------
(***************************************************************************)
(* The front end: zMipsParser unrolls the macros of macros.json, stores    *)
(* the public tape to memory by instructions put before the program, and   *)
(* writes every zMIPS line as one or two lines of the machine's own        *)
(* assembly; RAMProgram reads that file twice, once to number the labels   *)
(* and once to make the instructions.                                      *)
(*                                                                         *)
(* A source is a record: its lines and its public tape.  A line has an     *)
(* operation and its operands, which are tokens; in the own assembly the   *)
(* operands of a line are the three words after the operation.             *)
(***************************************************************************)
EXTENDS Integers, Sequences, SequencesExt

CONSTANTS ReservedRegs,   \* RESERVED_REGISTERS_NUMBER
          SavedRegs       \* NUM_OF_SAVED_REGS

ZERO_REGISTER    == 0
PUBREAD_REGISTER == 1
MEMORY_REGISTER  == 3

Token(k, x) == [kind |-> k, id |-> x]
Zero        == Token("zero", 0)
Saved(i)    == Token("s", i)
Temp(i)     == Token("t", i)
Number(v)   == Token("number", v)
Label(l)    == Token("label", <<0, l>>)
Param(p)    == Token("param", p)
None        == Token("none", 0)
Unreadable  == Token("unreadable", 0)
Line(o, operands) == [op |-> o, args |-> operands]
LabelLine(l)      == Line("label", <<Label(l)>>)

-----------------------------------------------------------------------------
(* Macros: text with parameters. *)

Macros ==
    "inc"  :> [regs |-> <<"x">>, uses_label |-> FALSE,
               macro |-> <<Line("ADD", <<Param("x"), Param("x"), Number(1)>>)>>] @@
    "dec"  :> [regs |-> <<"x">>, uses_label |-> FALSE,
               macro |-> <<Line("SUB", <<Param("x"), Param("x"), Number(1)>>)>>] @@
    "swap" :> [regs |-> <<"z", "x", "y">>, uses_label |-> FALSE,
               macro |-> <<Line("MOVE", <<Param("z"), Param("x")>>),
                           Line("MOVE", <<Param("x"), Param("y")>>),
                           Line("MOVE", <<Param("y"), Param("z")>>)>>] @@
    [m \in {"min", "max"} |->
        LET less == IF m = "min" THEN "y" ELSE "z"
            more == IF m = "min" THEN "z" ELSE "y"
        IN  [regs |-> <<"x", "y", "z">>, uses_label |-> TRUE,
             macro |-> <<Line("BLT", <<Param("y"), Param("z"), Label("min_label")>>),
                         Line("MOVE", <<Param("x"), Param(more)>>),
                         Line("J", <<Label("end_min_label")>>),
                         LabelLine("min_label"),
                         Line("MOVE", <<Param("x"), Param(less)>>),
                         LabelLine("end_min_label")>>]]

\* The text of "$z" is in the text of "$zero" too; of what is left, the
\* digits of a $s or $t are read and the rest is not.
Mentions(token, p) == (token.kind = "param" /\ token.id = p) \/ (token.kind = "zero" /\ p = "z")
Replaced(token, by) ==
    IF token.kind = "param" \/ by.kind \in {"s", "t"} THEN by ELSE Unreadable

Occurrences(body, p) ==
    {<<l, a>> \in (DOMAIN body) \X (1..3) : a <= Len(body[l].args) /\ Mentions(body[l].args[a], p)}
replace_all(body, p, by) ==
    FoldSet(LAMBDA at, b : [b EXCEPT ![at[1]].args[at[2]] = Replaced(@, by)],
            body, Occurrences(body, p))
replace_first(body, p, by) ==
    LET Before(x, y) == x[1] < y[1] \/ (x[1] = y[1] /\ x[2] <= y[2])
        at == CHOOSE x \in Occurrences(body, p) : \A y \in Occurrences(body, p) : Before(x, y)
    IN  IF Occurrences(body, p) = {} THEN body
        ELSE [body EXCEPT ![at[1]].args[at[2]] = Replaced(@, by)]

\* A number does not take the parameter's place where it is the last operand:
\* the first two places get $t0 and the third the number.  With a comma after
\* it, it is not seen to be a number, and is replaced like a register.
WithArgument(body, p, by, isLast) ==
    IF by.kind = "number" /\ isLast
    THEN replace_first(replace_first(replace_first(body, p, Temp(0)), p, Temp(0)), p, by)
    ELSE replace_all(body, p, by)

Renamed(body, label_cnt) ==
    [l \in DOMAIN body |->
        [body[l] EXCEPT !.args = [a \in DOMAIN @ |->
            IF @[a].kind = "label" THEN Token("label", <<label_cnt, @[a].id[2]>>) ELSE @[a]]]]

Unrolled(line, label_cnt) ==
    LET m    == Macros[line.op]
        body == FoldLeft(LAMBDA b, k : WithArgument(b, m.regs[k], line.args[k], k = Len(line.args)),
                         m.macro, [k \in DOMAIN line.args |-> k])
    IN  IF m.uses_label THEN Renamed(body, label_cnt) ELSE body

unroll_macros(lines) ==
    FoldLeft(LAMBDA s, line :
                 IF line.op \notin DOMAIN Macros THEN [s EXCEPT !.lines = Append(@, line)]
                 ELSE LET cnt == IF Macros[line.op].uses_label THEN s.label_cnt + 1 ELSE s.label_cnt
                      IN  [label_cnt |-> cnt, lines |-> s.lines \o Unrolled(line, cnt)],
             [label_cnt |-> 0, lines |-> <<>>], lines).lines

-----------------------------------------------------------------------------
(* From zMIPS to the machine's assembly. *)

R(n) == Token("reg", n)
Words(o, dst, src1, src2) == Line(o, <<dst, src1, src2>>)

get_native_register(token) ==
    CASE token.kind = "zero" -> R(ZERO_REGISTER)
      [] token.kind = "s"    -> R(ReservedRegs + token.id)
      [] token.kind = "t"    -> R(ReservedRegs + SavedRegs + token.id)
      [] OTHER               -> Unreadable

get_immediate_or_register(token) ==
    IF token.kind \in {"none", "label", "number"} THEN token ELSE get_native_register(token)

\* The operations that keep their operands, under the machine's name.
OpcodeOf ==
    [o \in {"AND", "OR", "NOR", "XOR", "NOT", "ADD", "SUB", "MULT", "BEQ", "BNE", "BLT", "BLE",
            "SEQ", "SNE", "SLT", "SLE", "REGMOVE"} |-> o]
    @@ [ANDI |-> "AND", ORI |-> "OR", NORI |-> "NOR", XORI |-> "XOR",
        ADDU |-> "ADD", ADDI |-> "ADD", ADDIU |-> "ADD", SUBU |-> "SUB", SUBI |-> "SUB", SUBIU |-> "SUB",
        UDIV |-> "UDIV", DIV |-> "UDIV", UMOD |-> "UMOD", MOD |-> "UMOD",
        SLL |-> "SHL", SLA |-> "SHL", SRL |-> "SHR", SRA |-> "SHR"]
Swapped == [BGT |-> "BLT", BGE |-> "BLE"]

\* The address goes through a register that no zMIPS name reaches.
MemoryAccess(o, dst, offset, base) ==
    LET idx == R(MEMORY_REGISTER)
    IN  IF offset.kind = "number" /\ offset.id = 0 THEN <<Words(o, dst, base, base)>>
        ELSE <<IF offset.kind = "number" /\ offset.id < 0 THEN Words("SUB", idx, base, Number(-offset.id))
               ELSE Words("ADD", idx, base, offset),
               Words(o, dst, idx, idx)>>

zmips_to_zilch_instruction(line) ==
    LET Arg(k) == IF k <= Len(line.args) THEN line.args[k] ELSE None
        op   == line.op
        dst  == get_native_register(Arg(1))
        shown == get_immediate_or_register(Arg(1))
        src1 == get_immediate_or_register(Arg(2))
        src2 == get_immediate_or_register(Arg(3))
        zero == R(ZERO_REGISTER)
        base == R(PUBREAD_REGISTER)
    IN  CASE op \in DOMAIN OpcodeOf -> <<Words(OpcodeOf[op], dst, src1, src2)>>
          [] op \in DOMAIN Swapped  -> <<Words(Swapped[op], src1, dst, src2)>>
          [] op \in {"MOVE", "LA", "LI"} -> <<Words("MOVE", dst, dst, src1)>>
          [] op = "SECREAD" -> <<Words("SECREAD", dst, zero, zero)>>
          [] op = "PUBREAD" -> <<Words("LW", dst, dst, base), Words("ADD", base, base, Number(1))>>
          [] op = "SECSEEK" -> <<Words("SECSEEK", dst, src1, zero)>>
          [] op = "PUBSEEK" -> <<Words("LW", dst, dst, src1)>>
          [] op \in {"JMP", "J"} -> <<Words("JMP", zero, zero, Arg(1))>>
          [] op = "JR" -> <<Words("JR", zero, zero, dst)>>
          [] op \in {"SW", "LW"} -> MemoryAccess(op, dst, src1, src2)
          [] op \in {"ANSWER", "PRINT", "PRINTLN"} -> <<Words(op, zero, zero, shown)>>
          [] op \in {"ERROR", "EXIT"} -> <<Words("ERROR", zero, zero, shown)>>

initialize_public_tape(public_lines) ==
    LET reg == R(PUBREAD_REGISTER)
    IN  FlattenSeq([i \in DOMAIN public_lines |->
                       <<Words("MOVE", reg, reg, Number(public_lines[i])),
                         Words("SW", reg, R(ZERO_REGISTER), Number(i - 1))>>])
        \o <<Words("MOVE", reg, reg, Number(0))>>

\* Without a public tape there is nothing before the program.
parse_zmips(source) ==
    LET lines == unroll_macros(source.lines)
    IN  (IF source.public = <<>> THEN <<>> ELSE initialize_public_tape(source.public))
        \o FlattenSeq([i \in DOMAIN lines |->
               IF lines[i].op = "label" THEN <<lines[i]>> ELSE zmips_to_zilch_instruction(lines[i])])

-----------------------------------------------------------------------------
(* From the file to instructions. *)

IsInstruction(line) == line.op # "label"
LabelOf(line)       == line.args[1].id

mutBuildLabelsMap(lines) ==     \* the labels are counted as well
    [l \in {LabelOf(lines[i]) : i \in {j \in DOMAIN lines : ~IsInstruction(lines[j])}} |->
        CHOOSE n \in 0..Len(lines) - 1 : ~IsInstruction(lines[n + 1]) /\ LabelOf(lines[n + 1]) = l]
buildLabelsMap(lines) ==
    LET labelLines == {i \in DOMAIN lines : ~IsInstruction(lines[i])}
    IN  [l \in {LabelOf(lines[i]) : i \in labelLines} |->
            LET at == CHOOSE i \in labelLines : LabelOf(lines[i]) = l
            IN  Len(SelectSeq(SubSeq(lines, 1, at), IsInstruction))]

\* What ends the process instead of making a program: a second definition of
\* a label, a label that is not defined, a word where a register belongs.
Readable(line, labels) ==
    /\ \A k \in 1..3 :
           /\ line.args[k].kind \in {"reg", "number", "label"}
           /\ line.args[k].kind = "label" => k = 3 /\ line.args[k].id \in DOMAIN labels
           /\ line.args[k].kind = "number" => k = 3 \/ (k = 2 /\ line.op = "SECSEEK")
Legible(lines, labels) ==
    /\ Cardinality(DOMAIN labels) = Len(lines) - Len(SelectSeq(lines, IsInstruction))
    /\ \A i \in DOMAIN lines : IsInstruction(lines[i]) => Readable(lines[i], labels)
    /\ \E i \in DOMAIN lines : lines[i].op = "ANSWER"

MachineInstruction(line, labels) ==
    LET arg2 == line.args[3]
    IN  [op   |-> line.op, dest |-> line.args[1].id, arg1 |-> line.args[2].id,
         arg2 |-> IF arg2.kind = "label" THEN labels[arg2.id] ELSE arg2.id,
         imm  |-> arg2.kind # "reg", imm1 |-> line.args[2].kind # "reg"]

Instructions(code, labels) == [i \in DOMAIN code |-> MachineInstruction(code[i], labels)]

\* addInstructionsFromFile, on the file that parse_zmips wrote.
SecondPass(lines, labels) ==
    [legible |-> Legible(lines, labels),
     program |-> Instructions(SelectSeq(lines, IsInstruction), labels)]
addInstructionsFromFile(lines) == SecondPass(lines, buildLabelsMap(lines))
Assemble(source) == addInstructionsFromFile(parse_zmips(source))
=============================================================================

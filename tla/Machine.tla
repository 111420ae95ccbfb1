------------------------------ MODULE Machine ------------------------------
(***************************************************************************)
(* Witness generation: the driver (executeProtocol.cpp) runs the program   *)
(* for 2^t - 1 rows, growing t until the program answers; cs2Bair fills    *)
(* the rows one by one and then links them into a single cycle in which    *)
(* the memory operations come first, by address and time.                  *)
(*                                                                         *)
(* A row of the table is what the witness keeps of an instruction: the     *)
(* trace variables before it, the operands and the columns of the          *)
(* arithmetic unit (module Alu).  What is after the instruction is read    *)
(* from the next row.  Linking the rows fills the scratch columns of the   *)
(* memory rows anew.  RowHolds and PairHolds are the constraints; they are *)
(* not used to compute the rows.                                           *)
(***************************************************************************)
EXTENDS Alu, Sequences

CONSTANTS Runs,              \* pairs of a program, a sequence of instructions, and
                             \* a private tape, a sequence of words
          NumRegs,           \* REGISTERS_NUMBER
          ReservedRegs,      \* RESERVED_REGISTERS_NUMBER
          FirstT, LastT      \* the driver tries t = FirstT .. LastT

SECREAD_REGISTER == 2

ASSUME MachineAssumption ==
  /\ NumRegs \in Nat /\ ReservedRegs \in SECREAD_REGISTER + 1 .. NumRegs - 1
  /\ FirstT \in Nat /\ LastT \in Nat /\ FirstT <= LastT
  /\ LastT <= W     \* a time fits a column, or linking the rows would abort
  /\ \E k \in 0 .. W : W = 2^k     \* what counts a shift is a number of digits

(* What RAMProgram reads from a file: instructions without a label or a    *)
(* name left in them.  A register number may be any number; an immediate   *)
(* may be negative before it is made a word.                               *)
InstructionSet ==
  [op : Opcodes, dest : Nat, arg1 : Nat, arg2 : Int, imm : BOOLEAN, imm1 : BOOLEAN]

ASSUME RunsAssumption ==
  \A r \in Runs : /\ r[1] \in Seq(InstructionSet) /\ Len(r[1]) > 0
                  /\ r[2] \in Seq(Word)

Programs == {r[1] : r \in Runs}
Tapes    == {r[2] : r \in Runs}

VARIABLES program, tape,
          t,               \* the attempt: 2^t - 1 rows
          mode,            \* what the driver does next, or how it ended
          first,           \* the trace variables the next row starts from
          table,           \* traceAssignmentTable_: the rows made
          secread_cnt,     \* words of the tape consumed
          memory,          \* protoboard memory: address -> last value stored
          permutation,     \* memoryPermutation_, once the rows are linked
          found_answer, answer

vars == <<program, tape, t, mode, first, table, secread_cnt, memory,
          permutation, found_answer, answer>>

Regs     == 0 .. NumRegs - 1
Rows     == 2^t - 1
Made     == Len(table)
PcLength == CHOOSE k \in 1 .. Len(program) : /\ Len(program) <= 2^k
                                             /\ k = 1 \/ Len(program) > 2^(k-1)
Instr(pc) == program[pc + 1]

-----------------------------------------------------------------------------
(* Construction of the gadgets and of the first trace line. *)

Reads(ins) == ins.op \in {"SECREAD", "SECSEEK"}

(* mapFieldElementToInteger(0, 16, v), where 16 is written for the length  *)
(* of a register.                                                          *)
Low16(v) == v % 2^16

StartOfTrace == [pc |-> 0, flag |-> 0, time |-> 0, regs |-> [r \in Regs |-> 0]]

mutFresh ==
  /\ mode' = "construct"
  /\ first' = StartOfTrace
  /\ table' = <<>>
  /\ UNCHANGED secread_cnt
  /\ memory' = <<>>
  /\ permutation' = <<>>

Fresh ==
  /\ mode' = "construct"
  /\ first' = StartOfTrace
  /\ table' = <<>>
  /\ secread_cnt' = 0
  /\ memory' = <<>>
  /\ permutation' = <<>>

Init ==
  /\ \E r \in Runs : program = r[1] /\ tape = r[2]
  /\ t = FirstT /\ mode = "construct" /\ first = StartOfTrace /\ table = <<>>
  /\ secread_cnt = 0 /\ memory = <<>> /\ permutation = <<>>
  /\ found_answer = FALSE /\ answer = -1

(* The registers an instruction names, whatever it uses them for: an       *)
(* immediate offset of SECSEEK indexes the registers as well, and an       *)
(* immediate of REGMOVE counts from the last reserved register.  A register *)
(* that holds the number of another one is looked at when the row is made. *)
Named(ins) ==
  {ins.arg1, ins.dest}
    \cup (CASE Reads(ins) -> {SECREAD_REGISTER}
            [] ins.op = "REGMOVE" -> IF ins.imm THEN {ins.arg2 + ReservedRegs} ELSE {}
            [] OTHER -> IF ins.imm THEN {} ELSE {ins.arg2})
OperandsExist == \A i \in 1 .. Len(program) : Named(program[i]) \subseteq Regs

(* The constraints come before any row; those of ANSWER and ERROR forget   *)
(* an answer found by an earlier attempt.  ANSWER would bind its operand   *)
(* at max_timestep, if that were not 1 whenever constraints are made.      *)
GenerateConstraints ==
  /\ mode = "construct"
  /\ mode' = IF OperandsExist THEN "rows" ELSE "undefined"
  /\ found_answer' = FALSE
  /\ UNCHANGED <<program, tape, t, first, table, secread_cnt, memory, permutation,
                 answer>>

-----------------------------------------------------------------------------
(* One row: ALUInputConsistency, the arithmetic unit, TraceConsistency.    *)

(* The place on the tape an instruction reads. *)
TapePosition(ins) ==
  IF ins.op = "SECREAD" THEN secread_cnt
  ELSE IF ins.imm1 THEN ins.arg1 ELSE first.regs[ins.arg1]

TapeExhausted(ins) == Reads(ins) /\ TapePosition(ins) >= Len(tape)

(* The word is put where the instruction will find its second operand.     *)
RegsRead(ins) ==
  IF Reads(ins)
  THEN [first.regs EXCEPT ![SECREAD_REGISTER] = tape[TapePosition(ins) + 1]]
  ELSE first.regs

Arg2(ins, regs) ==
  LET index == IF Reads(ins) THEN SECREAD_REGISTER ELSE ins.arg2
      immediate == ins.imm /\ ~Reads(ins)
  IN CASE ins.op = "REGMOVE" /\ immediate  -> regs[index + ReservedRegs]
       [] ins.op = "REGMOVE" /\ ~immediate -> regs[Low16(regs[index]) + ReservedRegs]
       [] OTHER -> IF immediate THEN index % 2^W ELSE regs[index]

(* The line a jump or a taken branch names: the instruction's immediate,   *)
(* or the register, of which pcLength bits are kept.                       *)
Target(ins, regs) == IF ins.imm THEN ins.arg2 ELSE regs[ins.arg2] % 2^PcLength

Jumps(op, before, after) ==
  \/ op \in {"JMP", "JR"}
  \/ op \in Branch /\ after = 1
  \/ op = "CJMP" /\ before = 1
  \/ op = "CNJMP" /\ before = 0

Stays(op) == op \in {"ANSWER", "ERROR"}

NextPc(ins, regs, before, after) ==
  (IF Jumps(ins.op, before, after) THEN Target(ins, regs)
   ELSE IF Stays(ins.op) THEN first.pc
   ELSE first.pc + 1) % 2^PcLength

WritesResult == Moves \cup Bitwise \cup Product \cup Division \cup Shift \cup SetOn
                  \cup {"ADD", "SUB"}

NextRegs(ins, regs, out) ==
  CASE ins.op \in WritesResult -> [regs EXCEPT ![ins.dest] = out.result]
    [] ins.op = "LW"           -> [regs EXCEPT ![ins.dest] = out.value]
    [] OTHER                   -> regs

(* What the columns of the arithmetic unit hold before the row is made.    *)
LastResult == IF Made = 0 THEN 0 ELSE table[Made].out.result

RowOf(ins) ==
  LET regs == RegsRead(ins)
      in   == [arg1 |-> regs[ins.arg1], arg2 |-> Arg2(ins, regs),
               dest |-> regs[ins.dest], flag |-> first.flag, left |-> LastResult]
      out  == Witness(ins.op, in, IF ins.op = "LW" THEN memory[in.arg2] ELSE 0)
  IN [first |-> [first EXCEPT !.regs = regs],
      arg1 |-> in.arg1, arg2 |-> in.arg2, dest |-> in.dest, out |-> out,
      next |-> [pc   |-> NextPc(ins, regs, first.flag, out.flag),
                flag |-> out.flag, time |-> first.time + 1,
                regs |-> NextRegs(ins, regs, out)]]

(* The row kept.  Register SECREAD_REGISTER is not a trace variable: both  *)
(* of its values, before and after, are columns of the row itself.         *)
Kept(r) == [first |-> r.first, arg1 |-> r.arg1, arg2 |-> r.arg2, dest |-> r.dest,
            out |-> r.out, spare |-> r.next.regs[SECREAD_REGISTER]]

(* A load of an address nothing was stored at. *)
LoadsNothing(ins) == ins.op = "LW" /\ Arg2(ins, first.regs) \notin DOMAIN memory

(* A REGMOVE through a register past the end of the registers. *)
MovesNothing(ins) ==
  /\ ins.op = "REGMOVE" /\ ~ins.imm
  /\ ins.arg2 \in Regs => Low16(first.regs[ins.arg2]) + ReservedRegs \notin Regs

(* The first row has no result to keep if its instruction gives none, and  *)
(* a variable without a value cannot be put in the table.                  *)
ResultMissing(ins) == Made = 0 /\ ins.op \in LeavesResult

Stored(address, value) ==
  [a \in DOMAIN memory \cup {address} |-> IF a = address THEN value ELSE memory[a]]

generateRow(ins) ==
  \E r \in {RowOf(ins)} :
    /\ table' = Append(table, Kept(r))
    /\ first' = r.next
    /\ secread_cnt' = secread_cnt + ToBit(ins.op = "SECREAD")
    /\ memory' = IF ins.op = "SW" THEN Stored(r.out.address, r.out.value) ELSE memory
    /\ found_answer' = (found_answer \/ Stays(ins.op))
    /\ answer' = IF Stays(ins.op) /\ ~found_answer THEN r.arg2 ELSE answer
    /\ UNCHANGED <<program, tape, t, mode, permutation>>

Step ==
  /\ mode = "rows" /\ Made < Rows
  /\ first.pc < Len(program)
  /\ ~TapeExhausted(Instr(first.pc)) /\ ~LoadsNothing(Instr(first.pc))
  /\ ~ResultMissing(Instr(first.pc)) /\ ~MovesNothing(Instr(first.pc))
  /\ generateRow(Instr(first.pc))

(* The process ends: exit() at the end of the tape, abort() in an assertion *)
(* or by an exception nothing catches; or an index is past a vector's end. *)
StepFails ==
  /\ mode = "rows" /\ Made < Rows
  /\ \/ first.pc >= Len(program) /\ mode' = "abort"
     \/ /\ first.pc < Len(program)
        /\ \/ TapeExhausted(Instr(first.pc)) /\ mode' = "exit"
           \/ LoadsNothing(Instr(first.pc)) /\ mode' = "abort"
           \/ ResultMissing(Instr(first.pc)) /\ mode' = "abort"
           \/ MovesNothing(Instr(first.pc)) /\ mode' = "undefined"
  /\ UNCHANGED <<program, tape, t, first, table, secread_cnt, memory, permutation,
                 found_answer, answer>>

-----------------------------------------------------------------------------
(* The constraints on a row and on a pair of linked rows. *)

(* A row with what the trace says is after it. *)
AssignmentOf(r, after) ==
  [first |-> r.first, arg1 |-> r.arg1, arg2 |-> r.arg2, dest |-> r.dest,
   out   |-> [r.out EXCEPT !.flag = after.flag],
   next  |-> [after EXCEPT !.regs[SECREAD_REGISTER] = r.spare]]

(* REGMOVE through a register has no constraint on its operand.            *)
InputsHold(r, ins) ==
  /\ r.arg1 = r.first.regs[ins.arg1]
  /\ r.dest = r.first.regs[ins.dest]
  /\ \/ r.arg2 = Arg2(ins, r.first.regs)
     \/ ins.op = "REGMOVE" /\ ~ins.imm

PcHolds(r, ins) ==
  LET falls == (r.first.pc + 1) % 2^PcLength
      goes  == r.out.result
  IN r.next.pc = IF Jumps(ins.op, r.first.flag, r.next.flag) THEN goes
                 ELSE IF Stays(ins.op) THEN r.first.pc ELSE falls

(* The register read from the tape is not part of the trace. *)
RegistersHold(r, ins) ==
  \A i \in Regs :
    r.next.regs[i] = IF i = ins.dest /\ ins.op \in WritesResult THEN r.out.result
                     ELSE IF i = ins.dest /\ ins.op = "LW" THEN r.out.value
                     ELSE r.first.regs[i]

RowHolds(r) ==
  LET ins == Instr(r.first.pc)
  IN /\ InputsHold(r, ins)
     /\ Satisfied(ins.op, [arg1 |-> r.arg1, arg2 |-> r.arg2, dest |-> r.dest,
                           flag |-> r.first.flag], r.out)
     /\ r.next.time = r.first.time + 1
     /\ PcHolds(r, ins)
     /\ RegistersHold(r, ins)

(* MemoryConstraints, on a row and the row the permutation takes it to.    *)
(* The times are packed; the addresses only have to be bits.               *)
PairHolds(one, two) ==
  two.out.isMemOp = 1 =>
    /\ one.out.isMemOp = 1
    /\ one.out.aux1 = one.first.time /\ one.out.aux2 = two.first.time
    /\ one.out.aux3 = Order(one.out.u2, one.out.u1)
    /\ one.out.aux4 = Order(one.out.aux2, one.out.aux1)
    /\ one.out.aux3 # Less
    /\ one.out.aux3 = Equal =>
         /\ two.out.isLoad = 1 => one.out.value = two.out.value
         /\ one.out.aux4 = Greater

-----------------------------------------------------------------------------
(* generateMemoryWitness: sort the rows, link each to the next, the last   *)
(* to the first, fill the scratch columns of every memory row with what    *)
(* relates it to the next, and assert the constraints of every pair but    *)
(* the last.                                                               *)

MemoryTrace ==
  [i \in 1 .. Made |->
     [serial |-> i - 1, isMemOp |-> table[i].out.isMemOp, time |-> table[i].first.time,
      address |-> IF table[i].out.isMemOp = 1 THEN table[i].out.address ELSE 0]]

Sooner(x, y) ==
  IF x.isMemOp # y.isMemOp THEN x.isMemOp = 1
  ELSE IF x.isMemOp = 0 THEN x.serial < y.serial
  ELSE IF Low16(x.address) # Low16(y.address) THEN Low16(x.address) < Low16(y.address)
  ELSE x.time < y.time

(* Every row at the place that the number of rows before it gives it.      *)
Sorted ==
  LET trace == MemoryTrace
      rank  == [r \in 1 .. Made |-> Cardinality({q \in 1 .. Made : Sooner(trace[q], trace[r])})]
  IN  [i \in 1 .. Made |-> trace[CHOOSE r \in 1 .. Made : rank[r] = i - 1]]
After(i) == (i % Made) + 1
Place(sorted, s) == CHOOSE i \in 1 .. Made : sorted[i].serial = s

Linked(sorted) ==
  [s \in 0 .. Made - 1 |-> sorted[After(Place(sorted, s))].serial]

Related(out, one, two) ==
  [out EXCEPT !.u1 = one.address, !.u2 = two.address, !.aux1 = one.time, !.aux2 = two.time,
              !.aux3 = Order(two.address, one.address), !.aux4 = Order(two.time, one.time)]
Unrelated(out) ==
  [out EXCEPT !.u1 = 0, !.u2 = 0, !.aux1 = 0, !.aux2 = 0, !.aux3 = 0, !.aux4 = 0]

mutOverwritten(sorted) ==
  [s \in 1 .. Made |->
     LET i == Place(sorted, s - 1)
     IN  [table[s] EXCEPT !.out = IF i = Made THEN Unrelated(@)
                                  ELSE Related(@, sorted[i], sorted[i + 1])]]
Overwritten(sorted) ==
  [s \in 1 .. Made |->
     LET i == Place(sorted, s - 1)
     IN  IF table[s].out.isMemOp = 0 THEN table[s]
         ELSE [table[s] EXCEPT !.out = IF i = Made THEN Unrelated(@)
                                       ELSE Related(@, sorted[i], sorted[i + 1])]]

(* On the table as it is after the columns are filled. *)
AssertionHolds(sorted, rows) ==
  \A i \in 1 .. Made - 1 :
    sorted[i].isMemOp = 1 =>
      PairHolds(rows[sorted[i].serial + 1], rows[sorted[i+1].serial + 1])

LinkRows ==
  /\ mode = "rows" /\ Made = Rows
  /\ \E sorted \in {Sorted} : \E rows \in {Overwritten(sorted)} :
       /\ permutation' = Linked(sorted)
       /\ table' = rows
       /\ mode' = IF AssertionHolds(sorted, rows) THEN "witness" ELSE "abort"
  /\ UNCHANGED <<program, tape, t, first, secread_cnt, memory, found_answer, answer>>

-----------------------------------------------------------------------------
(* The driver. *)

(* The witness is handed to the prover. *)
Answered ==
  /\ mode = "witness" /\ found_answer
  /\ mode' = "proved"
  /\ UNCHANGED <<program, tape, t, first, table, secread_cnt, memory, permutation,
                 found_answer, answer>>

mutNextAttempt ==
  /\ mode = "witness" /\ ~found_answer /\ t < LastT
  /\ t' = t
  /\ Fresh
  /\ UNCHANGED <<program, tape, found_answer, answer>>

NextAttempt ==
  /\ mode = "witness" /\ ~found_answer /\ t < LastT
  /\ t' = t + 1
  /\ Fresh
  /\ UNCHANGED <<program, tape, found_answer, answer>>

GiveUp ==
  /\ mode = "witness" /\ ~found_answer /\ t = LastT
  /\ mode' = "gaveup"
  /\ UNCHANGED <<program, tape, t, first, table, secread_cnt, memory, permutation,
                 found_answer, answer>>

Next == GenerateConstraints \/ Step \/ StepFails \/ LinkRows
          \/ Answered \/ NextAttempt \/ GiveUp

Spec == Init /\ [][Next]_vars /\ WF_vars(Next)

Ended == mode \in {"proved", "gaveup", "exit", "abort", "undefined"}

-----------------------------------------------------------------------------
(* Properties. *)

TypeOK ==
  /\ mode \in {"construct", "rows", "witness", "proved", "gaveup", "exit", "abort",
               "undefined"}
  /\ t \in FirstT .. LastT
  /\ first.pc \in 0 .. 2^PcLength - 1 /\ first.flag \in Bit
  /\ first.time = Made /\ first.regs \in [Regs -> Word]
  /\ Made <= Rows /\ secread_cnt <= Len(tape)
  /\ DOMAIN memory \subseteq Word /\ \A a \in DOMAIN memory : memory[a] \in Word
  /\ found_answer \in BOOLEAN /\ answer \in Word \cup {-1}

(* Completeness of the constraint system: every row the witness procedures *)
(* make satisfies the constraints of its instruction, with what the rows   *)
(* before left in the variables it does not set, and the last row still    *)
(* does when its columns were filled with the relation of memory rows.     *)
RowsSatisfied == Made > 0 => RowHolds(AssignmentOf(table[Made], first))

(* The witness of a program that answers is accepted.  The assertion on    *)
(* the sorted memory rows never ends the process: it ends only in a        *)
(* program's own mistake, before the rows are linked.  Once the answer is  *)
(* found, BairWitnessChecker passes: the links are one cycle, so that no   *)
(* memory operation escapes the comparison with its neighbours; the row    *)
(* constraints hold of every row and the row after it, although memory     *)
(* rows were overwritten to be linked and a row takes its results from the *)
(* row after; the memory constraints hold on every linked pair but the     *)
(* last row's; and the first row starts the trace.                         *)
Follow[k \in Nat] == IF k = 0 THEN 0 ELSE permutation[Follow[k-1]]
verify_permutation ==
  DOMAIN permutation = 0 .. Rows - 1 /\ {permutation[s] : s \in 0 .. Rows - 1} = 0 .. Rows - 1
verify_constraintsAssignment ==
  \A s \in 1 .. Rows - 1 : RowHolds(AssignmentOf(table[s], table[s + 1].first))
verify_constraintsPermutation ==
  \A s \in 1 .. Rows - 1 : PairHolds(table[s], table[permutation[s - 1] + 1])
verify_boundary ==
  LET row == table[1].first IN row.pc = 0 /\ row.flag = 0 /\ row.time = 0
WitnessAccepted ==
  /\ mode = "abort" => permutation = <<>>
  /\ mode = "proved" =>
       /\ verify_permutation
       /\ {Follow[k] : k \in 0 .. Rows - 1} = 0 .. Rows - 1
       /\ verify_constraintsAssignment
       /\ verify_constraintsPermutation
       /\ verify_boundary

(* What is proved is what the program means: the rows are a run of the     *)
(* instruction set, each attempt a restart.                                *)
Zmips == INSTANCE ZmipsIsa WITH
         WordSize <- W, Registers <- Regs \ {SECREAD_REGISTER}, Reserved <- ReservedRegs,
         prog <- program, pc <- first.pc, flag <- first.flag,
         reg <- [r \in Regs \ {SECREAD_REGISTER} |-> first.regs[r]],
         mem <- memory, reads <- secread_cnt,
         result <- IF found_answer THEN answer ELSE -1
ImplementsIsa == Zmips!Spec

(* The driver's search ends, with a proof, or after its last attempt, or   *)
(* with the process.                                                       *)
Termination == <>Ended
=============================================================================

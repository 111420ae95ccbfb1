------------------------------ MODULE ZmipsIsa ------------------------------
(***************************************************************************)
(* What a program means, instruction by instruction: the abstract machine  *)
(* a user of zMIPS has in mind.  It knows numbers, registers and a memory, *)
(* and nothing of rows, field elements, attempts or what a row holds from  *)
(* the row before.  Machine implements it.                                 *)
(*                                                                         *)
(* What the instruction set leaves open is open here: the result of a      *)
(* division by zero and the flag after an instruction that is not a        *)
(* comparison.  A load of an address nothing was stored at and a read past *)
(* the end of the tape have no step.                                       *)
(***************************************************************************)
EXTENDS Integers, Sequences

CONSTANTS WordSize,      \* bits of a register
          Registers,     \* register numbers programs use
          Reserved,      \* first register regmove can move
          Programs, Tapes

NoAnswer == -1

VARIABLES prog, tape, pc, flag, reg, mem, reads, result

vars == <<prog, tape, pc, flag, reg, mem, reads, result>>

Values == 0 .. 2^WordSize - 1
Int2(v) == IF v >= 2^(WordSize - 1) THEN v - 2^WordSize ELSE v
Digit(v, i) == (v \div 2^i) % 2
ZeroRegisters == [r \in Registers |-> 0]

(* Is v the word whose digits are f of the digits of x and y? *)
Digitwise(v, x, y, f(_, _)) ==
  \A i \in 0 .. WordSize - 1 : Digit(v, i) = f(Digit(x, i), Digit(y, i))

(* The results an operation may have. *)
Results(op, x, y) ==
  LET truth(p) == {IF p THEN 1 ELSE 0}
      word(n)  == {n % 2^WordSize}
  IN CASE op = "ADD"  -> word(x + y)
       [] op = "SUB"  -> word(x - y)
       [] op = "MULT" -> word(x * y)
       [] op = "UMULH" -> word((x * y) \div 2^WordSize)
       [] op = "SMULH" -> word((Int2(x) * Int2(y)) \div 2^WordSize)
       [] op = "UDIV" -> {v \in Values : y # 0 => v * y <= x /\ x < (v + 1) * y}
       [] op = "UMOD" -> {v \in Values : y # 0 => v < y /\ (x - v) % y = 0}
       [] op = "AND"  -> {v \in Values : Digitwise(v, x, y, LAMBDA a, b : a * b)}
       [] op = "OR"   -> {v \in Values : Digitwise(v, x, y, LAMBDA a, b : a + b - a * b)}
       [] op = "XOR"  -> {v \in Values : Digitwise(v, x, y, LAMBDA a, b : (a + b) % 2)}
       [] op = "NOT"  -> {2^WordSize - 1 - x}
       [] op = "SHL"  -> word(IF y >= WordSize THEN 0 ELSE x * 2^y)
       [] op = "SHR"  -> word(IF y >= WordSize THEN 0 ELSE x \div 2^y)
       [] op = "SEQ"  -> truth(x = y)
       [] op = "SNE"  -> truth(x # y)
       [] op = "SLT"  -> truth(Int2(x) < Int2(y))
       [] op = "SLE"  -> truth(Int2(x) <= Int2(y))

Computes == {"ADD", "SUB", "MULT", "UMULH", "SMULH", "UDIV", "UMOD", "AND", "OR",
             "XOR", "NOT", "SHL", "SHR", "SEQ", "SNE", "SLT", "SLE"}

(* The conditions of branches and comparisons. *)
Holds(op, x, y) ==
  CASE op \in {"BEQ", "CMPE"}  -> x = y
    [] op \in {"BNE", "CMPNE"} -> x # y
    [] op = "BLT"   -> Int2(x) < Int2(y)
    [] op = "BLE"   -> Int2(x) <= Int2(y)
    [] op = "CMPA"  -> x > y
    [] op = "CMPAE" -> x >= y
    [] op = "CMPG"  -> Int2(x) > Int2(y)
    [] op = "CMPGE" -> Int2(x) >= Int2(y)

Branches == {"BEQ", "BNE", "BLT", "BLE"}
Compares == {"CMPE", "CMPNE", "CMPA", "CMPAE", "CMPG", "CMPGE"}

-----------------------------------------------------------------------------
Init ==
  /\ prog \in Programs /\ tape \in Tapes
  /\ pc = 0 /\ flag = 0 /\ reg = ZeroRegisters /\ mem = <<>> /\ reads = 0
  /\ result = NoAnswer

Ins      == prog[pc + 1]
Given    == IF Ins.imm THEN Ins.arg2 ELSE reg[Ins.arg2]    \* a line, or a register to move
Operand  == IF Ins.imm THEN Ins.arg2 % 2^WordSize ELSE reg[Ins.arg2]
Is(ops)  == result = NoAnswer /\ pc < Len(prog) /\ Ins.op \in ops
Continue == pc' = pc + 1 /\ UNCHANGED <<prog, tape, result>>
AnyFlag  == flag' \in {0, 1}
Put(v)   == reg' = [reg EXCEPT ![Ins.dest] = v]
GoTo(p)  == pc' = (IF p THEN Given ELSE pc + 1)
              /\ UNCHANGED <<prog, tape, reg, mem, reads, result>>

Compute ==
  /\ Is(Computes) /\ Continue /\ AnyFlag
  /\ \E v \in Results(Ins.op, reg[Ins.arg1], Operand) : Put(v)
  /\ UNCHANGED <<mem, reads>>

Move ==
  /\ Is({"MOVE", "REGMOVE"}) /\ Continue /\ AnyFlag
  /\ Put(IF Ins.op = "MOVE" THEN Operand ELSE reg[Given + Reserved])
  /\ UNCHANGED <<mem, reads>>

ReadTape ==
  LET place == IF Ins.op = "SECREAD" THEN reads
               ELSE IF Ins.imm1 THEN Ins.arg1 ELSE reg[Ins.arg1]
  IN /\ Is({"SECREAD", "SECSEEK"}) /\ place < Len(tape) /\ Continue /\ AnyFlag
     /\ Put(tape[place + 1])
     /\ reads' = IF Ins.op = "SECREAD" THEN reads + 1 ELSE reads
     /\ UNCHANGED mem

Load ==
  /\ Is({"LW"}) /\ Operand \in DOMAIN mem /\ Continue /\ AnyFlag
  /\ Put(mem[Operand])
  /\ UNCHANGED <<mem, reads>>

Store ==
  /\ Is({"SW"}) /\ Continue /\ AnyFlag
  /\ mem' = [a \in DOMAIN mem \cup {Operand} |->
               IF a = Operand THEN reg[Ins.dest] ELSE mem[a]]
  /\ UNCHANGED <<reg, reads>>

Compare ==
  /\ Is(Compares) /\ Continue
  /\ flag' = IF Holds(Ins.op, reg[Ins.arg1], Operand) THEN 1 ELSE 0
  /\ UNCHANGED <<reg, mem, reads>>

(* A branch compares its first two registers: "blt ri, rj, L". *)
Branch ==
  /\ Is(Branches) /\ AnyFlag
  /\ GoTo(Holds(Ins.op, reg[Ins.dest], reg[Ins.arg1]))

Jump == Is({"JMP", "JR"}) /\ AnyFlag /\ GoTo(TRUE)

JumpOnFlag ==
  /\ Is({"CJMP", "CNJMP"}) /\ AnyFlag
  /\ GoTo((flag = 1) <=> (Ins.op = "CJMP"))

Show ==
  /\ Is({"PRINT", "PRINTLN"}) /\ Continue /\ AnyFlag
  /\ UNCHANGED <<reg, mem, reads>>

Answer ==
  /\ Is({"ANSWER", "ERROR"})
  /\ result' = Operand
  /\ UNCHANGED <<prog, tape, pc, flag, reg, mem, reads>>

(* The program may be run again from its start, while it has not answered. *)
Restart ==
  /\ result = NoAnswer
  /\ pc' = 0 /\ flag' = 0 /\ reg' = ZeroRegisters /\ mem' = <<>> /\ reads' = 0
  /\ UNCHANGED <<prog, tape, result>>

Next == Compute \/ Move \/ ReadTape \/ Load \/ Store \/ Compare \/ Branch \/ Jump
          \/ JumpOnFlag \/ Show \/ Answer \/ Restart

Spec == Init /\ [][Next]_vars
=============================================================================

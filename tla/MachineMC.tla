----------------------------- MODULE MachineMC -----------------------------
(* Programs that put every instruction, and sequences of memory operations *)
(* and jumps, through the machine for every operand a 4-bit word has.      *)
EXTENDS Toolchain

I(o, d, x, y) == [op |-> o, dest |-> d, arg1 |-> x, arg2 |-> y, imm |-> FALSE, imm1 |-> FALSE]
J(o, d, x, k) == [I(o, d, x, k) EXCEPT !.imm = TRUE]

ReadTwo == <<I("SECREAD", 3, 0, 0), I("SECREAD", 4, 0, 0)>>
Reply   == <<I("ANSWER", 0, 0, 5)>>

ComputeOps == (Bitwise \ {"NOT"}) \cup Product \cup Division \cup Shift \cup SetOn
                \cup {"ADD", "SUB"}

Computations ==
  {ReadTwo \o <<I(o, 5, 3, 4)>> \o Reply : o \in ComputeOps}
    \cup {ReadTwo \o <<I("NOT", 5, 3, 3)>> \o Reply}
Branching ==
  {ReadTwo \o <<J(o, 3, 4, 4), J("MOVE", 5, 5, 1)>> \o Reply : o \in Branch}
Comparing ==
  {ReadTwo \o <<I(c, 0, 3, 4), J(j, 0, 0, 5), J("MOVE", 5, 5, 1)>> \o Reply :
     c \in CompareEq \cup CompareGe, j \in {"CJMP"}}
    \cup {ReadTwo \o <<I("CMPA", 0, 3, 4), J("CNJMP", 0, 0, 5), J("MOVE", 5, 5, 1)>> \o Reply}

AluPrograms == Computations \cup Branching \cup Comparing
AluTapes    == {<<x, y>> : x \in Word, y \in Word}

-----------------------------------------------------------------------------
(* Stores and loads of two addresses that may be equal; the last row of    *)
(* the first attempts is a store or a load.                                *)
Memory ==
  {ReadTwo \o <<I("SW", 3, 4, 4), I("SW", 4, 3, 3), I("LW", 5, 4, 4), I("SW", 5, 5, 5),
                I("LW", 5, 3, 3)>> \o Reply,
   ReadTwo \o <<J("SW", 3, 0, 1), J("SW", 4, 0, 1), I("LW", 5, 0, 3)>> \o Reply}

(* sum of n, n-1, ..., 1: as many rows as the operand asks for *)
Loop ==
  {<<I("SECREAD", 3, 0, 0), I("ADD", 4, 4, 3), J("SUB", 3, 3, 1), J("BNE", 3, 0, 1),
     I("ANSWER", 0, 0, 4)>>}

(* Random access, indirect jumps and moves, an error instead of an answer, *)
(* and first instructions that give no result.                             *)
Odd ==
  {<<I("SECREAD", 3, 0, 0), I("SECSEEK", 5, 3, 0)>> \o Reply,
   <<[I("SECSEEK", 5, 1, 0) EXCEPT !.imm1 = TRUE], I("PRINT", 0, 0, 5)>> \o Reply,
   <<J("MOVE", 3, 3, 3), I("JR", 0, 0, 3), J("PRINTLN", 0, 0, 1), J("JMP", 0, 0, 4),
     J("ERROR", 0, 0, 7)>>,
   ReadTwo \o <<J("REGMOVE", 5, 0, 0)>> \o Reply,
   ReadTwo \o <<J("MOVE", 3, 3, 1), I("REGMOVE", 5, 0, 3)>> \o Reply,
   ReadTwo \o <<I("REGMOVE", 5, 0, 3)>> \o Reply,
   ReadTwo \o <<J("REGMOVE", 5, 0, 4)>> \o Reply, <<I("MOVE", 8, 0, 0)>> \o Reply,
   Reply, <<J("SW", 3, 0, 1)>> \o Reply,
   <<J("MOVE", 5, 5, 3)>>, <<J("MOVE", 5, 5, 3), I("ADD", 5, 5, 5), I("SUB", 5, 4, 5)>>}

SequencePrograms == Memory \cup Loop \cup Odd
SequenceTapes    == {<<>>, <<1>>} \cup {<<x, y>> : x \in Word, y \in {0, 1, 6, 15}}

-----------------------------------------------------------------------------
(* zMIPS sources: labels before and after macros that have labels of their *)
(* own, branches the machine has the other way round, offsets, both tapes, *)
(* a jump through a register, and sources that stop without an answer.     *)
Source(pub, ls) == [public |-> pub, lines |-> ls]
S0 == Saved(0)
T0 == Temp(0)
T1 == Temp(1)
T2 == Temp(2)
TakeTwo == <<Line("SECREAD", <<T0>>), Line("SECREAD", <<T1>>)>>
Give(x) == <<Line("ANSWER", <<x>>)>>

MCSources ==
  {Source(<<>>, TakeTwo \o
     <<Line("min", <<T2, T0, T1>>), Line("max", <<S0, T0, T1>>), Line("BEQ", <<T2, S0, Label("L1")>>),
       Line("SUB", <<S0, S0, T2>>), LabelLine("L1")>> \o Give(S0)),
   Source(<<5, 9>>,
     <<Line("PUBREAD", <<T0>>), Line("PUBSEEK", <<T1, Number(1)>>), Line("ADD", <<T0, T0, T1>>),
       Line("PUBREAD", <<T1>>), Line("SUB", <<T0, T0, T1>>), Line("BNE", <<T0, T1, Label("L1")>>),
       Line("ERROR", <<T1>>), LabelLine("L1")>> \o Give(T0)),
   Source(<<>>, TakeTwo \o
     <<Line("BGT", <<T0, T1, Label("L1")>>), Line("BGE", <<T0, T1, Label("L2")>>),
       Line("ADDI", <<S0, S0, Number(1)>>), LabelLine("L1"), Line("inc", <<S0>>),
       LabelLine("L2")>> \o Give(S0)),
   Source(<<>>, TakeTwo \o
     <<Line("SW", <<T0, Number(2), T1>>), Line("SW", <<T1, Number(-1), T0>>),
       Line("LW", <<T2, Number(2), T1>>), Line("LW", <<S0, Number(-1), T0>>),
       Line("SUB", <<T2, T2, S0>>)>> \o Give(T2)),
   Source(<<>>, <<Line("LA", <<T0, Label("L2")>>), Line("JR", <<T0>>), LabelLine("L1")>> \o Give(T1)
     \o <<LabelLine("L2"), Line("MOVE", <<T1, Number(7)>>), Line("J", <<Label("L1")>>)>>),
   Source(<<>>, TakeTwo \o
     <<Line("swap", <<T2, T0, T1>>), Line("dec", <<T0>>), Line("SUB", <<T0, T0, T1>>)>> \o Give(T0)),
   Source(<<>>, <<Line("SECREAD", <<T0>>), LabelLine("L1"), Line("ADD", <<T1, T1, T0>>),
     Line("dec", <<T0>>), Line("BNE", <<T0, Zero, Label("L1")>>)>> \o Give(T1)),
   Source(<<>>, <<Line("SECSEEK", <<T0, Number(1)>>), Line("SECREAD", <<T1>>),
     Line("SLL", <<T2, T1, Number(1)>>), Line("NOT", <<T0, T0, T0>>), Line("XOR", <<T0, T0, T2>>)>> \o Give(T0)),
   Source(<<3>>, <<Line("SECREAD", <<T0>>), Line("SW", <<T0, Number(4), Zero>>), Line("PUBREAD", <<T1>>),
     Line("LW", <<T2, Number(4), Zero>>), Line("ADD", <<T1, T1, T2>>)>> \o Give(T1)),
   Source(<<3>>, <<Line("PUBREAD", <<T0>>), Line("PUBREAD", <<T1>>)>> \o Give(T1)),
   Source(<<>>, TakeTwo \o <<Line("SECREAD", <<T2>>), Line("PRINT", <<T2>>)>> \o Give(T2))}

MachineRuns ==
  (AluPrograms \X AluTapes) \cup (SequencePrograms \X SequenceTapes)
    \cup ({Assemble(s).program : s \in MCSources} \X SequenceTapes)

-----------------------------------------------------------------------------
(* One instruction, outside the programs above. *)
NotRuns == {ReadTwo \o <<I("NOT", 5, 3, 4)>> \o Reply} \X AluTapes
=============================================================================

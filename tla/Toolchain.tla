----------------------------- MODULE Toolchain ------------------------------
(***************************************************************************)
(* The front end and the machine together, against what a zMIPS source     *)
(* means line by line: the tapes apart from the memory, labels as places   *)
(* between lines, macros as single operations, registers by their names.   *)
(***************************************************************************)
EXTENDS Machine, TLC

CONSTANTS SavedRegs,    \* NUM_OF_SAVED_REGS
          Sources       \* zMIPS programs with their public tapes

INSTANCE Assembler

-----------------------------------------------------------------------------
(* The meaning of a source: a run of configurations, each a line number,   *)
(* the registers and the memory, and how far the tapes were read.          *)

NamesIn(source) ==
    {source.lines[i].args[k] : <<i, k>> \in
        {p \in (DOMAIN source.lines) \X (1..3) :
            /\ p[2] <= Len(source.lines[p[1]].args)
            /\ source.lines[p[1]].args[p[2]].kind \in {"s", "t", "zero"}}}

Started(source) ==
    [line |-> 1, regs |-> [x \in NamesIn(source) |-> 0], mem |-> <<>>, pub |-> 0, sec |-> 0,
     ended |-> FALSE, answer |-> Zmips!NoAnswer]

LineOfLabel(source, label) ==
    CHOOSE i \in DOMAIN source.lines : source.lines[i].op = "label" /\ source.lines[i].args[1].id = label.id

Executed(source, private, c) ==
    LET line == source.lines[c.line]
        op   == line.op
        x    == line.args[1]
        V(k) == LET token == line.args[k]
                IN  CASE token.kind = "number" -> token.id % 2^W
                      [] token.kind = "label"  -> LineOfLabel(source, token)
                      [] OTHER -> c.regs[token]
        Sets(r, v)  == [c EXCEPT !.line = @ + 1, !.regs[r] = v]
        GoesTo(l)   == [c EXCEPT !.line = l]
        Branches(p) == IF p THEN GoesTo(V(3)) ELSE GoesTo(c.line + 1)
        Less2(i, j) == Zmips!Holds("BLT", V(i), V(j))
        Stops       == [c EXCEPT !.ended = TRUE]
        Read(r, tape_, at) == IF at < Len(tape_) THEN Sets(r, tape_[at + 1]) ELSE Stops
        address     == (V(2) + V(3)) % 2^W
    IN  CASE op = "label" -> GoesTo(c.line + 1)
          [] op \in {"MOVE", "LA", "LI"} -> Sets(x, V(2))
          [] op \in {"BEQ", "BNE", "BLT", "BLE"} -> Branches(Zmips!Holds(op, V(1), V(2)))
          [] op = "BGT" -> Branches(Zmips!Holds("BLT", V(2), V(1)))
          [] op = "BGE" -> Branches(~Less2(1, 2))
          [] op = "J"   -> GoesTo(V(1))
          [] op = "JR"  -> GoesTo(V(1))
          [] op = "SW"  -> [c EXCEPT !.line = @ + 1, !.mem = address :> V(1) @@ @]
          [] op = "LW"  -> IF address \in DOMAIN c.mem THEN Sets(x, c.mem[address]) ELSE Stops
          [] op = "SECREAD" -> [Read(x, private, c.sec) EXCEPT !.sec = @ + 1]
          [] op = "SECSEEK" -> Read(x, private, V(2))
          [] op = "PUBREAD" -> [Read(x, source.public, c.pub) EXCEPT !.pub = @ + 1]
          [] op = "PUBSEEK" -> Read(x, source.public, V(2))
          [] op = "inc"  -> Sets(x, (V(1) + 1) % 2^W)
          [] op = "dec"  -> Sets(x, (V(1) - 1) % 2^W)
          [] op = "min"  -> Sets(x, IF Less2(2, 3) THEN V(2) ELSE V(3))
          [] op = "max"  -> Sets(x, IF Less2(2, 3) THEN V(3) ELSE V(2))
          [] op = "swap" -> [c EXCEPT !.line = @ + 1, !.regs[x] = V(2), !.regs[line.args[2]] = V(3),
                                      !.regs[line.args[3]] = V(2)]
          [] op \in {"PRINT", "PRINTLN"} -> GoesTo(c.line + 1)
          [] op \in {"ANSWER", "ERROR", "EXIT"} -> [c EXCEPT !.ended = TRUE, !.answer = V(1)]
          [] OTHER -> Sets(x, CHOOSE v \in Zmips!Results(OpcodeOf[op], V(2), V(3)) : TRUE)

\* More lines than any attempt has rows.
Meaning(source, private) ==
    FoldLeft(LAMBDA c, n : IF c.ended THEN c
                           ELSE IF c.line > Len(source.lines) THEN [c EXCEPT !.ended = TRUE]
                           ELSE Executed(source, private, c),
             Started(source), [n \in 1..2^(LastT + 1) |-> n])

-----------------------------------------------------------------------------
Assembled == [s \in Sources |-> Assemble(s)]

(* A source assembles, and its witness is found with the answer the source *)
(* means; the process ends early only when the source stops without one    *)
(* (parse_zmips, buildLabelsMap and addInstructionsFromFile, and then the  *)
(* machine).                                                               *)
Told(meaning) ==
    CASE mode = "proved"            -> meaning.ended /\ meaning.answer = answer
      [] mode \in {"abort", "exit"} -> meaning.ended /\ meaning.answer = Zmips!NoAnswer
      [] OTHER -> TRUE
RunsAs(source, assembled) ==
    /\ mode = "construct" /\ t = FirstT => assembled.legible
    /\ Ended /\ program = assembled.program => Told(Meaning(source, tape))
SourceMeaning == \A s \in Sources : RunsAs(s, Assembled[s])
=============================================================================

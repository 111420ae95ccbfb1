------------------------------- MODULE Words -------------------------------
(***************************************************************************)
(* Machine words of REGISTER_LENGTH bits.  A register holds a field        *)
(* element whose coefficients are the bits of a word, so that adding two   *)
(* of them is XorWord; the arithmetic of the instructions is on the        *)
(* numbers the bits denote.  What the gadgets (module Gadgets) mean is     *)
(* stated here on numbers.                                                 *)
(***************************************************************************)
EXTENDS Integers, FiniteSetsExt

CONSTANT W    \* REGISTER_LENGTH

ASSUME WordLengthAssumption == W \in Nat \ {0, 1, 2}

Word  == 0 .. 2^W - 1
Index == 0 .. W - 1
Bit   == {0, 1}

Unpack(v) == [i \in Index |-> (v \div 2^i) % 2]
Pack(b)   == MapThenSumSet(LAMBDA i : b[i] * 2^i, Index)

AllOnes       == 2^W - 1
XorWord(v, w) == Pack([i \in Index |-> (Unpack(v)[i] + Unpack(w)[i]) % 2])
AndWord(v, w) == Pack([i \in Index |-> Unpack(v)[i] * Unpack(w)[i]])
OrWord(v, w)  == XorWord(XorWord(v, w), AndWord(v, w))

(* int16_t(v): the number a word denotes in two's complement. *)
Signed(v) == IF v >= 2^(W-1) THEN v - 2^W ELSE v

(* The three values of a comparison flag: the field elements 0, 1 and g. *)
Less    == 0
Greater == 1
Equal   == 2
Order(x, y) == IF x > y THEN Greater ELSE IF x < y THEN Less ELSE Equal

(* The addition gadget relates its operands to a sum and a carry out. *)
Adds(x, y, sum, carry) == x + y = sum + carry * 2^W
=============================================================================

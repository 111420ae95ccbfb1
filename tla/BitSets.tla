------------------------------ MODULE BitSets ------------------------------
(***************************************************************************)
(* Elements of the field, labels of a network and indexes of a space are   *)
(* all machine words read bit by bit; here each is the set of its bits     *)
(* that are one.  Adding in the field is the symmetric difference, and     *)
(* multiplying by x moves every bit up by one (the elements in use are far *)
(* shorter than the field's 64 bits, so nothing is reduced).               *)
(***************************************************************************)
EXTENDS Integers, FiniteSetsExt

\* mapIntegerToFieldElement(0, n, i)
Bits(i) == {b \in 0..30 : (i \div 2^b) % 2 = 1}

Plus(x, y) == SymDiff(x, y)

Shift(x, d) == {b + d : b \in x}

\* The order of the words.
Below(x, y) == x # y /\ Max(SymDiff(x, y)) \in y
First(S) == CHOOSE x \in S : \A y \in S \ {x} : Below(x, y)

\* Cyclic shifts of the n least bits.
RotL(w, s, n) == {(b + s) % n : b \in w}
RotR(w, s, n) == {(b + n - s) % n : b \in w}

\* One multiplication by x modulo a polynomial.
TimesX(x, modulus) ==
    LET s == Shift(x, 1) IN IF Max(modulus) \in s THEN Plus(s, modulus) ELSE s

\* map_x_power_modulu_poly, expModulu: the powers of x.
PowerOfX(n, modulus) ==
    LET power[i \in 0..n] == IF i = 0 THEN {0} ELSE TimesX(power[i - 1], modulus)
    IN  power[n]

\* The least d with 2^d >= n, as ceil(Log2(n)).
CeilLog2(n) == CHOOSE d \in 0..n : 2^d >= n /\ (d = 0 \/ 2^(d - 1) < n)
=============================================================================

----------------------------- MODULE GaloisField -----------------------------
(***************************************************************************)
(* GF(2^W) as recovery/gf.rs computes it: an element is a bit string,      *)
(* addition is xor, multiplication is shift-and-add with reduction. The    *)
(* code has W = 8 and reduction byte 0x1d; smaller fields are built by the *)
(* same code with another width and byte.                                  *)
(***************************************************************************)
EXTENDS Integers, Bitwise, Functions

CONSTANTS W,    \* bits of an element
          Red   \* the reduction byte: the field polynomial without its top bit

ASSUME FieldAssumption == W \in Nat \ {0, 1} /\ Red \in 0..(2^W - 1)

Elements == 0..(2^W - 1)

GfXor(a, b) == a ^^ b

(* Multiply by x: shift left, reduce when the high bit escapes.            *)
Double(a) == IF 2 * a < 2^W THEN 2 * a ELSE (2 * a - 2^W) ^^ Red

(* gf_mul_scalar: one turn per bit of b.                                   *)
GfMul(x, y) ==
    LET mul[a \in Nat, b \in Nat] ==
            IF b = 0 THEN 0
            ELSE (IF b % 2 = 1 THEN a ELSE 0) ^^ mul[Double(a), b \div 2]
    IN  mul[x, y]

(* GFEXP, and gf_exp with the exponent taken modulo 2^W - 1, the order of  *)
(* the generator 2.                                                        *)
GfExp(e) ==
    LET exps[i \in Nat] == IF i = 0 THEN 1 ELSE Double(exps[i - 1])
    IN  exps[e % (2^W - 1)]

(* gf_pow_const: repeated squaring.                                        *)
GfPow(x, n) ==
    LET pow[a \in Nat, k \in Nat] ==
            IF k = 0 THEN 1
            ELSE GfMul(IF k % 2 = 1 THEN a ELSE 1, pow[GfMul(a, a), k \div 2])
    IN  pow[x, n]

(* GFINV: x^-1 = x^(2^W - 2), and 0 for 0.                                 *)
GfInv(x) == IF x = 0 THEN 0 ELSE GfPow(x, 2^W - 2)

(* The xor of all values of a function: P over the blocks of a stripe.     *)
GfSum(f) == FoldFunction(GfXor, 0, f)

=============================================================================

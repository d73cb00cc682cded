-------------------------------- MODULE Field --------------------------------
(***************************************************************************)
(* What the curve code expects of its field arithmetic: the field of P     *)
(* elements, and how large the limbs of an element may have become.        *)
(*                                                                         *)
(* An element is a value with a magnitude, in units of what the limbs of a *)
(* product are bounded by.  Sums and differences are not reduced, so their *)
(* magnitudes add up; a factor above MulMax overflows the machine's words  *)
(* and spoils the product.                                                 *)
(***************************************************************************)
EXTENDS Integers, SequencesExt

CONSTANTS
    P,       \* the prime, 2^255 - 19
    T,       \* the bits of an encoded value, 255
    MulMax   \* the largest magnitude of a factor

Spoiled == 1000

Elem(v, m) == [v |-> v % P, m |-> m]

(* Adding 0 or 1 leaves the magnitude alone: a product's limbs have room   *)
(* for one more.                                                           *)
Zero == Elem(0, 0)
One == Elem(1, 0)

Add(f, g) == Elem(f.v + g.v, f.m + g.m)
Sub(f, g) == Elem(f.v - g.v, f.m + g.m)
Neg(f) == Elem(-f.v, f.m)

Mul(f, g) == Elem(f.v * g.v, IF f.m <= MulMax /\ g.m <= MulMax THEN 1 ELSE Spoiled)
Sq(f) == Mul(f, f)

(* v to the power of n modulo P, from the bits of n.                       *)
PowMod(v, n) ==
    FoldLeft(LAMBDA r, i : (((r * r) % P) * (IF (n \div 2^(16 - i)) % 2 = 1 THEN v ELSE 1)) % P,
             1, [i \in 1 .. 16 |-> i])

Pow(f, n) == Elem(PowMod(f.v, n), IF f.m <= MulMax THEN 1 ELSE Spoiled)

Invert(f) == Pow(f, P - 2)

(* Reading ignores the bit above the value and takes values from P to      *)
(* 2^T - 1 for what they are modulo P; writing gives the least value.      *)
FromBytes(s) == Elem(s % 2^T, 1)
ToBytes(f) == IF f.m <= 2 THEN f.v ELSE Spoiled
IsNegative(f) == ToBytes(f) % 2
IsNonzero(f) == ToBytes(f) # 0

=============================================================================

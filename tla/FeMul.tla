-------------------------------- MODULE FeMul --------------------------------
(***************************************************************************)
(* Products of field elements in ten limbs: fe_mul, fe_sq and fe_sq2 of    *)
(* fe.c, fmul and fsquare of curve25519-donna.c.  Limbs are W + 1 and W    *)
(* bits wide in turn, so the field has 10 W + 5 bits, and what leaves the  *)
(* last limb comes back times 19 in the first.                             *)
(*                                                                         *)
(* Two questions are asked of the carry chains.  One is whether the value  *)
(* modulo the prime is kept, for limbs so narrow that TLC can tell; the    *)
(* other is how large the limbs get with W = 25, for which a limb stands   *)
(* for an upper bound of its absolute value instead of a number.           *)
(***************************************************************************)
EXTENDS Bounds, FiniteSetsExt

CONSTANTS
    W,       \* 25, narrower for the values
    Inputs   \* sequences of ten limbs

Ops == {"fe_mul", "fe_sq", "fe_sq2", "fmul", "fsquare"}

VARIABLES
    op, f, g,  \* the function and its arguments
    h,         \* the limbs of the result
    bound,     \* upper bounds of the limbs, for W = 25 and the largest arguments
    step       \* the carries made

vars == <<op, f, g, h, bound, step>>

Limb(F(_)) == <<F(0), F(1), F(2), F(3), F(4), F(5), F(6), F(7), F(8), F(9)>>

WidthOf(i, w) == IF i % 2 = 0 THEN w + 1 ELSE w
Shift(i) == W * i + ((i + 1) \div 2)
Prime == 2^Shift(10) - 19

Value(x) == MapThenSumSet(LAMBDA i : x[i + 1] * 2^Shift(i), 0 .. 9) % Prime

-----------------------------------------------------------------------------
(* The product before the carries.                                         *)

(* The factor of f[i] g[j]: two odd limbs start half a bit too low, and    *)
(* what is beyond the last limb counts 19 times.                           *)
Coef(i, j) == (IF i % 2 = 1 /\ j % 2 = 1 THEN 2 ELSE 1) * (IF i + j >= 10 THEN 19 ELSE 1)

(* fe_mul, and fproduct with freduce_degree.                               *)
Product(x, y) ==
    Limb(LAMBDA k : MapThenSumSet(LAMBDA i : Coef(i, (k - i) % 10) * x[i + 1] * y[((k - i) % 10) + 1],
                                  0 .. 9))

(* fe_sq, and fsquare_inner with freduce_degree: every pair once, times 2. *)
Square(x) ==
    Limb(LAMBDA k : MapThenSumSet(
                        LAMBDA i : LET j == (k - i) % 10
                                   IN  CASE i < j -> 2 * Coef(i, j) * x[i + 1] * x[j + 1]
                                         [] i = j -> Coef(i, i) * x[i + 1] * x[i + 1]
                                         [] i > j -> 0,
                        0 .. 9))

Start(o, x, y) ==
    CASE o \in {"fe_mul", "fmul"}   -> Product(x, y)
      [] o \in {"fe_sq", "fsquare"} -> Square(x)
      [] o = "fe_sq2"               -> LET s == Square(x) IN Limb(LAMBDA k : s[k + 1] + s[k + 1])

-----------------------------------------------------------------------------
(* The carries.                                                            *)

(* Without the second carry from limb 4.                                   *)
OrderEleven(o) ==
    IF o \in {"fmul", "fsquare"} THEN <<0, 1, 2, 3, 4, 5, 6, 7, 8, 9, 0>>
                                 ELSE <<0, 4, 1, 5, 2, 6, 3, 7, 8, 9, 0>>

(* The order of the carries: two at a time in fe.c, one after the other in *)
(* freduce_coefficients.                                                   *)
Order(o) ==
    IF o \in {"fmul", "fsquare"} THEN <<0, 1, 2, 3, 4, 5, 6, 7, 8, 9, 0>>
                                 ELSE <<0, 4, 1, 5, 2, 6, 3, 7, 4, 8, 9, 0>>

(* What leaves limb i: rounded in fe.c, cut off in donna, where            *)
(* div_by_2_26 and div_by_2_25 round towards 0.                            *)
Over(o, v, i) ==
    LET m == 2^WidthOf(i, W)
    IN  CASE o \notin {"fmul", "fsquare"}          -> (v + (m \div 2)) \div m
          [] o \in {"fmul", "fsquare"} /\ v >= 0 -> v \div m
          [] o \in {"fmul", "fsquare"} /\ v < 0  -> -((-v) \div m)

Carry(o, x, i) ==
    LET c == Over(o, x[i + 1], i)
        y == [x EXCEPT ![i + 1] = @ - c * 2^WidthOf(i, W)]
    IN  IF i = 9 THEN [y EXCEPT ![1] = @ + 19 * c] ELSE [y EXCEPT ![i + 2] = @ + c]

-----------------------------------------------------------------------------
(* Upper bounds; 8192 is 2^13.                                             *)

(* The largest arguments: 1.65 * 2^26 and 1.65 * 2^25 in turn (13517 is    *)
(* 1.65 * 2^13), or 2^27 everywhere.                                       *)
ArgumentB(o, i) ==
    CASE o \in {"fmul", "fsquare"}    -> <<8192, 14>>
      [] o \notin {"fmul", "fsquare"} -> <<13517, WidthOf(i, 25) - 13>>

StartB(o) ==
    LET two == IF o = "fe_sq2" THEN <<2, 0>> ELSE <<1, 0>>
    IN  Limb(LAMBDA k :
               SumB(Limb(LAMBDA i :
                      TimesB(TimesB(<<Coef(i, (k - i) % 10), 0>>, two),
                             TimesB(ArgumentB(o, i), ArgumentB(o, (k - i) % 10))))))

(* What is left in a limb, and what leaves it.                             *)
CarryB(o, x, i) ==
    LET w == WidthOf(i, 25)
        rounded == o \notin {"fmul", "fsquare"}
        out == <<x[i + 1][1], x[i + 1][2] - w>>
        c == IF rounded THEN PlusB(out, <<1, -1>>) ELSE out
        y == [x EXCEPT ![i + 1] = <<8192, IF rounded THEN w - 14 ELSE w - 13>>]
    IN  IF i = 9 THEN [y EXCEPT ![1] = PlusB(@, TimesB(<<19, 0>>, c))]
                 ELSE [y EXCEPT ![i + 2] = PlusB(@, c)]

-----------------------------------------------------------------------------

Init ==
    /\ op \in Ops
    /\ f \in Inputs
    /\ g \in IF op \in {"fe_mul", "fmul"} THEN Inputs ELSE {f}
    /\ h = Start(op, f, g)
    /\ bound = StartB(op)
    /\ step = 0

CarryStep ==
    /\ step < Len(Order(op))
    /\ step' = step + 1
    /\ h' = Carry(op, h, Order(op)[step'])
    /\ bound' = CarryB(op, bound, Order(op)[step'])
    /\ UNCHANGED <<op, f, g>>

Next == CarryStep

Spec == Init /\ [][Next]_vars

-----------------------------------------------------------------------------
(* Properties.                                                             *)

(* Before and after every carry the limbs have the value of the product    *)
(* modulo the prime: the factors 2, 19 and 38 of the hundred products and  *)
(* what goes around from the last limb to the first are right.             *)
ProductKept ==
    Value(h) = ((IF op = "fe_sq2" THEN 2 ELSE 1) * Value(f) * Value(g)) % Prime

(* With the largest arguments that the comments allow, no limb ever leaves *)
(* the 64 bits of its variable, half a carry's rounding included, and at   *)
(* the end limbs are as small as the comments promise: 1.01 * 2^25 and     *)
(* 1.01 * 2^24 (8273 is 1.01 * 2^13) in fe.c, 2^26 in donna.               *)
LimbsFit ==
    /\ \A i \in 0 .. 9 : AtMostB(PlusB(bound[i + 1], <<1, 25>>), <<8191, 50>>)
    /\ step = Len(Order(op)) =>
         \A i \in 0 .. 9 :
            AtMostB(bound[i + 1],
                    IF op \in {"fmul", "fsquare"} THEN <<8192, 13>> ELSE <<8273, WidthOf(i, 25) - 14>>)

=============================================================================

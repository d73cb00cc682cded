------------------------------- MODULE Scalar -------------------------------
(***************************************************************************)
(* Scalars modulo the order of the base point, sc.c: limbs of W bits, 24   *)
(* of them for a number to be reduced, and a fixed sequence of folds, which *)
(* replace a limb above the twelfth by a multiple of six lower ones, and   *)
(* of carries.                                                             *)
(*                                                                         *)
(* The order is 2^(12 W) minus the number with the digits C.  As for FeMul *)
(* the values are followed with narrow limbs, and the size of the limbs    *)
(* as bounds for W = 21 and the digits of the code.                        *)
(***************************************************************************)
EXTENDS Bounds, FiniteSetsExt

CONSTANTS
    W,        \* 21, narrower for the values
    C,        \* <<666643, 470296, 654183, -997805, 136657, -683901>>, likewise
    Wides,    \* numbers to reduce, sequences of 24 limbs
    Factors   \* arguments of sc_muladd, sequences of 12 limbs

VARIABLES
    op,     \* the function
    want,   \* the residue it should give
    s,      \* s0 .. s23
    bound,  \* upper bounds of their absolute values
    step    \* the folds and carries made

vars == <<op, want, s, bound, step>>

Order == 2^(12 * W) - MapThenSumSet(LAMBDA k : C[k] * 2^(W * (k - 1)), 1 .. 6)

(* The residue of a number in limbs, and of x times one.                   *)
Times(x, limbs) == FoldLeft(LAMBDA r, v : (r * 2^W + x * v) % Order, 0, Reverse(limbs))
Residue(limbs) == Times(1, limbs)

-----------------------------------------------------------------------------
(* The sequence of the code.                                               *)

All(do, places) == [n \in 1 .. Len(places) |-> [do |-> do, at |-> places[n]]]

Upward(from, to, by) == [n \in 1 .. ((to - from) \div by) + 1 |-> from + by * (n - 1)]
Downward(from, to) == Reverse(Upward(to, from, 1))

(* The limbs in two passes, so that no carry waits for the one before it.  *)
TwoPasses(from, to) ==
    All("round", Upward(from, to, 2) \o Upward(from + 1, to - 1, 2))

(* The second floor pass without the fold before it.                       *)
ReductionShort ==
    All("fold", Downward(23, 18)) \o TwoPasses(6, 16)
      \o All("fold", Downward(17, 12)) \o TwoPasses(0, 10) \o All("round", <<11>>)
      \o All("fold", <<12>>) \o All("floor", Upward(0, 10, 1))

Reduction ==
    All("fold", Downward(23, 18)) \o TwoPasses(6, 16)
      \o All("fold", Downward(17, 12)) \o TwoPasses(0, 10) \o All("round", <<11>>)
      \o All("fold", <<12>>) \o All("floor", Upward(0, 11, 1))
      \o All("fold", <<12>>) \o All("floor", Upward(0, 10, 1))

Program(o) == IF o = "sc_muladd" THEN TwoPasses(0, 22) \o Reduction ELSE Reduction

(* The product of sc_muladd, s0 .. s23.                                    *)
Product(a, b, c) ==
    <<>> \o [k \in 1 .. 24 |->
        (IF k <= 12 THEN c[k] ELSE 0)
          + MapThenSumSet(LAMBDA i : a[i] * b[k + 1 - i], {i \in 1 .. 12 : k + 1 - i \in 1 .. 12})]

(* Limb i and what it is worth twelve limbs lower.                         *)
Fold(x, i) ==
    <<>> \o [n \in 1 .. 24 |->
        CASE n = i + 1              -> 0
          [] n - (i - 12) \in 1 .. 6 -> x[n] + x[i + 1] * C[n - (i - 12)]
          [] OTHER                  -> x[n]]

(* A carry from limb i to the next, rounded to nearest or down.            *)
Carry(x, i, half) ==
    LET c == (x[i + 1] + half) \div 2^W
    IN  [x EXCEPT ![i + 1] = @ - c * 2^W, ![i + 2] = @ + c]

-----------------------------------------------------------------------------
(* The same for the bounds.                                                *)

(* 14 binary digits of the absolute values of the code's digits.           *)
DigitB == <<<<10417, 6>>, <<7349, 6>>, <<10222, 6>>, <<15591, 6>>, <<2136, 6>>, <<10686, 6>>>>

(* The last limb of what is loaded is not masked: it has 25 bits of 32     *)
(* bytes, and 29 of 64.                                                    *)
FactorB(i) == IF i = 12 THEN <<8192, 12>> ELSE <<8192, 8>>

StartB(o) ==
    IF o = "sc_reduce" THEN <<>> \o [k \in 1 .. 24 |-> IF k = 24 THEN <<8192, 16>> ELSE <<8192, 8>>]
    ELSE <<>> \o [k \in 1 .. 24 |->
            SumB([i \in 1 .. 12 |-> IF k + 1 - i \in 1 .. 12 THEN TimesB(FactorB(i), FactorB(k + 1 - i))
                                                              ELSE <<0, 0>>]
                   \o (IF k <= 12 THEN <<FactorB(k)>> ELSE <<>>))]

FoldB(x, i) ==
    <<>> \o [n \in 1 .. 24 |->
        CASE n = i + 1              -> <<0, 0>>
          [] n - (i - 12) \in 1 .. 6 -> PlusB(x[n], TimesB(x[i + 1], DigitB[n - (i - 12)]))
          [] OTHER                  -> x[n]]

CarryB(x, i, left, more) ==
    [x EXCEPT ![i + 1] = left, ![i + 2] = PlusB(@, PlusB(<<x[i + 1][1], x[i + 1][2] - 21>>, more))]

-----------------------------------------------------------------------------

Init ==
    /\ \/ \E x \in Wides : op = "sc_reduce" /\ s = x /\ want = Residue(x)
       \/ \E a, b, c \in Factors :
            /\ op = "sc_muladd"
            /\ s = Product(a, b, c)
            /\ want = (Times(Residue(a), b) + Residue(c)) % Order
    /\ bound = StartB(op)
    /\ step = 0

Step(do) ==
    /\ step < Len(Program(op))
    /\ Program(op)[step + 1].do = do
    /\ step' = step + 1
    /\ UNCHANGED <<op, want>>

At == Program(op)[step + 1].at

FoldStep ==
    /\ Step("fold")
    /\ s' = Fold(s, At)
    /\ bound' = FoldB(bound, At)

RoundStep ==
    /\ Step("round")
    /\ s' = Carry(s, At, 2^(W - 1))
    /\ bound' = CarryB(bound, At, <<8192, 7>>, <<1, -1>>)

FloorStep ==
    /\ Step("floor")
    /\ s' = Carry(s, At, 0)
    /\ bound' = CarryB(bound, At, <<8192, 8>>, <<1, 0>>)

Next == FoldStep \/ RoundStep \/ FloorStep

Spec == Init /\ [][Next]_vars

-----------------------------------------------------------------------------
(* Properties.                                                             *)

Finished == step = Len(Program(op))

(* Every fold and every carry keeps the residue, and the last ones leave   *)
(* the least number with it: twelve limbs, none negative, the lower eleven *)
(* of W bits, and below the order.                                         *)
ReducesFully ==
    /\ Residue(s) = want
    /\ Finished =>
         /\ \A n \in 13 .. 24 : s[n] = 0
         /\ \A n \in 1 .. 11 : s[n] \in 0 .. 2^W - 1
         /\ s[12] \in 0 .. 2^W
         /\ FoldLeft(LAMBDA r, v : r * 2^W + v, 0, Reverse(SubSeq(s, 1, 12))) < Order

(* No limb leaves the 64 bits of its variable, whatever the arguments, the *)
(* product with a digit of the order and the rounding of a carry included. *)
LimbsFit == \A n \in 1 .. 24 : AtMostB(PlusB(bound[n], <<1, 20>>), <<8191, 50>>)

=============================================================================

------------------------------- MODULE Chains -------------------------------
(***************************************************************************)
(* The powers that fe_invert, fe_pow22523 (fe.c) and crecip                *)
(* (curve25519-donna.c) compute with squarings and products: programs of   *)
(* some 265 instructions over a few registers that are used again and      *)
(* again.  Nothing here is scaled down.                                    *)
(*                                                                         *)
(* A register holds the exponent of the power of z that is in it, as the   *)
(* set of its binary digits that are 1.                                    *)
(***************************************************************************)
EXTENDS Integers, SequencesExt

VARIABLES
    program,   \* the function that runs
    pc,        \* its next instruction
    reg        \* the registers

vars == <<program, pc, reg>>

(* Instructions: squarings of a register into one, and products.           *)
Sq(out, in) == <<[op |-> "sq", out |-> out, in |-> in, by |-> in]>>
Mul(out, in, by) == <<[op |-> "mul", out |-> out, in |-> in, by |-> by]>>
SqTimes(out, in, n) == Sq(out, in) \o FlattenSeq([i \in 1 .. n - 1 |-> Sq(out, out)])

(* n rounds of crecip's loops, from t to u and back.                       *)
PingPong(t, u, n) == FlattenSeq([i \in 1 .. n |-> Sq(u, t) \o Sq(t, u)])

fe_invert == FlattenSeq(<<
    Sq("t0", "z"), SqTimes("t1", "t0", 2), Mul("t1", "z", "t1"), Mul("t0", "t0", "t1"),
    Sq("t2", "t0"), Mul("t1", "t1", "t2"),
    SqTimes("t2", "t1", 5), Mul("t1", "t2", "t1"),
    SqTimes("t2", "t1", 10), Mul("t2", "t2", "t1"),
    SqTimes("t3", "t2", 20), Mul("t2", "t3", "t2"),
    SqTimes("t2", "t2", 10), Mul("t1", "t2", "t1"),
    SqTimes("t2", "t1", 50), Mul("t2", "t2", "t1"),
    SqTimes("t3", "t2", 100), Mul("t2", "t3", "t2"),
    SqTimes("t2", "t2", 50), Mul("t1", "t2", "t1"),
    SqTimes("t1", "t1", 5), Mul("out", "t1", "t0") >>)

(* One squaring too few before the second product.                         *)
fe_pow22523Short == FlattenSeq(<<
    Sq("t0", "z"), SqTimes("t1", "t0", 2), Mul("t1", "z", "t1"), Mul("t0", "t0", "t1"),
    Sq("t0", "t0"), Mul("t0", "t1", "t0"),
    SqTimes("t1", "t0", 5), Mul("t0", "t1", "t0"),
    SqTimes("t1", "t0", 10), Mul("t1", "t1", "t0"),
    SqTimes("t2", "t1", 20), Mul("t1", "t2", "t1"),
    SqTimes("t1", "t1", 10), Mul("t0", "t1", "t0"),
    SqTimes("t1", "t0", 50), Mul("t1", "t1", "t0"),
    SqTimes("t2", "t1", 99), Mul("t1", "t2", "t1"),
    SqTimes("t1", "t1", 50), Mul("t0", "t1", "t0"),
    SqTimes("t0", "t0", 2), Mul("out", "t0", "z") >>)

fe_pow22523 == FlattenSeq(<<
    Sq("t0", "z"), SqTimes("t1", "t0", 2), Mul("t1", "z", "t1"), Mul("t0", "t0", "t1"),
    Sq("t0", "t0"), Mul("t0", "t1", "t0"),
    SqTimes("t1", "t0", 5), Mul("t0", "t1", "t0"),
    SqTimes("t1", "t0", 10), Mul("t1", "t1", "t0"),
    SqTimes("t2", "t1", 20), Mul("t1", "t2", "t1"),
    SqTimes("t1", "t1", 10), Mul("t0", "t1", "t0"),
    SqTimes("t1", "t0", 50), Mul("t1", "t1", "t0"),
    SqTimes("t2", "t1", 100), Mul("t1", "t2", "t1"),
    SqTimes("t1", "t1", 50), Mul("t0", "t1", "t0"),
    SqTimes("t0", "t0", 2), Mul("out", "t0", "z") >>)

crecip == FlattenSeq(<<
    Sq("z2", "z"), Sq("t1", "z2"), Sq("t0", "t1"), Mul("z9", "t0", "z"), Mul("z11", "z9", "z2"),
    Sq("t0", "z11"), Mul("z2_5_0", "t0", "z9"),
    Sq("t0", "z2_5_0"), Sq("t1", "t0"), Sq("t0", "t1"), Sq("t1", "t0"), Sq("t0", "t1"),
    Mul("z2_10_0", "t0", "z2_5_0"),
    Sq("t0", "z2_10_0"), Sq("t1", "t0"), PingPong("t1", "t0", 4), Mul("z2_20_0", "t1", "z2_10_0"),
    Sq("t0", "z2_20_0"), Sq("t1", "t0"), PingPong("t1", "t0", 9), Mul("t0", "t1", "z2_20_0"),
    Sq("t1", "t0"), Sq("t0", "t1"), PingPong("t0", "t1", 4), Mul("z2_50_0", "t0", "z2_10_0"),
    Sq("t0", "z2_50_0"), Sq("t1", "t0"), PingPong("t1", "t0", 24), Mul("z2_100_0", "t1", "z2_50_0"),
    Sq("t1", "z2_100_0"), Sq("t0", "t1"), PingPong("t0", "t1", 49), Mul("t1", "t0", "z2_100_0"),
    Sq("t0", "t1"), Sq("t1", "t0"), PingPong("t1", "t0", 24), Mul("t0", "t1", "z2_50_0"),
    Sq("t1", "t0"), Sq("t0", "t1"), Sq("t1", "t0"), Sq("t0", "t1"), Sq("t1", "t0"),
    Mul("out", "t1", "z11") >>)

Code(f) == CASE f = "fe_invert" -> fe_invert
             [] f = "fe_pow22523" -> fe_pow22523
             [] f = "crecip" -> crecip

-----------------------------------------------------------------------------

(* The digits of the sum of two numbers: a carry comes from the next place *)
(* below where both or neither have a 1, if it is both.                    *)
Sum(a, b) ==
    LET both == a \cap b
        either == a \cup b
        carry(i) == \E j \in both : j < i /\ \A k \in j + 1 .. i - 1 : k \in either
        odd(i) == (i \in either) # (i \in both)
    IN  {i \in 0 .. 256 : odd(i) # carry(i)}

Registers == {"z", "out", "t0", "t1", "t2", "t3", "z2", "z9", "z11",
              "z2_5_0", "z2_10_0", "z2_20_0", "z2_50_0", "z2_100_0"}

Init ==
    /\ program \in {"fe_invert", "fe_pow22523", "crecip"}
    /\ pc = 1
    /\ reg = [r \in Registers |-> IF r = "z" THEN {0} ELSE {}]

Square ==
    /\ pc <= Len(Code(program))
    /\ LET i == Code(program)[pc]
       IN  i.op = "sq" /\ reg' = [reg EXCEPT ![i.out] = {b + 1 : b \in reg[i.in]}]
    /\ pc' = pc + 1
    /\ UNCHANGED program

Multiply ==
    /\ pc <= Len(Code(program))
    /\ LET i == Code(program)[pc]
       IN  i.op = "mul" /\ reg' = [reg EXCEPT ![i.out] = Sum(reg[i.in], reg[i.by])]
    /\ pc' = pc + 1
    /\ UNCHANGED program

Next == Square \/ Multiply

Spec == Init /\ [][Next]_vars

-----------------------------------------------------------------------------

(* Inversion raises to 2^255 - 21, which is p - 2, in both libraries, and  *)
(* the root to 2^252 - 3, which is (p - 5) / 8: no squaring is missing and *)
(* no register is overwritten before its last use.                         *)
PowersAreRight ==
    pc > Len(Code(program)) =>
        reg["out"] = IF program = "fe_pow22523" THEN (0 .. 251) \ {1}
                                                ELSE (0 .. 254) \ {2, 4}

=============================================================================

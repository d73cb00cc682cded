------------------------------- MODULE Bounds -------------------------------
(***************************************************************************)
(* Upper bounds of numbers that are too large for TLC: <<m, e>> stands for *)
(* m * 2^e, with m at most 2^14, and every operation rounds up.            *)
(***************************************************************************)
EXTENDS Integers, Sequences, SequencesExt

CeilDiv(a, b) == (a + b - 1) \div b

Norm(m, e) ==
    LET k == CHOOSE k \in 0 .. 17 : m <= 2^(14 + k) /\ (k = 0 \/ m > 2^(13 + k))
    IN  <<CeilDiv(m, 2^k), e + k>>

(* The m of the bound a at an exponent that is higher by up.               *)
Lower(a, up) == IF up > 16 THEN (IF a[1] = 0 THEN 0 ELSE 1) ELSE CeilDiv(a[1], 2^up)

PlusB(a, b) ==
    IF a[2] >= b[2] THEN Norm(a[1] + Lower(b, a[2] - b[2]), a[2])
                    ELSE Norm(b[1] + Lower(a, b[2] - a[2]), b[2])

TimesB(a, b) == Norm(a[1] * b[1], a[2] + b[2])

SumB(bounds) == FoldLeft(PlusB, <<0, 0>>, bounds)

AtMostB(a, b) ==
    IF a[2] >= b[2] THEN a[2] - b[2] <= 16 /\ a[1] * 2^(a[2] - b[2]) <= b[1]
                    ELSE Lower(a, b[2] - a[2]) <= b[1]

=============================================================================

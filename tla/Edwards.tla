------------------------------- MODULE Edwards -------------------------------
(***************************************************************************)
(* The group of ed25519, ge.c: points in several projective forms, the     *)
(* formulas between them, the recoding of scalars and the two scalar       *)
(* multiplications.                                                        *)
(*                                                                         *)
(* The curve is -x^2 + y^2 = 1 + d x^2 y^2 over any field with 5 modulo 8  *)
(* elements; a scalar has NB bytes.                                        *)
(***************************************************************************)
EXTENDS Field

CONSTANTS
    NB,          \* 32
    d, sqrtm1,   \* constants of the curve, and a root of -1
    BaseX, BaseY \* the base point

-----------------------------------------------------------------------------
(* The group law in affine coordinates, for reference.                     *)

PlusPt(p, q) ==
    LET k == (((d * p[1]) % P) * ((q[1] * ((p[2] * q[2]) % P)) % P)) % P
    IN  << ((p[1] * q[2] + p[2] * q[1]) * PowMod(1 + k, P - 2)) % P,
           ((p[2] * q[2] + p[1] * q[1]) * PowMod((1 - k) % P, P - 2)) % P >>

MinusPt(p) == << (-p[1]) % P, p[2] >>

(* n times p, from the bits of n.                                          *)
TimesPt(n, p) ==
    FoldLeft(LAMBDA r, i : LET r2 == PlusPt(r, r)
                           IN  IF (n \div 2^(8 * NB - i)) % 2 = 1 THEN PlusPt(r2, p) ELSE r2,
             <<0, 1>>, [i \in 1 .. 8 * NB |-> i])

BasePt == <<BaseX, BaseY>>

EncodePt(p) == p[2] + 2^T * (p[1] % 2)

-----------------------------------------------------------------------------
(* ge_p2_0, ge_p3_0 and the changes of form.                               *)

ge_p2_0 == [X |-> Zero, Y |-> One, Z |-> One]
ge_p3_0 == [X |-> Zero, Y |-> One, Z |-> One, T |-> Zero]

ge_p1p1_to_p2(p) == [X |-> Mul(p.X, p.T), Y |-> Mul(p.Y, p.Z), Z |-> Mul(p.Z, p.T)]

ge_p1p1_to_p3(p) ==
    [X |-> Mul(p.X, p.T), Y |-> Mul(p.Y, p.Z), Z |-> Mul(p.Z, p.T), T |-> Mul(p.X, p.Y)]

ge_p3_to_p2(p) == [X |-> p.X, Y |-> p.Y, Z |-> p.Z]

ge_p3_to_cached(p) ==
    [YplusX |-> Add(p.Y, p.X), YminusX |-> Sub(p.Y, p.X), Z |-> p.Z, T2d |-> Mul(p.T, Elem(2 * d, 1))]

-----------------------------------------------------------------------------
(* Addition: p and a point given by y + x, y - x and 2dxy, with t0 twice   *)
(* the product of the Z.                                                   *)
Formula(p, plus, minus, t2d, t0) ==
    LET a == Mul(Add(p.Y, p.X), plus)
        b == Mul(Sub(p.Y, p.X), minus)
        c == Mul(t2d, p.T)
    IN  [X |-> Sub(a, b), Y |-> Add(a, b), Z |-> Add(t0, c), T |-> Sub(t0, c)]

(* The minus of a point: y + x and y - x change places and 2dxy its sign,  *)
(* which here comes last.                                                  *)
SwapZT(r) == [r EXCEPT !.Z = r.T, !.T = r.Z]

Twice(f) == Add(f, f)

ge_add(p, q) == Formula(p, q.YplusX, q.YminusX, q.T2d, Twice(Mul(p.Z, q.Z)))
ge_sub(p, q) == SwapZT(Formula(p, q.YminusX, q.YplusX, q.T2d, Twice(Mul(p.Z, q.Z))))
ge_madd(p, q) == Formula(p, q.yplusx, q.yminusx, q.xy2d, Twice(p.Z))

(* ge_msub with Z and T of ge_madd.                                        *)
ge_msubUnswapped(p, q) == Formula(p, q.yminusx, q.yplusx, q.xy2d, Twice(p.Z))

ge_msub(p, q) == SwapZT(Formula(p, q.yminusx, q.yplusx, q.xy2d, Twice(p.Z)))

(* Doubling.                                                               *)
ge_p2_dbl(p) ==
    LET xx == Sq(p.X)
        yy == Sq(p.Y)
        y == Add(yy, xx)
        z == Sub(yy, xx)
    IN  [X |-> Sub(Sq(Add(p.X, p.Y)), y), Y |-> y, Z |-> z,
         T |-> Sub(Elem(2 * Sq(p.Z).v, Sq(p.Z).m), z)]

ge_p3_dbl(p) == ge_p2_dbl(ge_p3_to_p2(p))

-----------------------------------------------------------------------------
(* Encoding and decoding.                                                  *)

ge_tobytes(h) ==
    LET recip == Invert(h.Z)
    IN  ToBytes(Mul(h.Y, recip)) + 2^T * IsNegative(Mul(h.X, recip))

ge_p3_tobytes(h) == ge_tobytes(ge_p3_to_p2(h))

(* What ge_frombytes_negate_vartime takes as x for y: a root of u/v, or    *)
(* <<>> when there is none.                                                *)
Root(y) ==
    LET u == Sub(Sq(y), One)
        v == Add(Mul(Sq(y), Elem(d, 1)), One)
        v3 == Mul(Sq(v), v)
        x == Mul(Mul(Pow(Mul(Mul(Sq(v3), v), u), (P - 5) \div 8), v3), u)
        vxx == Mul(Sq(x), v)
    IN  CASE ~IsNonzero(Sub(vxx, u)) -> <<x>>
          [] IsNonzero(Sub(vxx, u)) /\ ~IsNonzero(Add(vxx, u)) -> <<Mul(x, Elem(sqrtm1, 1))>>
          [] OTHER -> <<>>

(* The point with the x of the other sign, or <<>> for -1.  Of the two     *)
(* signs of 0 each stands for the same point.                              *)
ge_frombytes_negate_vartime(s) ==
    LET y == FromBytes(s)
        root == Root(y)
        x == root[1]
        h == IF IsNegative(x) = s \div 2^T THEN Neg(x) ELSE x
    IN  IF root = <<>> THEN <<>> ELSE <<[X |-> h, Y |-> y, Z |-> One, T |-> Mul(h, y)]>>

-----------------------------------------------------------------------------
(* Multiples of the base point.                                            *)

(* A point of the tables base and Bi.                                      *)
Precomp(p) == [yplusx |-> Elem(p[2] + p[1], 1), yminusx |-> Elem(p[2] - p[1], 1),
               xy2d |-> Elem(((2 * d * p[1]) % P) * p[2], 1)]

(* select: |b| times 256^pos times the base point, or its negative.        *)
select(pos, b) ==
    LET babs == IF b < 0 THEN -b ELSE b
        t == IF babs \in 1 .. 8 THEN Precomp(TimesPt(babs * 256^pos, BasePt))
                                ELSE [yplusx |-> One, yminusx |-> One, xy2d |-> Zero]
    IN  IF b < 0 THEN [yplusx |-> t.yminusx, yminusx |-> t.yplusx, xy2d |-> Neg(t.xy2d)] ELSE t

(* Digits that keep their carry.                                           *)
Radix16Plain(a) == [i \in 1 .. 2 * NB |-> (a \div 16^(i - 1)) % 16]

(* The digits of ge_scalarmult_base: from 0 to 15, then from -8 to 7 with  *)
(* a carry that the last one keeps.                                        *)
Radix16(a) ==
    LET s == FoldLeft(LAMBDA r, i :
                        LET e == ((a \div 16^(i - 1)) % 16) + r.carry
                            carry == IF i < 2 * NB THEN (e + 8) \div 16 ELSE 0
                        IN  [e |-> Append(r.e, e - 16 * carry), carry |-> carry],
                      [e |-> <<>>, carry |-> 0], [i \in 1 .. 2 * NB |-> i])
    IN  s.e

(* One of its loops, over the digits of one parity.                        *)
AddDigits(h, e, parity) ==
    FoldLeft(LAMBDA r, i : IF r.Z.m = Spoiled THEN r
                           ELSE ge_p1p1_to_p3(ge_madd(r, select(i, e[2 * i + parity + 1]))),
             h, [i \in 1 .. NB |-> i - 1])

ge_scalarmult_base(a) ==
    LET e == Radix16(a)
        s1 == ge_p1p1_to_p2(ge_p3_dbl(AddDigits(ge_p3_0, e, 1)))
        s3 == ge_p1p1_to_p2(ge_p2_dbl(ge_p1p1_to_p2(ge_p2_dbl(s1))))
    IN  AddDigits(ge_p1p1_to_p3(ge_p2_dbl(s3)), e, 0)

-----------------------------------------------------------------------------
(* Sums of two multiples.                                                  *)

(* The carry of slide from bit k: it runs over ones, and is lost if there  *)
(* is no zero.                                                             *)
SlideCarry(r, k) ==
    LET zeros == {j \in k .. 8 * NB : r[j] = 0}
        z == IF zeros = {} THEN 8 * NB + 1 ELSE CHOOSE j \in zeros : \A i \in zeros : j <= i
        done == SubSeq(r, 1, k - 1) \o [j \in 1 .. z - k |-> 0]
    IN  IF zeros = {} THEN done ELSE done \o <<1>> \o SubSeq(r, z + 1, 8 * NB)

(* The inner loop of slide at bit i, from b on.                            *)
SlideBit(s, i, b) ==
    LET v == s.r[i + b] * 2^b
    IN  CASE s.stop \/ i + b > 8 * NB \/ s.r[i + b] = 0 -> s
          [] s.r[i] + v <= 15  -> [s EXCEPT !.r = [@ EXCEPT ![i] = @ + v, ![i + b] = 0]]
          [] s.r[i] - v >= -15 -> [s EXCEPT !.r = SlideCarry([@ EXCEPT ![i] = @ - v], i + b)]
          [] OTHER             -> [s EXCEPT !.stop = TRUE]

slide(a) ==
    FoldLeft(LAMBDA r, i :
               IF r[i] = 0 THEN r
               ELSE FoldLeft(LAMBDA s, b : SlideBit(s, i, b), [r |-> r, stop |-> FALSE],
                             <<1, 2, 3, 4, 5, 6>>).r,
             <<>> \o [j \in 1 .. 8 * NB |-> (a \div 2^(j - 1)) % 2], [i \in 1 .. 8 * NB |-> i])

(* A, 3A, ..., 15A.                                                        *)
OddMultiples(A) ==
    LET A2 == ge_p1p1_to_p3(ge_p3_dbl(A))
    IN  FoldLeft(LAMBDA ai, k : Append(ai, ge_p3_to_cached(ge_p1p1_to_p3(ge_add(A2, ai[k])))),
                 <<ge_p3_to_cached(A)>>, [k \in 1 .. 7 |-> k])

Bi(k) == Precomp(TimesPt(2 * k - 1, BasePt))

(* A step of the loop: double, then add what the digits say.               *)
ScalarStep(r, Ai, av, bv) ==
    LET t == ge_p2_dbl(r)
        u == CASE av > 0 -> ge_add(ge_p1p1_to_p3(t), Ai[1 + (av \div 2)])
               [] av < 0 -> ge_sub(ge_p1p1_to_p3(t), Ai[1 + ((-av) \div 2)])
               [] av = 0 -> t
        w == CASE bv > 0 -> ge_madd(ge_p1p1_to_p3(u), Bi(1 + (bv \div 2)))
               [] bv < 0 -> ge_msub(ge_p1p1_to_p3(u), Bi(1 + ((-bv) \div 2)))
               [] bv = 0 -> u
    IN  ge_p1p1_to_p2(w)

(* a A + b B, from the highest digit that is not 0.                        *)
ge_double_scalarmult_vartime(a, A, b) ==
    LET aslide == slide(a)
        bslide == slide(b)
        Ai == OddMultiples(A)
        used == {i \in 1 .. 8 * NB : aslide[i] # 0 \/ bslide[i] # 0}
        top == IF used = {} THEN 0 ELSE CHOOSE i \in used : \A j \in used : j <= i
    IN  FoldLeft(LAMBDA r, k : IF r.Z.m = Spoiled THEN r
                               ELSE ScalarStep(r, Ai, aslide[top + 1 - k], bslide[top + 1 - k]),
                 ge_p2_0, [k \in 1 .. top |-> k])

=============================================================================

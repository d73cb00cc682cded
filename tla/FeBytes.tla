------------------------------- MODULE FeBytes -------------------------------
(***************************************************************************)
(* Field elements between bytes and limbs, with the widths of the code:    *)
(* fe_frombytes, fe_tobytes and the sums of fe.c, fexpand and fcontract of *)
(* curve25519-donna.c.  A value has many forms in limbs, negative ones and *)
(* ones beyond 2^255 - 19 included; its 32 bytes have to be the least one. *)
(***************************************************************************)
EXTENDS Integers, SequencesExt, FiniteSetsExt

CONSTANTS
    Strings,  \* encodings, sequences of 32 bytes
    Forms     \* sequences of ten limbs

VARIABLES
    want,     \* limbs with the value that z should have
    z,        \* an element, <<>> at first
    out       \* its bytes, <<>> at first

vars == <<want, z, out>>

Limb(F(_)) == <<F(0), F(1), F(2), F(3), F(4), F(5), F(6), F(7), F(8), F(9)>>

Width(i) == IF i % 2 = 0 THEN 26 ELSE 25

(* Bit k of a string of bytes, and the number in bits k to k + n - 1 of it *)
(* times 2^up.                                                             *)
Bit(s, k) == (s[1 + (k \div 8)] \div 2^(k % 8)) % 2
Bits(s, k, n, up) == MapThenSumSet(LAMBDA j : Bit(s, k + j) * 2^(j + up), 0 .. n - 1)

-----------------------------------------------------------------------------
(* fe.c                                                                    *)

(* What fe_frombytes loads for a limb: first byte, bits, and shift.        *)
Load == << <<0, 32, 0>>, <<4, 24, 6>>, <<7, 24, 5>>, <<10, 24, 3>>, <<13, 24, 2>>,
           <<16, 32, 0>>, <<20, 24, 7>>, <<23, 24, 5>>, <<26, 24, 4>>, <<29, 23, 2>> >>

(* That number modulo the limb's width, and what is above.                 *)
Low(s, i) ==
    LET ld == Load[i + 1] IN Bits(s, 8 * ld[1], Width(i) - ld[3], ld[3])

High(s, i) ==
    LET ld == Load[i + 1]
        n == Width(i) - ld[3]
    IN  Bits(s, 8 * ld[1] + n, ld[2] - n, 0)

(* The carry from a limb that has received k, rounded, and what is left.   *)
Half(i) == 2^(Width(i) - 1)
Carried(s, i, k) == High(s, i) + ((Low(s, i) + k + Half(i)) \div 2^Width(i))
Left(s, i, k) == ((Low(s, i) + k + Half(i)) % 2^Width(i)) - Half(i)

(* The odd limbs carry first, limb 9 into limb 0.                          *)
Received(s, i) == IF i = 0 THEN 19 * Carried(s, 9, 0) ELSE Carried(s, i - 1, 0)

fe_frombytes(s) ==
    Limb(LAMBDA i : IF i % 2 = 0 THEN Left(s, i, Received(s, i))
                    ELSE Left(s, i, 0) + Carried(s, i - 1, Received(s, i - 1)))

fe_0 == Limb(LAMBDA i : 0)
fe_1 == Limb(LAMBDA i : IF i = 0 THEN 1 ELSE 0)
fe_add(f, g) == Limb(LAMBDA i : f[i + 1] + g[i + 1])
fe_sub(f, g) == Limb(LAMBDA i : f[i + 1] - g[i + 1])
fe_neg(f) == Limb(LAMBDA i : -f[i + 1])
fe_cmov(f, g, b) == Limb(LAMBDA i : IF b = 1 THEN g[i + 1] ELSE f[i + 1])

(* Where a limb goes: its first byte, and the bit of it.  fexpand, whose   *)
(* shifts are the other way, and fcontract use the same places.            *)
Place == << <<0, 0>>, <<3, 2>>, <<6, 3>>, <<9, 5>>, <<12, 6>>,
            <<16, 0>>, <<19, 1>>, <<22, 3>>, <<25, 4>>, <<28, 6>> >>

PlaceOf(i) == 8 * Place[i + 1][1] + Place[i + 1][2]

Pack(h) ==
    <<>> \o [n \in 1 .. 32 |->
        MapThenSumSet(
            LAMBDA t : LET k == 8 * (n - 1) + t
                       IN  2^t * MapThenSumSet(LAMBDA i : (h[i + 1] \div 2^(k - PlaceOf(i))) % 2,
                                               {i \in 0 .. 9 : k \in PlaceOf(i) .. PlaceOf(i) + Width(i) - 1}),
            0 .. 7)]

(* The multiple of the prime that fe_tobytes takes off.                    *)
Quotient(h) ==
    FoldLeft(LAMBDA q, i : (h[i + 1] + q) \div 2^Width(i),
             (19 * h[10] + 2^24) \div 2^25, <<0, 1, 2, 3, 4, 5, 6, 7, 8, 9>>)

(* A carry from limb i, rounded down; from limb 9 it comes back times k.   *)
CarryDown(h, i, k) ==
    LET c == h[i + 1] \div 2^Width(i)
        x == [h EXCEPT ![i + 1] = @ % 2^Width(i)]
    IN  IF i = 9 THEN [x EXCEPT ![1] = @ + k * c] ELSE [x EXCEPT ![i + 2] = @ + c]

CarryPass(h, k) == FoldLeft(LAMBDA x, i : CarryDown(x, i, k), h, <<0, 1, 2, 3, 4, 5, 6, 7, 8, 9>>)

fe_tobytes(h) == Pack(CarryPass([h EXCEPT ![1] = @ + 19 * Quotient(h)], 0))

fe_isnegative(f) == fe_tobytes(f)[1] % 2
fe_isnonzero(f) == \E i \in 1 .. 32 : fe_tobytes(f)[i] # 0

-----------------------------------------------------------------------------
(* curve25519-donna.c                                                      *)

fexpand(s) == Limb(LAMBDA i : Bits(s, PlaceOf(i), Width(i), 0))

(* A negative limb borrows from the next, limb 9 from limb 0 times 19.     *)
Borrow(h, i) ==
    LET c == IF h[i + 1] < 0 THEN -(h[i + 1] \div 2^Width(i)) ELSE 0
        x == [h EXCEPT ![i + 1] = @ + c * 2^Width(i)]
    IN  IF i = 9 THEN [x EXCEPT ![1] = @ - 19 * c] ELSE [x EXCEPT ![i + 2] = @ - c]

BorrowPass(h) == FoldLeft(Borrow, h, <<0, 1, 2, 3, 4, 5, 6, 7, 8, 9>>)

PrimeLimbs == Limb(LAMBDA i : 2^Width(i) - (IF i = 0 THEN 19 ELSE 1))

(* The prime is taken off what is not below it.                            *)
SubtractPrime(h) ==
    IF h[1] >= PrimeLimbs[1] /\ \A i \in 2 .. 10 : h[i] = PrimeLimbs[i]
    THEN fe_sub(h, PrimeLimbs) ELSE h

(* fcontract with one pass of carries.                                     *)
fcontractOnce(h) ==
    Pack(SubtractPrime(CarryPass(Borrow(BorrowPass(BorrowPass(h)), 0), 19)))

fcontract(h) ==
    Pack(SubtractPrime(CarryPass(CarryPass(Borrow(BorrowPass(BorrowPass(h)), 0), 19), 19)))

-----------------------------------------------------------------------------

Init == want = <<>> /\ z = <<>> /\ out = <<>>

(* The bits of a string as limbs.                                          *)
Digits(s) == Limb(LAMBDA i : Bits(s, 25 * i + ((i + 1) \div 2), Width(i), 0))

Fe(a, b, c) ==
    /\ z = <<>>
    /\ \/ /\ z' = fe_add(fe_frombytes(a), fe_frombytes(b))
          /\ want' = fe_add(Digits(a), Digits(b))
       \/ /\ z' = fe_sub(fe_frombytes(a), fe_frombytes(b))
          /\ want' = fe_sub(Digits(a), Digits(b))
       \/ /\ z' = fe_neg(fe_cmov(fe_frombytes(a), fe_1, c))
          /\ want' = fe_sub(fe_0, IF c = 1 THEN fe_1 ELSE Digits(a))
    /\ UNCHANGED out

Expand(a) == z = <<>> /\ z' = fexpand(a) /\ want' = Digits(a) /\ UNCHANGED out

(* Limbs as products leave them.                                           *)
Given(x) == z = <<>> /\ z' = x /\ want' = x /\ UNCHANGED out

(* fe_tobytes takes limbs up to 1.1 * 2^26 and 1.1 * 2^25,                 *)
ToBytes ==
    /\ z # <<>> /\ out = <<>>
    /\ \A i \in 0 .. 9 : 10 * (z[i + 1] \div 16) \in -11 * 2^(Width(i) - 4) .. 11 * 2^(Width(i) - 4)
    /\ out' = fe_tobytes(z)
    /\ UNCHANGED <<want, z>>

(* and fcontract limbs below 2^26.                                         *)
Contract ==
    /\ z # <<>> /\ out = <<>>
    /\ \A i \in 1 .. 10 : z[i] \in 1 - 2^26 .. 2^26 - 1
    /\ out' = fcontract(z)
    /\ UNCHANGED <<want, z>>

Next ==
    \/ \E a, b \in Strings, c \in {0, 1} : Fe(a, b, c)
    \/ \E a \in Strings : Expand(a)
    \/ \E x \in Forms : Given(x)
    \/ ToBytes
    \/ Contract

Spec == Init /\ [][Next]_vars

-----------------------------------------------------------------------------
(* Properties.                                                             *)

(* The limbs stand for the number 0.                                       *)
IsZero(v) ==
    LET r == FoldLeft(LAMBDA a, i : [ok |-> a.ok /\ (v[i + 1] + a.c) % 2^Width(i) = 0,
                                     c |-> (v[i + 1] + a.c) \div 2^Width(i)],
                      [ok |-> TRUE, c |-> 0], <<0, 1, 2, 3, 4, 5, 6, 7, 8, 9>>)
    IN  r.ok /\ r.c = 0

(* Limbs that stand for the same number modulo the prime.                  *)
Congruent(x, y) ==
    \E q \in -4 .. 4 : IsZero(Limb(LAMBDA i : x[i + 1] - y[i + 1] - q * PrimeLimbs[i + 1]))

(* What is read from bytes, of any value and with the top bit set or not,  *)
(* and then added, subtracted or negated, has the value it should have.    *)
ReadRight == z # <<>> => Congruent(z, want)

(* What is written is the least number of this value, in 255 bits, from    *)
(* limbs of any sign up to the size that the comments allow: borrows and   *)
(* carries that run over all limbs and around, and values just below and   *)
(* above 0 and the prime, included.                                        *)
WrittenLeast ==
    out # <<>> =>
        /\ out[32] < 128
        /\ Congruent(Digits(out), z)
        /\ SubtractPrime(Digits(out)) = Digits(out)

=============================================================================

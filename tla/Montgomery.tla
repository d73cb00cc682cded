----------------------------- MODULE Montgomery -----------------------------
(***************************************************************************)
(* The key agreement: a public key of ed25519 converted by xed25519.c, and *)
(* the ladder of curve25519-donna.c over it, with projective registers x/z *)
(* that are swapped instead of branched on.                                *)
(*                                                                         *)
(* Magnitudes are in units of 2^26 here, and fproduct and fsquare take     *)
(* limbs below 2^27.                                                       *)
(***************************************************************************)
EXTENDS Edwards

CONSTANTS
    A24,      \* 121665, (A - 2) / 4 for the curve v^2 = u^3 + A u^2 + u
    Secrets,  \* secrets
    Points    \* points of the Edwards curve, whose keys are converted

VARIABLES
    point,    \* the point of the other side
    e,        \* the clamped secret
    q,        \* the other side's u, expanded
    left,     \* the bits of e that are left
    nq        \* the registers nQ and nQ + Q

vars == <<point, e, q, left, nq>>

F == INSTANCE Field WITH MulMax <- 2

(* xed25519_convert_ed2c_public: u = (1 + y) / (1 - y).                    *)
xed25519_convert_ed2c_public(pub) ==
    LET A == ge_frombytes_negate_vartime(pub)
    IN  IF A = <<>> THEN <<>>
        ELSE <<ToBytes(Mul(Add(One, A[1].Y), Invert(Sub(One, A[1].Y))))>>

(* fscalar_product with freduce_coefficients.                              *)
fscalar_product(f) == F!Elem(f.v * A24, IF f.m <= 2 THEN 1 ELSE F!Spoiled)

(* fmonty: from Q, Q' and Q - Q' to 2Q and Q + Q'.                         *)
fmonty(a, b, qmqp) ==
    LET x == F!Add(a.x, a.z)
        z == F!Sub(a.x, a.z)
        xxp == F!Mul(F!Add(b.x, b.z), z)
        zzp == F!Mul(x, F!Sub(b.x, b.z))
        xx == F!Sq(x)
        zz == F!Sq(z)
        df == F!Sub(xx, zz)
    IN  << [x |-> F!Mul(xx, zz), z |-> F!Mul(df, F!Add(fscalar_product(df), xx))],
           [x |-> F!Sq(F!Add(xxp, zzp)), z |-> F!Mul(F!Sq(F!Sub(xxp, zzp)), qmqp)] >>

swap_conditional(s, iswap) == IF iswap = 1 THEN <<s[2], s[1]>> ELSE s

(* A secret as curve25519 uses it: a multiple of 8 with its second highest *)
(* bit set and its highest clear.                                          *)
Clamp(n) == (((n % 2^(8 * NB - 2)) \div 8) * 8) + 2^(8 * NB - 2)

(* The registers as cmult starts with them.                                *)
cmultStart(u) == << [x |-> F!One, z |-> F!Zero], [x |-> u, z |-> F!One] >>

(* A round that does not swap back.                                        *)
cmultRoundHalf(s, u, bit) ==
    LET t == swap_conditional(s, bit) IN fmonty(t[1], t[2], u)

(* A round of cmult.                                                       *)
cmultRound(s, u, bit) ==
    LET t == swap_conditional(s, bit)
    IN  swap_conditional(fmonty(t[1], t[2], u), bit)

(* The end of curve25519.                                                  *)
Affine(r) == F!ToBytes(F!Mul(r.x, F!Invert(r.z)))

-----------------------------------------------------------------------------

Init ==
    /\ point \in Points
    /\ e \in {Clamp(n) : n \in Secrets}
    /\ q = F!FromBytes(xed25519_convert_ed2c_public(EncodePt(point))[1])
    /\ left = 8 * NB
    /\ nq = cmultStart(q)

Round ==
    /\ left > 0
    /\ left' = left - 1
    /\ nq' = cmultRound(nq, q, (e \div 2^(left - 1)) % 2)
    /\ UNCHANGED <<point, e, q>>

Next == Round

Spec == Init /\ [][Next]_vars

-----------------------------------------------------------------------------
(* Properties.                                                             *)

(* The u of a point of the Edwards curve, 0 for the neutral one.           *)
UOf(p) == ((1 + p[2]) * PowMod((1 - p[2]) % P, P - 2)) % P

(* In every round the registers are the u of nQ and of nQ + Q, where n is  *)
(* the part of the secret that was read, and no limb gets too large for a  *)
(* product.  (0 as the u of Q is a case of its own: the registers do not   *)
(* stand for points then.)  And in any case, the neutral point and u = 0   *)
(* included, the result is the u of the secret times the other side's      *)
(* point: so both sides of an agreement come to the same secret.           *)
LadderWalks ==
    LET n == e \div 2^left
        is(r, p) == /\ r.x.m <= 1 /\ r.z.m <= 1
                    /\ IF p = <<0, 1>> THEN r.z.v = 0 /\ r.x.v # 0
                       ELSE r.z.v # 0 /\ Affine(r) = UOf(p)
    IN  /\ q.v # 0 => is(nq[1], TimesPt(n, point)) /\ is(nq[2], TimesPt(n + 1, point))
        /\ left = 0 => Affine(nq[1]) = UOf(TimesPt(e, point))

=============================================================================

------------------------------- MODULE Ed25519 -------------------------------
(***************************************************************************)
(* Keys of ed25519 at work: signatures (sign.c, verify.c), keys moved by a *)
(* scalar (add_scalar.c) by their owner and by one who knows the public    *)
(* key only.                                                               *)
(*                                                                         *)
(* The hash is some function; scalars are reduced modulo L.                *)
(***************************************************************************)
EXTENDS Edwards

CONSTANTS
    L,          \* the order of the base point
    Seeds,      \* seeds of keys
    Messages,   \* messages, numbers as far as the hash goes
    Scalars,    \* the scalars that keys are moved by
    MaxMoves    \* a bound on how often

VARIABLES
    seed,        \* what the keys were made from
    private_key, \* the owner's scalar and prefix
    public_key,  \* the owner's encoded point
    known,       \* the same, kept by somebody without the private key
    signed,      \* the last message, its signature, and the key it was made for
    moves

vars == <<seed, private_key, public_key, known, signed, moves>>

(* A hash of NB bytes, and one of twice as many reduced modulo L.          *)
Hash(xs) == FoldLeft(LAMBDA h, x : (h * 37 + x * 11 + 5003) % 2^(8 * NB), 977, xs)
sc_reduce(xs) == Hash(xs) % L
sc_muladd(a, b, c) == (a * b + c) % L

-----------------------------------------------------------------------------

(* ed25519_sign: R and S.                                                  *)
ed25519_sign(m, pub, priv) ==
    LET r == sc_reduce(<<priv.prefix, m>>)
        R == ge_p3_tobytes(ge_scalarmult_base(r))
    IN  [R |-> R, S |-> sc_muladd(sc_reduce(<<R, pub, m>>), priv.a, r)]

(* ed25519_verify: the upper three bits of S have to be clear.             *)
ed25519_verify(sig, m, pub) ==
    LET A == ge_frombytes_negate_vartime(pub)
    IN  /\ sig.S < 2^(8 * NB - 3)
        /\ A # <<>>
        /\ sig.R = ge_tobytes(ge_double_scalarmult_vartime(sc_reduce(<<sig.R, pub, m>>), A[1], sig.S))

(* The scalar that add_scalar uses: without its highest bit.               *)
ClearHigh(scalar) == scalar % 2^(8 * NB - 1)

(* ed25519_add_scalar with a private key: the result for it,               *)
MovePrivate(priv, scalar) ==
    [a |-> sc_muladd(1, ClearHigh(scalar), priv.a), prefix |-> Hash(<<priv.prefix, scalar>>)]

(* and for the public key that goes with it.                               *)
PublicOf(priv) == ge_p3_tobytes(ge_scalarmult_base(priv.a))

(* Adding to the negated point.                                            *)
MovePublicNegated(pub, scalar) ==
    LET p == ge_frombytes_negate_vartime(pub)[1]
    IN  ge_p3_tobytes(ge_p1p1_to_p3(
            ge_add(ge_scalarmult_base(ClearHigh(scalar)), ge_p3_to_cached(p))))

(* ed25519_add_scalar with a public key only.                              *)
MovePublic(pub, scalar) ==
    LET n == ge_frombytes_negate_vartime(pub)[1]
        p == [n EXCEPT !.X = Neg(@), !.T = Neg(@)]
    IN  ge_p3_tobytes(ge_p1p1_to_p3(
            ge_add(ge_scalarmult_base(ClearHigh(scalar)), ge_p3_to_cached(p))))

-----------------------------------------------------------------------------

(* The scalar of a seed: a multiple of 8 with its second highest bit set.  *)
Clamp(n) == (((n % 2^(8 * NB - 2)) \div 8) * 8) + 2^(8 * NB - 2)

(* The keys that belong to a seed.                                         *)
KeyFromSeed(s) == [a |-> Clamp(Hash(<<s>>)), prefix |-> Hash(<<s, 1>>)]

Init ==
    /\ seed \in Seeds
    /\ private_key = KeyFromSeed(seed)
    /\ public_key = EncodePt(TimesPt(KeyFromSeed(seed).a, BasePt))
    /\ known = public_key
    /\ signed = <<>>
    /\ moves = 0

AddScalar(scalar) ==
    /\ moves < MaxMoves
    /\ moves' = moves + 1
    /\ private_key' = MovePrivate(private_key, scalar)
    /\ public_key' = PublicOf(MovePrivate(private_key, scalar))
    /\ known' = MovePublic(known, scalar)
    /\ UNCHANGED <<seed, signed>>

Sign(m) ==
    /\ signed' = <<[m |-> m, sig |-> ed25519_sign(m, public_key, private_key), pub |-> public_key]>>
    /\ UNCHANGED <<seed, private_key, public_key, known, moves>>

Next == (\E n \in Scalars : AddScalar(n)) \/ (\E m \in Messages : Sign(m))

Spec == Init /\ [][Next]_vars

-----------------------------------------------------------------------------
(* Properties.                                                             *)

(* However often a key pair is moved, the owner's public key, which comes  *)
(* from the private one, and the public key moved by point addition are    *)
(* both the encoding of the private scalar times the base point: the table *)
(* of multiples, the signed digits and the formulas for points agree with  *)
(* the group law, and no factor on the way is too large for fe_mul.        *)
PairsMatch ==
    LET e == EncodePt(TimesPt(private_key.a, BasePt))
    IN  public_key = e /\ known = e

(* Verification accepts what was signed, with the keys of any stage, and   *)
(* for any message and any S below the bound it accepts exactly what the   *)
(* equation of the group says, S beyond the order of the base point        *)
(* included: the sliding digits of two scalars, the odd multiples and the  *)
(* four kinds of addition come to the sum of the two multiples.            *)
VerifyIsEquation ==
    signed # <<>> =>
        LET s == signed[1]
            A == CHOOSE q \in (0 .. P - 1) \X (0 .. P - 1) :
                    /\ EncodePt(q) = s.pub
                    /\ (q[2] * q[2] - q[1] * q[1] - 1) % P
                         = (((d * ((q[1] * q[1]) % P)) % P) * ((q[2] * q[2]) % P)) % P
            h(m) == sc_reduce(<<s.sig.R, s.pub, m>>)
            right(S, m) == s.sig.R = EncodePt(PlusPt(TimesPt(S, BasePt), MinusPt(TimesPt(h(m), A))))
        IN  /\ ed25519_verify(s.sig, s.m, s.pub)
            /\ \A m \in Messages, S \in {s.sig.S, s.sig.S + 1, s.sig.S + L, 2^(8 * NB - 3) - 1} :
                  ed25519_verify([s.sig EXCEPT !.S = S], m, s.pub) = right(S, m)

=============================================================================

------------------------------- MODULE MCCurve -------------------------------
(***************************************************************************)
(* The arithmetic of curve25519 and ed25519, one part of it per behaviour, *)
(* arranged like MCSymPrimitives.                                          *)
(***************************************************************************)
EXTENDS Integers, Sequences

CONSTANTS
    P, T, MulMax, NB, d, sqrtm1, BaseX, BaseY,  \* a small curve of the same kind
    L, Seeds, Messages, Scalars, MaxMoves,      \* Ed25519
    A24, Secrets,                               \* Montgomery
    FeW, ScW                                    \* the narrow limbs of FeMul and Scalar

(* What the formulas need of the curve: the base point is on it, -1 is a   *)
(* square and d is none.                                                   *)
ASSUME CurveFits ==
    /\ P % 8 = 5 /\ P < 2^T /\ 2^T < 2 * P
    /\ (sqrtm1 * sqrtm1 + 1) % P = 0
    /\ \A n \in 1 .. P - 1 : (n * n) % P # d
    /\ (BaseY * BaseY - BaseX * BaseX - 1) % P
         = (((d * ((BaseX * BaseX) % P)) % P) * ((BaseY * BaseY) % P)) % P

VARIABLES machine, u, v, w, x, y, z

vars == <<machine, u, v, w, x, y, z>>

ED == INSTANCE Ed25519 WITH seed <- u, private_key <- v, public_key <- w, known <- x,
        signed <- y, moves <- z

(* Multiples of the base point, the neutral point among them, the points   *)
(* of order 2 and 4, and one of full order.                                *)
MO == INSTANCE Montgomery WITH point <- u, e <- v, q <- w, left <- x, nq <- y,
        Points <- {ED!TimesPt(k, <<BaseX, BaseY>>) : k \in {0, 1, 2, 17, 30}}
                    \cup {<<0, P - 1>>, <<sqrtm1, 0>>}
                    \cup {CHOOSE r \in (3 .. P - 1) \X (7 .. P - 1) :
                             (r[2] * r[2] - r[1] * r[1] - 1) % P
                               = (((d * ((r[1] * r[1]) % P)) % P) * ((r[2] * r[2]) % P)) % P}

CH == INSTANCE Chains WITH program <- u, pc <- v, reg <- w

(* Every limb alone, and all limbs with changing signs.                    *)
FM == INSTANCE FeMul WITH op <- u, f <- v, g <- w, h <- x, bound <- y, step <- z, W <- FeW,
        Inputs <- {[j \in 1 .. 10 |-> IF j = k THEN n ELSE 0] : k \in 1 .. 10, n \in {1, -3}}
                    \cup {<<1, -1, 2, 1, -2, 1, 0, -1, 2, 1>>, <<3, -3, -3, 2, 3, -1, -2, 3, -3, 3>>,
                          <<-4, 2, -4, 2, -4, 2, -4, 2, -4, 2>>}

(* Limbs i of a form: carries and borrows of every kind that run on.       *)
Middle(kind, i) ==
    LET top == IF i % 2 = 0 THEN 2^26 ELSE 2^25
    IN  CASE kind = "low"     -> 1 - 2^26
          [] kind = "borrow"  -> -top
          [] kind = "minus"   -> -1
          [] kind = "zero"    -> 0
          [] kind = "full"    -> top - 1
          [] kind = "high"    -> 2^26 - 1

Form(kind, a, b, c) ==
    <<a, b, Middle(kind, 2), Middle(kind, 3), Middle(kind, 4), Middle(kind, 5), Middle(kind, 6),
      Middle(kind, 7), Middle(kind, 8), c>>

(* Values around 0, the prime and 2^255, with and without the top bit.     *)
FB == INSTANCE FeBytes WITH want <- u, z <- v, out <- w,
        Strings <- {[n \in 1 .. 32 |-> CASE n = 1 -> first [] n = 32 -> lst [] OTHER -> mid] :
                       first \in {0, 236, 237, 238, 255}, mid \in {0, 255}, lst \in {0, 127, 255}}
                     \cup {[n \in 1 .. 32 |-> (37 * n * n + 11) % 256]},
        Forms <- {Form(kind, a, b, c) :
                    kind \in {"low", "borrow", "minus", "zero", "full", "high"},
                    a \in {1 - 2^26, -19, -18, -1, 0, 18, 19, 2^26 - 20, 2^26 - 19, 2^26 - 1},
                    b \in {1 - 2^26, -1, 0, 2^25 - 1, 2^26 - 1},
                    c \in {1 - 2^26, -(2^25), -1, 0, 2^25 - 1, 2^25, 2^26 - 1}}

(* One limb that differs from the others, and numbers around multiples of  *)
(* the order, 16778075, and of 2^24.                                       *)
SC == INSTANCE Scalar WITH op <- u, want <- v, s <- w, bound <- x, step <- y, W <- ScW,
        C <- <<1, 1, 2, -2, 1, -1>>,
        Wides <- {<<>> \o [n \in 1 .. 24 |-> IF n = k THEN a ELSE b] :
                     k \in {1, 2, 5, 6, 11, 12, 13, 17, 18, 19, 23}, a \in {0, 1, 3}, b \in {0, 3}}
                  \cup {<<>> \o [n \in 1 .. 24 |-> IF n = 24 THEN a ELSE b] : a \in {0, 63, 511, 1023}, b \in {0, 3}}
                  \cup {<<>> \o [n \in 1 .. 24 |-> IF n <= 15 THEN (m \div 4^(n - 1)) % 4 ELSE 0] :
                           m \in {k * 16778075 + j : k \in {1, 2, 64}, j \in {-1, 0}} \cup {2^24 - 1, 2^24}},
        Factors <- {<<>> \o [n \in 1 .. 12 |-> IF n = t[1] THEN t[2] ELSE t[3]] :
                       t \in {<<1, 1, 0>>, <<1, 0, 0>>, <<12, 63, 3>>, <<12, 3, 3>>, <<6, 2, 1>>, <<12, 1, 0>>}}

Init ==
    \/ machine = "Ed25519" /\ ED!Init
    \/ machine = "Montgomery" /\ MO!Init /\ z = 0
    \/ machine = "Chains" /\ CH!Init /\ x = 0 /\ y = 0 /\ z = 0
    \/ machine = "FeMul" /\ FM!Init
    \/ machine = "FeBytes" /\ FB!Init /\ x = 0 /\ y = 0 /\ z = 0
    \/ machine = "Scalar" /\ SC!Init /\ z = 0

Next ==
    /\ UNCHANGED machine
    /\ \/ machine = "Ed25519" /\ ED!Next
       \/ machine = "Montgomery" /\ MO!Next /\ UNCHANGED z
       \/ machine = "Chains" /\ CH!Next /\ UNCHANGED <<x, y, z>>
       \/ machine = "FeMul" /\ FM!Next
       \/ machine = "FeBytes" /\ FB!Next /\ UNCHANGED <<x, y, z>>
       \/ machine = "Scalar" /\ SC!Next /\ UNCHANGED z

Spec == Init /\ [][Next]_vars

-----------------------------------------------------------------------------
(* Properties: those of the components, each for its own machine.          *)

(* However often ed25519_add_scalar moves a key pair, private key, public  *)
(* key and the public key moved alone belong together.                     *)
PairsMatch == machine = "Ed25519" => ED!PairsMatch

(* ed25519_verify accepts what ed25519_sign made, and otherwise exactly    *)
(* what the equation in the group says.                                    *)
VerifyIsEquation == machine = "Ed25519" => ED!VerifyIsEquation

(* The registers of cmult are neighbouring multiples in every round, and   *)
(* the result of curve25519 on a converted key is that of the secret times *)
(* the point of the Edwards curve.                                         *)
LadderWalks == machine = "Montgomery" => MO!LadderWalks

(* fe_invert, fe_pow22523 and crecip raise to the powers they are for.     *)
PowersAreRight == machine = "Chains" => CH!PowersAreRight

(* Limb products and their carries keep the value modulo the prime; the    *)
(* limbs never overflow and end as small as the comments say.              *)
FeProductsFit == machine = "FeMul" => FM!ProductKept /\ FM!LimbsFit

(* fe_frombytes, fexpand and the sums have the values they should have,    *)
(* and fe_tobytes and fcontract write the least number of a value.         *)
FeWrittenLeast == machine = "FeBytes" => FB!ReadRight /\ FB!WrittenLeast

(* sc_reduce and sc_muladd keep the residue and end below the order, and   *)
(* no limb overflows on the way.                                           *)
ScReducesFully == machine = "Scalar" => SC!ReducesFully /\ SC!LimbsFit

=============================================================================

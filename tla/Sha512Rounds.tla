---------------------------- MODULE Sha512Rounds ----------------------------
(***************************************************************************)
(* The compression of sha512.c.  Its loop does eight rounds per turn and   *)
(* moves the eight words not at all: each round names them differently.    *)
(*                                                                         *)
(* A word is the set of its bits that are one.  The constants K are a      *)
(* parameter, and so is the width of a word, on which nothing depends but  *)
(* the arithmetic: the amounts of rotations are taken modulo the width.    *)
(***************************************************************************)
EXTENDS Integers, Sequences

CONSTANTS
    Width,  \* 64, the bits of a word
    K,      \* the 80 constants
    Inputs  \* pairs of a state and the sixteen words of a block

VARIABLES
    in,   \* the pair being compressed
    W,    \* the message schedule
    S,    \* the words of the code
    F,    \* history: the words a .. h of FIPS 180-4
    i     \* the rounds done

vars == <<in, W, S, F, i>>

Bits == 0 .. Width - 1

RoundsGiven ==
    /\ Width \in Nat \ {0}
    /\ Inputs \subseteq [1 .. 8 -> SUBSET Bits] \X [1 .. 16 -> SUBSET Bits]

Xor(x, y) == (x \ y) \cup (y \ x)

(* The number of a word, digit by digit from the highest,                  *)
Num(x) ==
    LET up[k \in 0 .. Width] ==
            IF k = 0 THEN 0 ELSE (IF Width - k \in x THEN 1 ELSE 0) + 2 * up[k - 1]
    IN  up[Width]

(* and the word of a number, which has no room for higher digits.          *)
Word(n) ==
    LET half[b \in 0 .. Width] == IF b = 0 THEN n ELSE half[b - 1] \div 2
    IN  {b \in Bits : half[b] % 2 = 1}

Plus(x, y) == Word(Num(x) + Num(y))
ROR(x, n) == {(b + 4 * Width - n) % Width : b \in x}
SHR(x, n) == {b - n : b \in {c \in x : c >= n}}
Xor3(x, y, z) == Xor(x, Xor(y, z))

-----------------------------------------------------------------------------
(* The code.                                                               *)

Ch(x, y, z) == Xor(z, x \cap Xor(y, z))
Maj(x, y, z) == ((x \cup y) \cap z) \cup (x \cap y)
Sigma0(x) == Xor3(ROR(x, 28), ROR(x, 34), ROR(x, 39))
Sigma1(x) == Xor3(ROR(x, 14), ROR(x, 18), ROR(x, 41))
Gamma0(x) == Xor3(ROR(x, 1), ROR(x, 8), SHR(x, 7))
Gamma1(x) == Xor3(ROR(x, 19), ROR(x, 61), SHR(x, 6))

(* W[i - 7] taken for W[i - 6].                                            *)
NextWordOff(w) ==
    LET t == Len(w)
    IN  Append(w, Plus(Plus(Gamma1(w[t - 1]), w[t - 5]), Plus(Gamma0(w[t - 14]), w[t - 15])))

(* W[i] behind W[0] .. W[i - 1].                                           *)
NextWord(w) ==
    LET t == Len(w)
    IN  Append(w, Plus(Plus(Gamma1(w[t - 1]), w[t - 6]), Plus(Gamma0(w[t - 14]), w[t - 15])))

(* W[16] .. W[79]                                                          *)
Schedule(block) ==
    LET w[k \in 0 .. 64] == IF k = 0 THEN block ELSE NextWord(w[k - 1])
    IN  w[64]

(* The word that round r of a turn calls by the name of place k.           *)
Role(r, k) == 1 + ((8 + k - r) % 8)

(* The words by the names of round r.                                      *)
Named(s, r) == [k \in 0 .. 7 |-> s[Role(r, k)]]

T0(v, w, t) == Plus(Plus(v[7], Plus(Sigma1(v[4]), Ch(v[4], v[5], v[6]))), Plus(K[t + 1], w[t + 1]))
T1(v) == Plus(Sigma0(v[0]), Maj(v[0], v[1], v[2]))

(* RND, the round r of the turn that begins at round t.                    *)
RND(s, w, t, r) ==
    LET t0 == T0(Named(s, r), w, t + r)
        t1 == T1(Named(s, r))
    IN  [s EXCEPT ![Role(r, 3)] = Plus(@, t0), ![Role(r, 7)] = Plus(t0, t1)]

(* The eight rounds of a turn.                                             *)
Turn(s, w, t) ==
    LET at[r \in 0 .. 8] == IF r = 0 THEN s ELSE RND(at[r - 1], w, t, r - 1)
    IN  at[8]

-----------------------------------------------------------------------------
(* FIPS 180-4, 6.4.2, with the functions of 4.1.3.                         *)

Not(x) == Bits \ x
FipsCh(x, y, z) == Xor(x \cap y, Not(x) \cap z)
FipsMaj(x, y, z) == Xor3(x \cap y, x \cap z, y \cap z)

FipsT1(v, w, t) ==
    Plus(Plus(v[8], Sigma1(v[5])), Plus(FipsCh(v[5], v[6], v[7]), Plus(K[t + 1], w[t + 1])))

FipsT2(v) == Plus(Sigma0(v[1]), FipsMaj(v[1], v[2], v[3]))

(* The words move up by one place per round.                               *)
FipsRound(v, w, t) ==
    LET t1 == FipsT1(v, w, t)
        t2 == FipsT2(v)
    IN  [k \in 1 .. 8 |-> IF k = 1 THEN Plus(t1, t2) ELSE IF k = 5 THEN Plus(v[4], t1) ELSE v[k - 1]]

FipsTurn(v, w, t) ==
    LET at[r \in 0 .. 8] == IF r = 0 THEN v ELSE FipsRound(at[r - 1], w, t + (r - 1))
    IN  at[8]

-----------------------------------------------------------------------------

Init ==
    /\ in \in Inputs
    /\ W = Schedule(in[2])
    /\ S = in[1]
    /\ F = in[1]
    /\ i = 0

(* One turn of the loop.                                                   *)
EightRounds ==
    /\ i < 80
    /\ S' = Turn(S, W, i)
    /\ F' = FipsTurn(F, W, i)
    /\ i' = i + 8
    /\ UNCHANGED <<in, W>>

(* The words are added to the state they came from.                        *)
Feedback ==
    /\ i = 80
    /\ S' = [k \in 1 .. 8 |-> Plus(in[1][k], S[k])]
    /\ F' = <<Plus(in[1][1], F[1]), Plus(in[1][2], F[2]), Plus(in[1][3], F[3]), Plus(in[1][4], F[4]),
             Plus(in[1][5], F[5]), Plus(in[1][6], F[6]), Plus(in[1][7], F[7]), Plus(in[1][8], F[8])>>
    /\ i' = 81
    /\ UNCHANGED <<in, W>>

Next == EightRounds \/ Feedback

Spec == Init /\ [][Next]_vars

-----------------------------------------------------------------------------
(* Properties.                                                             *)

(* After every turn of the loop the words that were never moved are those  *)
(* of the standard in their order, and the schedule is that of the         *)
(* standard: so the feedback adds each word to the right one, and the      *)
(* result is that of the standard.                                         *)
RoundsAreFips ==
    /\ S = F
    /\ \A t \in 17 .. Len(W) :
          W[t] = Word(Num(Gamma1(W[t - 2])) + Num(W[t - 7]) + Num(Gamma0(W[t - 15])) + Num(W[t - 16]))

=============================================================================

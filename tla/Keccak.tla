------------------------------- MODULE Keccak -------------------------------
(***************************************************************************)
(* The permutation of keccakf1600.c.  The code works on 25 variables, two  *)
(* rounds per turn of its loop, and does theta, rho, pi, chi and iota of a *)
(* round in one pass: row by row it picks five lanes, adds what theta      *)
(* gives their columns, rotates them and combines them.                    *)
(*                                                                         *)
(* A lane is the set of its bits that are one, so that exclusive or is the *)
(* symmetric difference.  A state is the tuple of the 25 lanes.            *)
(***************************************************************************)
EXTENDS Integers, Sequences

CONSTANT Starts  \* the states to start from

Bits == 0 .. 63

Xor(x, y) == (x \ y) \cup (y \ x)

(* Rows and states from what is in each place, counted from 0 as in C.     *)
Row(f) == <<f[0], f[1], f[2], f[3], f[4]>>

State(f) ==
    << f[0],  f[1],  f[2],  f[3],  f[4],
       f[5],  f[6],  f[7],  f[8],  f[9],
       f[10], f[11], f[12], f[13], f[14],
       f[15], f[16], f[17], f[18], f[19],
       f[20], f[21], f[22], f[23], f[24] >>

In(row, x) == row[1 + (x % 5)]

Lanes == [1 .. 25 -> SUBSET Bits]

StartsGiven == Starts \subseteq Lanes

VARIABLES
    A,      \* the 25 variables
    F,      \* history: the state FIPS 202 prescribes
    round   \* the rounds done

vars == <<A, F, round>>

ROL(a, n) == {(i + n) % 64 : i \in a}

KeccakF_RoundConstants ==
    <<{0}, {1, 7, 15}, {1, 3, 7, 15, 63},
      {15, 31, 63}, {0, 1, 3, 7, 15}, {0, 31},
      {0, 7, 15, 31, 63}, {0, 3, 15, 63}, {1, 3, 7},
      {3, 7}, {0, 3, 15, 31}, {1, 3, 31},
      {0, 1, 3, 7, 15, 31}, {0, 1, 3, 7, 63}, {0, 3, 7, 15, 63},
      {0, 1, 15, 63}, {1, 15, 63}, {7, 63},
      {1, 3, 15}, {1, 3, 31, 63}, {0, 7, 15, 31, 63},
      {7, 15, 63}, {0, 31}, {3, 15, 31, 63}>>

-----------------------------------------------------------------------------
(* The code.                                                               *)

(* For each row of the result the five lanes it is made of, and how far    *)
(* each is rotated.                                                        *)
Lane ==
    <<<<0, 6, 12, 18, 24>>, <<3, 9, 10, 16, 22>>, <<1, 7, 13, 19, 20>>,
      <<4, 5, 11, 17, 23>>, <<2, 8, 14, 15, 21>>>>

Offset ==
    <<<<0, 44, 43, 21, 14>>, <<28, 20, 3, 45, 61>>, <<1, 6, 25, 8, 18>>,
      <<27, 36, 10, 15, 56>>, <<62, 55, 39, 41, 2>>>>

(* BCa .. BCu                                                              *)
Parities(a) ==
    Row([x \in 0 .. 4 |-> Xor(Xor(Xor(a[x + 1], a[x + 6]), Xor(a[x + 11], a[x + 16])), a[x + 21])])

(* Da .. Du                                                                *)
Theta(a) ==
    LET c == Parities(a)
    IN  Row([x \in 0 .. 4 |-> Xor(In(c, x + 4), ROL(In(c, x + 1), 1))])

(* A lane of the result without the complement.                            *)
ChiPlain(b, x) == Xor(In(b, x), In(b, x + 2) \cap In(b, x + 1))

(* A lane of the result from the five that were picked for its row.        *)
Chi(b, x) == Xor(In(b, x), In(b, x + 2) \ In(b, x + 1))

(* A lane that is picked.                                                  *)
Picked(a, d, y, x) ==
    LET l == Lane[y + 1][x + 1] IN ROL(Xor(a[l + 1], In(d, l)), Offset[y + 1][x + 1])

(* The rows of Lane and Offset.                                            *)
Rows(a) ==
    LET d == Theta(a)
        bc == Row([y \in 0 .. 4 |-> Row([x \in 0 .. 4 |-> Picked(a, d, y, x)])])
    IN  State([l \in 0 .. 24 |-> Chi(bc[1 + (l \div 5)], l)])

(* One round, with the constant on lane 0.                                 *)
Round(a, r) == [Rows(a) EXCEPT ![1] = Xor(@, KeccakF_RoundConstants[r + 1])]

-----------------------------------------------------------------------------
(* FIPS 202, one step mapping after the other, with offsets and constants  *)
(* computed.                                                               *)

At(a, x, y) == a[1 + (x % 5) + 5 * (y % 5)]

(* The columns with an odd number of ones.                                 *)
FipsParities(a) ==
    LET bit(x, y, b) == IF b \in At(a, x, y) THEN 1 ELSE 0
    IN  Row([x \in 0 .. 4 |-> {b \in Bits :
            (bit(x, 0, b) + bit(x, 1, b) + bit(x, 2, b) + bit(x, 3, b) + bit(x, 4, b)) % 2 = 1}])

FipsTheta(a) ==
    LET c == FipsParities(a)
    IN  State([l \in 0 .. 24 |-> Xor(a[l + 1], Xor(In(c, l + 4), ROL(In(c, l + 1), 1)))])

(* The walk of rho over the lanes.                                         *)
Walk[t \in 0 .. 23] ==
    IF t = 0 THEN <<1, 0>>
    ELSE LET p == Walk[t - 1] IN <<p[2], (2 * p[1] + 3 * p[2]) % 5>>

RhoOffset(l) ==
    IF l = 0 THEN 0
    ELSE LET t == CHOOSE t \in 0 .. 23 : Walk[t][1] + 5 * Walk[t][2] = l
         IN  (((t + 1) * (t + 2)) \div 2) % 64

RhoOffsets == State([l \in 0 .. 24 |-> RhoOffset(l)])

FipsRho(a) == State([l \in 0 .. 24 |-> ROL(a[l + 1], RhoOffsets[l + 1])])

FipsPi(a) == State([l \in 0 .. 24 |-> At(a, l + 3 * (l \div 5), l)])

FipsChi(a) ==
    State([l \in 0 .. 24 |->
        {b \in Bits : (b \in a[l + 1]) # (b \notin At(a, l + 1, l \div 5)
                                            /\ b \in At(a, l + 2, l \div 5))}])

(* The shift register that makes the round constants.                      *)
Shifted(s) ==
    LET t == {k + 1 : k \in s}
    IN  IF 8 \in t THEN Xor(t, {0, 4, 5, 6, 8}) ELSE t

Lfsr[t \in 0 .. 167] == IF t = 0 THEN {0} ELSE Shifted(Lfsr[t - 1])

(* The place of bit j of the register's seven in a lane, 2^j - 1.          *)
Place == <<0, 1, 3, 7, 15, 31, 63>>

RoundConstant(r) == {Place[j + 1] : j \in {i \in 0 .. 6 : 0 \in Lfsr[i + 7 * r]}}

FipsRound(a, r) ==
    [FipsChi(FipsPi(FipsRho(FipsTheta(a)))) EXCEPT ![1] = Xor(@, RoundConstant(r))]

-----------------------------------------------------------------------------

Init ==
    /\ A \in Starts
    /\ F = A
    /\ round = 0

(* One turn of the loop of keccak_f1600.                                   *)
TwoRounds ==
    /\ round < 24
    /\ A' = Round(Round(A, round), round + 1)
    /\ F' = FipsRound(FipsRound(F, round), round + 1)
    /\ round' = round + 2

Next == TwoRounds

Spec == Init /\ [][Next]_vars

-----------------------------------------------------------------------------
(* Properties.                                                             *)

(* After every turn of the loop the variables hold the state that the      *)
(* standard prescribes after so many rounds.                               *)
RoundsAreFips == A = F

=============================================================================

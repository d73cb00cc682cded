------------------------------- MODULE Aes256 -------------------------------
(***************************************************************************)
(* The encryption of aes256enc_ref.c: four words and tables that do the    *)
(* substitution and the mixing of a column in one, with the row shift in   *)
(* the choice of the words that are looked up.                             *)
(*                                                                         *)
(* A word is the tuple of its four bytes, the highest first.               *)
(***************************************************************************)
EXTENDS Integers, Sequences, SequencesExt, Bitwise

CONSTANT Inputs  \* pairs of a key, 32 bytes, and a block, 16 bytes

VARIABLES
    in,    \* the pair being worked on
    rk,    \* the words of the expanded key
    s,     \* s0 .. s3
    key,   \* history: the expanded key of FIPS 197
    F,     \* history: the columns it prescribes
    round  \* the rounds done

vars == <<in, rk, s, key, F, round>>

XorWord(u, v) == <<u[1] ^^ v[1], u[2] ^^ v[2], u[3] ^^ v[3], u[4] ^^ v[4]>>

(* GETuint32_t at word k of some bytes.                                    *)
GetWord(bytes, k) == SubSeq(bytes, 4 * k + 1, 4 * k + 4)

Double(b) == IF b < 128 THEN 2 * b ELSE (2 * b - 256) ^^ 27

(* Four columns.                                                           *)
Cols(f(_)) == <<f(1), f(2), f(3), f(4)>>

-----------------------------------------------------------------------------
(* The code.                                                               *)

(* The byte that each entry of Te4 repeats four times.                     *)
Te4 ==
    << 99, 124, 119, 123, 242, 107, 111, 197,  48,   1, 103,  43, 254, 215, 171, 118,
      202, 130, 201, 125, 250,  89,  71, 240, 173, 212, 162, 175, 156, 164, 114, 192,
      183, 253, 147,  38,  54,  63, 247, 204,  52, 165, 229, 241, 113, 216,  49,  21,
        4, 199,  35, 195,  24, 150,   5, 154,   7,  18, 128, 226, 235,  39, 178, 117,
        9, 131,  44,  26,  27, 110,  90, 160,  82,  59, 214, 179,  41, 227,  47, 132,
       83, 209,   0, 237,  32, 252, 177,  91, 106, 203, 190,  57,  74,  76,  88, 207,
      208, 239, 170, 251,  67,  77,  51, 133,  69, 249,   2, 127,  80,  60, 159, 168,
       81, 163,  64, 143, 146, 157,  56, 245, 188, 182, 218,  33,  16, 255, 243, 210,
      205,  12,  19, 236,  95, 151,  68,  23, 196, 167, 126,  61, 100,  93,  25, 115,
       96, 129,  79, 220,  34,  42, 144, 136,  70, 238, 184,  20, 222,  94,  11, 219,
      224,  50,  58,  10,  73,   6,  36,  92, 194, 211, 172,  98, 145, 149, 228, 121,
      231, 200,  55, 109, 141, 213,  78, 169, 108,  86, 244, 234, 101, 122, 174,   8,
      186, 120,  37,  46,  28, 166, 180, 198, 232, 221, 116,  31,  75, 189, 139, 138,
      112,  62, 181, 102,  72,   3, 246,  14,  97,  53,  87, 185, 134, 193,  29, 158,
      225, 248, 152,  17, 105, 217, 142, 148, 155,  30, 135, 233, 206,  85,  40, 223,
      140, 161, 137,  13, 191, 230,  66, 104,  65, 153,  45,  15, 176,  84, 187,  22>>

Sub(b) == Te4[b + 1]

(* The entries of the other tables are these columns.                      *)
Te0(b) == <<Double(Sub(b)), Sub(b), Sub(b), Double(Sub(b)) ^^ Sub(b)>>
Te1(b) == <<Double(Sub(b)) ^^ Sub(b), Double(Sub(b)), Sub(b), Sub(b)>>
Te2(b) == <<Sub(b), Double(Sub(b)) ^^ Sub(b), Double(Sub(b)), Sub(b)>>
Te3(b) == <<Sub(b), Sub(b), Double(Sub(b)) ^^ Sub(b), Double(Sub(b))>>

rcon == <<1, 2, 4, 8, 16, 32, 64, 128, 27, 54>>

(* rk[8] .. rk[11] of a turn that begins at word o.                        *)
FirstHalf(w, o, i) ==
    LET t  == w[o + 8]
        w8 == XorWord(XorWord(w[o + 1], <<Sub(t[2]), Sub(t[3]), Sub(t[4]), Sub(t[1])>>),
                      <<rcon[i + 1], 0, 0, 0>>)
        w9 == XorWord(w[o + 2], w8)
        wa == XorWord(w[o + 3], w9)
    IN  w \o <<w8, w9, wa, XorWord(w[o + 4], wa)>>

(* With the rotation of the first half.                                    *)
SecondHalfRotated(w, o) ==
    LET t  == w[o + 12]
        wc == XorWord(w[o + 5], <<Sub(t[2]), Sub(t[3]), Sub(t[4]), Sub(t[1])>>)
        wd == XorWord(w[o + 6], wc)
        we == XorWord(w[o + 7], wd)
    IN  w \o <<wc, wd, we, XorWord(w[o + 8], we)>>

(* rk[12] .. rk[15], from rk[11] without the rotation.                     *)
SecondHalf(w, o) ==
    LET t  == w[o + 12]
        wc == XorWord(w[o + 5], <<Sub(t[1]), Sub(t[2]), Sub(t[3]), Sub(t[4])>>)
        wd == XorWord(w[o + 6], wc)
        we == XorWord(w[o + 7], wd)
    IN  w \o <<wc, wd, we, XorWord(w[o + 8], we)>>

(* A full round with the round key at word o; column c looks up its own    *)
(* first byte and one byte of each of the columns after it.                *)
Column(u, w, o, c) ==
    LET v(k) == u[1 + ((c + k) % 4)]
    IN  XorWord(XorWord(XorWord(Te0(v(0)[1]), Te1(v(1)[2])), XorWord(Te2(v(2)[3]), Te3(v(3)[4]))),
                w[o + c + 1])

FullRound(u, w, o) == Cols(LAMBDA c : Column(u, w, o, c - 1))

(* The round without mixing.                                               *)
LastColumn(u, w, o, c) ==
    LET v(k) == u[1 + ((c + k) % 4)]
    IN  XorWord(<<Sub(v(0)[1]), Sub(v(1)[2]), Sub(v(2)[3]), Sub(v(3)[4])>>, w[o + c + 1])

LastRound(u, w, o) == Cols(LAMBDA c : LastColumn(u, w, o, c - 1))

-----------------------------------------------------------------------------
(* FIPS 197, with the substitution as inversion and an affine map.         *)

Mul(a, b) ==
    FoldLeft(LAMBDA acc, k : LET d == Double(acc) IN IF (b \div 2^k) % 2 = 1 THEN d ^^ a ELSE d,
             0, <<7, 6, 5, 4, 3, 2, 1, 0>>)

XorAll(bytes) == FoldLeft(LAMBDA x, y : x ^^ y, 0, bytes)

Rotate(b, n) == ((b * 2^n) % 256) + ((b * 2^n) \div 256)

(* The inverse, 0 for 0, and the affine map.                               *)
SBox ==
    [a \in 0 .. 255 |->
        LET b == IF a = 0 THEN 0 ELSE CHOOSE y \in 0 .. 255 : Mul(a, y) = 1
        IN  XorAll(<<b, Rotate(b, 1), Rotate(b, 2), Rotate(b, 3), Rotate(b, 4), 99>>)]

SubWord(w) == <<SBox[w[1]], SBox[w[2]], SBox[w[3]], SBox[w[4]]>>

(* The word after those of w.                                              *)
NextWord(w) ==
    LET i == Len(w)
        t == w[i]
        u == CASE i % 8 = 0 -> XorWord(SubWord(Tail(t) \o <<t[1]>>), <<2^((i \div 8) - 1), 0, 0, 0>>)
               [] i % 8 = 4 -> SubWord(t)
               [] OTHER     -> t
    IN  XorWord(w[i - 7], u)

FourWords(w) == FoldLeft(LAMBDA v, k : Append(v, NextWord(v)), w, <<1, 2, 3, 4>>)

ShiftRows(u) ==
    LET c(k) == <<u[1 + (k % 4)][1], u[1 + ((k + 1) % 4)][2], u[1 + ((k + 2) % 4)][3], u[1 + ((k + 3) % 4)][4]>>
    IN  <<c(0), c(1), c(2), c(3)>>

MixColumn(w) ==
    LET b(k) == w[1 + (k % 4)]
        m(k) == XorAll(<<Mul(2, b(k)), Mul(3, b(k + 1)), b(k + 2), b(k + 3)>>)
    IN  <<m(0), m(1), m(2), m(3)>>

FipsRound(u, r) ==
    LET v == ShiftRows(Cols(LAMBDA c : SubWord(u[c])))
        w == IF r = 14 THEN v ELSE Cols(LAMBDA c : MixColumn(v[c]))
    IN  Cols(LAMBDA c : XorWord(w[c], key[4 * r + c]))

-----------------------------------------------------------------------------

Init ==
    /\ in \in Inputs
    /\ rk = [k \in 1 .. 8 |-> GetWord(in[1], k - 1)]
    /\ s = <<>>
    /\ key = rk
    /\ F = <<>>
    /\ round = 0

(* Half a turn of the loop of aes256_enc_exp_key, which ends in the middle *)
(* of its seventh turn.                                                    *)
ExpandKey ==
    /\ Len(rk) < 60
    /\ rk' = IF Len(rk) % 8 = 0 THEN FirstHalf(rk, Len(rk) - 8, (Len(rk) \div 8) - 1)
                                ELSE SecondHalf(rk, Len(rk) - 12)
    /\ key' = FourWords(key)
    /\ UNCHANGED <<in, s, F, round>>

(* The initial round key of aes256_encrypt_ecb.                            *)
FirstKey ==
    /\ Len(rk) = 60 /\ s = <<>>
    /\ s' = Cols(LAMBDA c : XorWord(GetWord(in[2], c - 1), rk[c]))
    /\ F' = Cols(LAMBDA c : XorWord(GetWord(in[2], c - 1), key[c]))
    /\ UNCHANGED <<in, rk, key, round>>

(* Half a turn of the loop, from s0 .. s3 to t0 .. t3 or back.             *)
MainRound ==
    /\ s # <<>> /\ round < 13
    /\ s' = FullRound(s, rk, 4 * round + 4)
    /\ F' = FipsRound(F, round + 1)
    /\ round' = round + 1
    /\ UNCHANGED <<in, rk, key>>

FinalRound ==
    /\ round = 13
    /\ s' = LastRound(s, rk, 56)
    /\ F' = FipsRound(F, 14)
    /\ round' = 14
    /\ UNCHANGED <<in, rk, key>>

Next == ExpandKey \/ FirstKey \/ MainRound \/ FinalRound

Spec == Init /\ [][Next]_vars

-----------------------------------------------------------------------------
(* Properties.                                                             *)

(* The words of the code are the columns of the standard after every round, *)
(* for keys and blocks that use every entry of the tables: so tables,      *)
(* key expansion and rounds are right together.                            *)
RoundsAreFips == rk = key /\ s = F

=============================================================================

------------------------------- MODULE AesSiv -------------------------------
(***************************************************************************)
(* The authenticated encryption of aes_siv.c.  Its functions go through    *)
(* messages byte by byte, with blocks that are encrypted when the next     *)
(* byte is due, so that the last one is still open at the end; RFC 5297    *)
(* and RFC 4493 are written in terms of whole blocks.                      *)
(*                                                                         *)
(* A byte is the set of its bits that are 1, and the block cipher is some  *)
(* function of a key and a block: nothing here depends on which.  The      *)
(* blocks can be shorter than those of AES.  As in the code, one key does  *)
(* what RFC 5297 has two for.                                              *)
(***************************************************************************)
EXTENDS Integers, Sequences

CONSTANTS
    N,        \* 16, the bytes of a block
    MaskAt,   \* {8, 12}, the bytes of the counter that lose their top bit
    Key,      \* the bits of the key
    AdBytes,  \* the bytes that associated data
    PtBytes,  \* and plaintext are made of
    MaxAd,    \* bounds on their lengths
    MaxPt

Bits == 0 .. 7

(* Bytes are bytes.                                                        *)
BytesFit == N \in Nat \ {0} /\ AdBytes \cup PtBytes \cup {Key} \subseteq SUBSET Bits

VARIABLES ad, pt

vars == <<ad, pt>>

Xor(x, y) == (x \ y) \cup (y \ x)

Zeros(n) == [i \in 1 .. n |-> {}]
XorBlock(u, v) == [i \in 1 .. N |-> Xor(u[i], v[i])]

(* A stand-in for AES-256: what matters is that it mixes.                  *)
Encrypt(blk) ==
    [i \in 1 .. N |-> Xor({(3 * b + i) % 8 : b \in blk[i]},
                         Xor(Key, blk[1 + (i % N)] \ blk[1 + ((i + 1) % N)]))]

-----------------------------------------------------------------------------
(* The code.                                                               *)

(* cmac_dbl: every bit moves up one place, the last of a byte into the     *)
(* byte before; what leaves the first byte comes back as 0x87.             *)
cmac_dbl(v) ==
    LET s == [i \in 1 .. N |-> ({b + 1 : b \in v[i]} \ {8})
                                 \cup (IF i < N /\ 7 \in v[i + 1] THEN {0} ELSE {})]
    IN  IF 7 \in v[1] THEN [s EXCEPT ![N] = Xor(@, {0, 1, 2, 7})] ELSE s

(* Encrypting a block as soon as it is full.                               *)
CmacByteEager(s, b) ==
    LET blk == [s.blk EXCEPT ![s.j + 1] = Xor(@, b)]
    IN  IF s.j = N - 1 THEN [blk |-> Encrypt(blk), j |-> 0] ELSE [blk |-> blk, j |-> s.j + 1]

(* The body of both loops of siv_cmac, for a byte that already has its     *)
(* part of xorend.                                                         *)
CmacByte(s, b) ==
    LET t == IF s.j >= N THEN [blk |-> Encrypt(s.blk), j |-> 0] ELSE s
    IN  [blk |-> [t.blk EXCEPT ![t.j + 1] = Xor(@, b)], j |-> t.j + 1]

(* The loops.                                                              *)
CmacBytes(data) ==
    LET at[k \in 0 .. Len(data)] ==
            IF k = 0 THEN [blk |-> Zeros(N), j |-> 0] ELSE CmacByte(at[k - 1], data[k])
    IN  at[Len(data)]

(* The data with xorend added to its last N bytes; <<>> is NULL.           *)
WithEnd(data, xorend) ==
    LET before == Len(data) - N
    IN  [i \in 1 .. Len(data) |-> IF xorend # <<>> /\ i > before
                                  THEN Xor(data[i], xorend[i - before]) ELSE data[i]]

(* siv_cmac, which has an xorend only for N bytes and more.                *)
siv_cmac(data, xorend) ==
    LET s == CmacBytes(WithEnd(data, xorend))
        k1 == cmac_dbl(Encrypt(Zeros(N)))
        last == IF s.j < N THEN XorBlock([s.blk EXCEPT ![s.j + 1] = Xor(@, {7})], cmac_dbl(k1))
                           ELSE XorBlock(s.blk, k1)
    IN  Encrypt(last)

(* Bytes as numbers.                                                       *)
Weight == <<1, 2, 4, 8, 16, 32, 64, 128>>

Bit(x, b) == IF b \in x THEN Weight[b + 1] ELSE 0

Val(x) == Bit(x, 0) + Bit(x, 1) + Bit(x, 2) + Bit(x, 3)
            + Bit(x, 4) + Bit(x, 5) + Bit(x, 6) + Bit(x, 7)

Byte(n) == {b \in Bits : (n \div Weight[b + 1]) % 2 = 1}

(* The counter plus one: a byte is incremented when all behind it have     *)
(* become 0.                                                               *)
Increment(cnt) ==
    [i \in 1 .. N |-> IF \A j \in i + 1 .. N : cnt[j] = Bits
                      THEN Byte((Val(cnt[i]) + 1) % 256) ELSE cnt[i]]

Mask(iv) == [i \in 1 .. N |-> IF i - 1 \in MaskAt THEN iv[i] \ {7} ELSE iv[i]]

(* The body of the loop of siv_ctr.                                        *)
CtrByte(s, b) ==
    LET t == IF s.j >= N
             THEN [s EXCEPT !.blk = Encrypt(s.cnt), !.cnt = Increment(@), !.j = 0] ELSE s
    IN  [t EXCEPT !.dst = Append(@, Xor(b, t.blk[t.j + 1])), !.j = @ + 1]

(* siv_ctr                                                                 *)
siv_ctr(src, iv) ==
    LET at[k \in 0 .. Len(src)] ==
            IF k = 0 THEN [cnt |-> Mask(iv), blk |-> Zeros(N), j |-> N, dst |-> <<>>]
            ELSE CtrByte(at[k - 1], src[k])
    IN  at[Len(src)].dst

(* The tag that both directions compute from the plaintext.                *)
Tag(a, p) ==
    LET d == XorBlock(cmac_dbl(siv_cmac(Zeros(N), <<>>)), siv_cmac(a, <<>>))
        d2 == cmac_dbl(d)
    IN  IF Len(p) >= N THEN siv_cmac(p, d)
        ELSE siv_cmac([i \in 1 .. N |-> CASE i <= Len(p)     -> Xor(d2[i], p[i])
                                          [] i = Len(p) + 1 -> Xor(d2[i], {7})
                                          [] OTHER          -> d2[i]], <<>>)

(* aes256_encrypt_siv                                                      *)
aes256_encrypt_siv(a, p) == Tag(a, p) \o siv_ctr(p, Tag(a, p))

(* What follows the first n bytes.                                         *)
Behind(c, n) == [i \in 1 .. Len(c) - n |-> c[n + i]]

(* aes256_decrypt_siv: the plaintext is there even when the tag is wrong.  *)
aes256_decrypt_siv(a, c) ==
    LET tag == [i \in 1 .. N |-> c[i]]
        p == siv_ctr(Behind(c, N), tag)
    IN  [pt |-> p, ok |-> Tag(a, p) = tag]

-----------------------------------------------------------------------------
(* RFC 4493 and RFC 5297.                                                  *)

(* A block as the polynomial with these exponents, times x.                *)
Exponents(v) == {e \in 0 .. 8 * N - 1 : e % 8 \in v[N - (e \div 8)]}

Double(v) ==
    LET x == {e + 1 : e \in Exponents(v)}
        r == IF 8 * N \in x THEN Xor(x, {8 * N, 7, 2, 1, 0}) ELSE x
    IN  [i \in 1 .. N |-> {b \in Bits : 8 * (N - i) + b \in r}]

Pad(b) == [i \in 1 .. N |-> CASE i <= Len(b) -> b[i] [] i = Len(b) + 1 -> {7} [] OTHER -> {}]

(* The chained blocks of m.                                                *)
Chain(m) ==
    LET after[k \in 0 .. Len(m) \div N] ==
            IF k = 0 THEN Zeros(N)
            ELSE Encrypt(XorBlock(after[k - 1], [i \in 1 .. N |-> m[(k - 1) * N + i]]))
    IN  after

Cmac(m) ==
    LET k1 == Double(Encrypt(Zeros(N)))
        n == IF Len(m) = 0 THEN 0 ELSE (Len(m) - 1) \div N
        rest == Behind(m, n * N)
        last == IF Len(rest) = N THEN XorBlock(rest, k1) ELSE XorBlock(Pad(rest), Double(k1))
    IN  Encrypt(XorBlock(Chain(m)[n], last))

(* p with d added to its end.                                              *)
XorEnd(p, d) ==
    [i \in 1 .. Len(p) |-> IF i <= Len(p) - N THEN p[i] ELSE Xor(p[i], d[i - (Len(p) - N)])]

S2V(a, p) ==
    LET d == XorBlock(Double(Cmac(Zeros(N))), Cmac(a))
    IN  IF Len(p) >= N THEN Cmac(XorEnd(p, d)) ELSE Cmac(XorBlock(Double(d), Pad(p)))

(* A block as a number, the last N bytes of a number, and a sum of both.   *)
Number(q) ==
    LET num[i \in 0 .. N] == IF i = 0 THEN 0 ELSE 256 * num[i - 1] + Val(q[i])
    IN  num[N]

Digits(x) ==
    LET quot[k \in 0 .. N] == IF k = 0 THEN x ELSE quot[k - 1] \div 256
    IN  [i \in 1 .. N |-> Byte(quot[N - i] % 256)]

Plus(q, k) == Digits(Number(q) + k)

Ctr(p, v) ==
    LET q == Mask(v)
    IN  [i \in 1 .. Len(p) |-> Xor(p[i], Encrypt(Plus(q, (i - 1) \div N))[1 + ((i - 1) % N)])]

-----------------------------------------------------------------------------

Init == ad = <<>> /\ pt = <<>>

(* Every pair of associated data and plaintext is reached.                 *)
LongerAd(b) == Len(ad) < MaxAd /\ pt = <<>> /\ ad' = Append(ad, b) /\ UNCHANGED pt

LongerPt(b) == Len(pt) < MaxPt /\ pt' = Append(pt, b) /\ UNCHANGED ad

Next == (\E b \in AdBytes : LongerAd(b)) \/ (\E b \in PtBytes : LongerPt(b))

Spec == Init /\ [][Next]_vars

-----------------------------------------------------------------------------
(* Properties.                                                             *)

(* The ciphertext is that of RFC 5297 for associated data and plaintext of *)
(* every length: none at all, less than a block, exactly full blocks and a *)
(* rest.                                                                   *)
EncryptIsRfc == aes256_encrypt_siv(ad, pt) = S2V(ad, pt) \o Ctr(pt, S2V(ad, pt))

(* Decryption accepts what was encrypted and gives the plaintext back, for *)
(* plaintext of any length, none included.                                 *)
DecryptInverts ==
    LET c == aes256_encrypt_siv(ad, pt)
    IN  aes256_decrypt_siv(ad, c) = [pt |-> pt, ok |-> TRUE]

(* The counter carries over bytes like a number, from any tag, the plain-  *)
(* text here: also one that ends in 255.                                   *)
CounterCarries ==
    Len(pt) = N => siv_ctr(Zeros(3 * N), pt) = Ctr(Zeros(3 * N), pt)

=============================================================================

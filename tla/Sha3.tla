-------------------------------- MODULE Sha3 --------------------------------
(***************************************************************************)
(* The sponge of sha3.c: a context that takes a message in pieces and      *)
(* gives the digest at once (SHA-3) or in pieces (SHAKE).                  *)
(*                                                                         *)
(* The library has one context, common_sha3_ctx, that every hash starts    *)
(* anew.  A byte is the set of terms it is the exclusive or of, so that    *)
(* two bytes are equal only if they are equal for every message and every  *)
(* permutation; keccak_f1600 makes bytes that are terms of its input.  The *)
(* bytes of the message are numbered, which makes the length all that      *)
(* distinguishes messages.                                                 *)
(***************************************************************************)
EXTENDS Naturals, Sequences

CONSTANTS
    StateLen,    \* 200
    DigestLens,  \* the lengths mdlen that are used
    MaxMsg,      \* bound on the length of a message
    MaxOut       \* bound on the bytes taken from a SHAKE

(* No digest is longer than the rate, and something is left of the state.  *)
ASSUME SizesFit ==
    /\ StateLen \in Nat /\ MaxMsg \in Nat /\ MaxOut \in Nat
    /\ \A n \in DigestLens : n \in Nat \ {0} /\ 3 * n <= StateLen

VARIABLES
    ctx,    \* sha3_ctx_t: b, pt, rsiz, mdlen
    msg,    \* history: the bytes taken since the last sha3_init
    phase,  \* "absorb", "xof" after shake_xof, "done" after sha3_final
    out     \* the bytes given since then

vars == <<ctx, msg, phase, out>>

Xor(x, y) == (x \ y) \cup (y \ x)

Byte(tag, v) == {<<tag, v>>}

(* keccak_f1600, a permutation nothing is assumed about.                   *)
Keccak(b) == [i \in DOMAIN b |-> {<<"f", b, i>>}]

-----------------------------------------------------------------------------
(* The code.                                                               *)

Fresh(mdlen) ==
    [b |-> [i \in 0 .. StateLen - 1 |-> {}], pt |-> 0,
     rsiz |-> StateLen - 2 * mdlen, mdlen |-> mdlen]

(* The body of the loop of sha3_update.                                    *)
AbsorbByte(c, x) ==
    LET b == [c.b EXCEPT ![c.pt] = Xor(@, x)]
    IN  IF c.pt + 1 >= c.rsiz THEN [c EXCEPT !.b = Keccak(b), !.pt = 0]
                              ELSE [c EXCEPT !.b = b, !.pt = @ + 1]

(* The loop.                                                               *)
Absorb(c, data) ==
    LET at[k \in Nat] == IF k = 0 THEN c ELSE AbsorbByte(at[k - 1], data[k])
    IN  at[Len(data)]

(* Overwriting the byte at the end of the rate.                            *)
PadBlockSet(c, suffix) ==
    Keccak([c.b EXCEPT ![c.pt] = Xor(@, Byte("pad", suffix)), ![c.rsiz - 1] = Byte("pad", "80")])

(* The padding of sha3_final and shake_xof.  Both bytes can be the same.   *)
PadBlock(c, suffix) ==
    LET b == [c.b EXCEPT ![c.pt] = Xor(@, Byte("pad", suffix))]
    IN  Keccak([b EXCEPT ![c.rsiz - 1] = Xor(@, Byte("pad", "80"))])

(* The body of the loop of shake_out.                                      *)
SqueezeByte(s) ==
    LET c == IF s.ctx.pt >= s.ctx.rsiz
             THEN [s.ctx EXCEPT !.b = Keccak(@), !.pt = 0] ELSE s.ctx
    IN  [ctx |-> [c EXCEPT !.pt = @ + 1], out |-> Append(s.out, c.b[c.pt])]

(* len turns of it.                                                        *)
Squeeze(s, len) ==
    LET at[k \in Nat] == IF k = 0 THEN s ELSE SqueezeByte(at[k - 1])
    IN  at[len]

Init ==
    /\ \E n \in DigestLens : ctx = Fresh(n)
    /\ msg = <<>>
    /\ phase = "absorb"
    /\ out = <<>>

(* sha3_init, shake128_init and shake256_init, whatever was there before.  *)
sha3_init(mdlen) ==
    /\ ctx' = Fresh(mdlen)
    /\ msg' = <<>>
    /\ phase' = "absorb"
    /\ out' = <<>>

(* sha3_update with the next len bytes, which may be none.                 *)
sha3_update(len) ==
    LET data == [i \in 1 .. len |-> Byte("msg", Len(msg) + i)]
    IN  /\ phase = "absorb"
        /\ ctx' = Absorb(ctx, data)
        /\ msg' = msg \o data
        /\ UNCHANGED <<phase, out>>

(* sha3_final                                                              *)
sha3_final ==
    /\ phase = "absorb"
    /\ ctx' = [ctx EXCEPT !.b = PadBlock(ctx, "06")]
    /\ out' = [i \in 1 .. ctx.mdlen |-> ctx'.b[i - 1]]
    /\ phase' = "done"
    /\ UNCHANGED msg

(* shake_xof                                                               *)
shake_xof ==
    /\ phase = "absorb"
    /\ ctx' = [ctx EXCEPT !.b = PadBlock(ctx, "1F"), !.pt = 0]
    /\ phase' = "xof"
    /\ UNCHANGED <<msg, out>>

(* shake_out, asked for len bytes.                                         *)
shake_out(len) ==
    LET s == Squeeze([ctx |-> ctx, out |-> out], len)
    IN  /\ phase = "xof"
        /\ ctx' = s.ctx
        /\ out' = s.out
        /\ UNCHANGED <<msg, phase>>

(* sha3 of a message of len bytes, in the one context, and its first       *)
(* outputlen bytes as sha3_256_trunc takes them.                           *)
sha3_trunc(mdlen, len, outputlen) ==
    LET data == [i \in 1 .. len |-> Byte("msg", i)]
        c == Absorb(Fresh(mdlen), data)
    IN  /\ ctx' = [c EXCEPT !.b = PadBlock(c, "06")]
        /\ msg' = data
        /\ phase' = "done"
        /\ out' = [i \in 1 .. outputlen |-> ctx'.b[i - 1]]

Next ==
    \/ \E n \in DigestLens : sha3_init(n)
    \/ \E n \in 0 .. MaxMsg - Len(msg) : sha3_update(n)
    \/ sha3_final
    \/ \E n \in DigestLens, len \in 0 .. MaxMsg : \E k \in 1 .. n : sha3_trunc(n, len, k)
    \/ shake_xof
    \/ \E n \in 1 .. MaxOut - Len(out) : shake_out(n)

Spec == Init /\ [][Next]_vars

-----------------------------------------------------------------------------
(* The sponge construction of FIPS 202, on the whole message.              *)

(* The message, the suffix and pad10*1 up to a multiple of the rate.       *)
Padded(m, suffix, rate) ==
    LET n == (Len(m) \div rate + 1) * rate
    IN  [i \in 1 .. n |->
           IF i <= Len(m) THEN m[i]
           ELSE Xor(IF i = Len(m) + 1 THEN Byte("pad", suffix) ELSE {},
                    IF i = n THEN Byte("pad", "80") ELSE {})]

(* A state and the rate bytes of p behind the first from; where p has      *)
(* ended they are zero.                                                    *)
XorBlock(b, p, from, rate) ==
    [i \in DOMAIN b |->
       IF i < rate /\ from + i < Len(p) THEN Xor(b[i], p[from + i + 1]) ELSE b[i]]

(* The states of the sponge: a block of p before each permutation, and     *)
(* none when p has ended and only output is taken.                         *)
States(p, rate) ==
    LET after[k \in Nat] ==
            IF k = 0 THEN [i \in 0 .. StateLen - 1 |-> {}]
            ELSE Keccak(XorBlock(after[k - 1], p, (k - 1) * rate, rate))
    IN  after

(* The first len bytes of the output.                                      *)
Sponge(m, suffix, rate, len) ==
    LET p == Padded(m, suffix, rate)
    IN  [i \in 1 .. len |->
           States(p, rate)[Len(p) \div rate + (i - 1) \div rate][(i - 1) % rate]]

-----------------------------------------------------------------------------
(* Properties.                                                             *)

(* However a message is cut into calls of sha3_update, and whatever the    *)
(* context was used for before, sha3_final gives the digest of the         *)
(* message, also where message and padding end in the same byte; and the   *)
(* pieces shake_out gives, however they are asked for, are one output, and *)
(* none of them shows the part of the state behind the rate.               *)
Sha3IsSponge ==
    /\ phase = "done" => out = Sponge(msg, "06", ctx.rsiz, Len(out))
    /\ phase = "xof" => out = Sponge(msg, "1F", ctx.rsiz, Len(out))

=============================================================================

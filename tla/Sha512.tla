------------------------------- MODULE Sha512 -------------------------------
(***************************************************************************)
(* The context of sha512.c: blocks that are complete in the caller's       *)
(* memory are compressed from there, the rest is collected in buf, and     *)
(* sha512_final pads what is left over one or two blocks.                  *)
(*                                                                         *)
(* Bytes are terms and so is the state after sha512_compress; what the     *)
(* rounds of sha512_compress compute is the module Sha512Rounds.           *)
(***************************************************************************)
EXTENDS Naturals, Sequences

CONSTANTS
    Block,   \* 128, the bytes of a block and of buf
    LenLen,  \* 8, the bytes of each half of the length
    MaxMsg   \* bound on the length of a message

(* A block has room for the length behind a byte at least, and the number  *)
(* of bits of a message for its lower half, as sha512_final assumes.       *)
SizesFit ==
    /\ Block \in Nat /\ LenLen \in Nat \ {0} /\ MaxMsg \in Nat
    /\ 2 * LenLen < Block
    /\ 8 * MaxMsg < 2 ^ (8 * LenLen)

VARIABLES
    md,     \* sha512_context: length, state, curlen, buf
    msg,    \* history: the bytes taken since the last sha512_init
    digest  \* what sha512_final has given, or None

vars == <<md, msg, digest>>

None == <<"none">>
Zero == <<"zero">>

Compress(state, block) == <<"C", state, block>>

(* The bytes sha512_compress loads from behind the first from of in.       *)
Bytes(in, from) == [i \in 1 .. Block |-> in[from + i]]

(* STORE64H of the number of bits.                                         *)
Length(n) == [i \in 1 .. LenLen |-> <<"length", n, i>>]

-----------------------------------------------------------------------------
(* The code.                                                               *)

Fresh(buf) == [length |-> 0, state |-> <<"IV">>, curlen |-> 0, buf |-> buf]

(* The turns of the loop of sha512_update: s has the context and how many  *)
(* bytes of in are taken.  A complete block in the caller's memory.        *)
Direct(s, in) ==
    [md |-> [s.md EXCEPT !.state = Compress(@, Bytes(in, s.taken)), !.length = @ + 8 * Block],
     taken |-> s.taken + Block]

(* As many bytes as buf still takes.                                       *)
Collect(s, in) ==
    LET m == s.md
        inlen == Len(in) - s.taken
        n == IF inlen < Block - m.curlen THEN inlen ELSE Block - m.curlen
        buf == [i \in 1 .. Block |-> IF i \in m.curlen + 1 .. m.curlen + n
                                     THEN in[s.taken + (i - m.curlen)] ELSE m.buf[i]]
    IN  [md |-> IF m.curlen + n = Block
                THEN [length |-> m.length + 8 * Block, state |-> Compress(m.state, buf),
                      curlen |-> 0, buf |-> buf]
                ELSE [m EXCEPT !.curlen = @ + n, !.buf = buf],
         taken |-> s.taken + n]

(* The body of the loop.                                                   *)
Fill(s, in) ==
    IF s.md.curlen = 0 /\ Len(in) - s.taken >= Block THEN Direct(s, in) ELSE Collect(s, in)

(* while (inlen > 0)                                                       *)
Turn(s, in) == IF s.taken = Len(in) THEN s ELSE Fill(s, in)

(* The loop; each turn takes a byte at least.                              *)
Update(m, in) ==
    LET at[k \in Nat] == IF k = 0 THEN [md |-> m, taken |-> 0] ELSE Turn(at[k - 1], in)
    IN  at[Len(in)].md

(* buf with the bytes from curlen on up to n cleared.                      *)
Cleared(m, n) ==
    [m EXCEPT !.curlen = n,
              !.buf = [i \in 1 .. Block |-> IF i \in m.curlen + 1 .. n THEN Zero ELSE m.buf[i]]]

(* Comparing with the place of the lower half of the length.               *)
SpillLate(m) ==
    IF m.curlen > Block - LenLen
    THEN LET full == Cleared(m, Block)
         IN  [full EXCEPT !.state = Compress(@, full.buf), !.curlen = 0]
    ELSE m

(* When there is no room for the length, it gets a block of its own.       *)
Spill(m) ==
    IF m.curlen > Block - 2 * LenLen
    THEN LET full == Cleared(m, Block)
         IN  [full EXCEPT !.state = Compress(@, full.buf), !.curlen = 0]
    ELSE m

(* The context after sha512_final.                                         *)
Finished(m) ==
    LET ended == [m EXCEPT !.length = @ + 8 * m.curlen,
                           !.buf[m.curlen + 1] = <<"80">>, !.curlen = @ + 1]
        padded == Cleared(Spill(ended), Block - LenLen)
        buf == [i \in 1 .. Block |->
                  IF i > Block - LenLen THEN Length(padded.length)[i - (Block - LenLen)]
                                        ELSE padded.buf[i]]
    IN  [padded EXCEPT !.buf = buf, !.state = Compress(@, buf)]

Init ==
    /\ md = Fresh([i \in 1 .. Block |-> Zero])
    /\ msg = <<>>
    /\ digest = None

(* sha512_init, which leaves buf as it is.                                 *)
sha512_init ==
    /\ md' = Fresh(md.buf)
    /\ msg' = <<>>
    /\ digest' = None

(* sha512_update with the next n bytes.                                    *)
sha512_update(n) ==
    LET in == [i \in 1 .. n |-> <<"msg", Len(msg) + i>>]
    IN  /\ digest = None
        /\ md' = Update(md, in)
        /\ msg' = msg \o in
        /\ UNCHANGED digest

(* sha512_final                                                            *)
sha512_final ==
    /\ digest = None
    /\ md.curlen < Block
    /\ md' = Finished(md)
    /\ digest' = md'.state
    /\ UNCHANGED msg

(* sha512: the three in a row.                                             *)
sha512(n) ==
    LET in == [i \in 1 .. n |-> <<"msg", i>>]
    IN  /\ md' = Finished(Update(Fresh(md.buf), in))
        /\ msg' = in
        /\ digest' = md'.state

Next ==
    \/ sha512_init
    \/ \E n \in 0 .. MaxMsg - Len(msg) : sha512_update(n)
    \/ sha512_final
    \/ \E n \in 0 .. MaxMsg : sha512(n)

Spec == Init /\ [][Next]_vars

-----------------------------------------------------------------------------
(* FIPS 180-4 on the whole message.                                        *)

Padded(m) ==
    LET n == ((Len(m) + 2 * LenLen) \div Block + 1) * Block
    IN  [i \in 1 .. n |->
           CASE i <= Len(m)          -> m[i]
             [] i = Len(m) + 1       -> <<"80">>
             [] i > n - LenLen       -> Length(8 * Len(m))[i - (n - LenLen)]
             [] OTHER                -> Zero]

(* The states after the blocks of p.                                       *)
After(p) ==
    LET after[k \in Nat] == IF k = 0 THEN <<"IV">>
                            ELSE Compress(after[k - 1], Bytes(p, (k - 1) * Block))
    IN  after

Digest(m) == After(Padded(m))[Len(Padded(m)) \div Block]

-----------------------------------------------------------------------------
(* Properties.                                                             *)

(* sha512_final gives the digest of the message, however it was cut into   *)
(* calls of sha512_update, which of its blocks went through buf, whatever  *)
(* an earlier message has left there, and wherever in a block it ends.     *)
DigestIsFips == digest # None => digest = Digest(msg)

=============================================================================

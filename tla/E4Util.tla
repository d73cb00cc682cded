------------------------------- MODULE E4Util -------------------------------
(***************************************************************************)
(* The strings of e4util.c and strlcpy.c: names written into, and bytes    *)
(* read into, a buffer of the caller that may be too small.                *)
(*                                                                         *)
(* A string is a sequence of characters that in memory is followed by NUL. *)
(* Memory goes on behind the buffer, so that a write too far shows.        *)
(***************************************************************************)
EXTENDS Integers, Sequences

CONSTANTS
    E4_ID_LEN,  \* 16
    MemLen,     \* the memory that is looked at
    Ids,        \* client ids, sequences of E4_ID_LEN bytes
    Encodings   \* strings to decode and to copy

NUL == "NUL"

StringsGiven ==
    /\ E4_ID_LEN \in Nat \ {0} /\ MemLen \in Nat
    /\ Ids \subseteq [1 .. E4_ID_LEN -> 0 .. 255]
    /\ Encodings \subseteq Seq(STRING \ {NUL})

VARIABLES
    mem,   \* the memory, the buffer at its start
    last   \* the call that wrote it: function, argument, size of the buffer, result

vars == <<mem, last>>

Untouched == [i \in 1 .. MemLen |-> "untouched"]

Lower == <<"0", "1", "2", "3", "4", "5", "6", "7", "8", "9", "a", "b", "c", "d", "e", "f">>
Upper == <<"0", "1", "2", "3", "4", "5", "6", "7", "8", "9", "A", "B", "C", "D", "E", "F">>

Least(S) == CHOOSE i \in S : \A j \in S : i <= j

(* str and NUL at place at of some memory.                                 *)
Put(m, at, str) ==
    [i \in 1 .. MemLen |-> CASE i - at \in 0 .. Len(str) - 1 -> str[i - at + 1]
                             [] i - at = Len(str)            -> NUL
                             [] OTHER                        -> m[i]]

-----------------------------------------------------------------------------
(* The code.  Functions give what they return and the memory they leave.   *)

E4_CTRLTOPIC_LEN == 3 + 2 * E4_ID_LEN

(* "%02x"                                                                  *)
Digits(b) == <<Lower[1 + (b \div 16)], Lower[1 + (b % 16)]>>

(* e4c_derive_control_topic: "e4/" and then two digits at a time, each     *)
(* piece with a NUL that the next overwrites.                              *)
Topic(m, id) ==
    LET put[k \in 0 .. E4_ID_LEN] ==
            IF k = 0 THEN Put(m, 1, <<"e", "4", "/">>) ELSE Put(put[k - 1], 2 + 2 * k, Digits(id[k]))
    IN  put[E4_ID_LEN]

derive_control_topic(m, topiclen, id) ==
    IF topiclen < E4_CTRLTOPIC_LEN + 1 THEN [r |-> E4_CTRLTOPIC_LEN + 1, mem |-> m]
                                       ELSE [r |-> 0, mem |-> Topic(m, id)]

from_hex(c) ==
    LET at == {i \in 1 .. 16 : Lower[i] = c \/ Upper[i] = c}
    IN  IF at = {} THEN -1 ELSE Least(at) - 1

(* The body of the loop of e4c_hex_decode; r is one more than i, and 0 for *)
(* a return from the loop.                                                 *)
DecodePair(s, h1, h2) ==
    IF s.r = 0 \/ h1 < 0 \/ h2 < 0 THEN [s EXCEPT !.r = 0]
    ELSE [r |-> s.r + 2, mem |-> [s.mem EXCEPT ![1 + ((s.r - 1) \div 2)] = 16 * h1 + h2]]

(* The loop.                                                               *)
Decode(m, encoded) ==
    LET n == Len(encoded) \div 2
        at[k \in 0 .. n] ==
            IF k = 0 THEN [r |-> 1, mem |-> m]
            ELSE DecodePair(at[k - 1], from_hex(encoded[2 * k - 1]), from_hex(encoded[2 * k]))
    IN  at[n]

(* e4c_hex_decode: it gives the number of digits, and the bytes before a   *)
(* wrong digit have been written.                                          *)
hex_decode(m, dst_len, encoded) ==
    LET n == Len(encoded)
    IN  IF n = 0 \/ n % 2 # 0 \/ n \div 2 > dst_len THEN [r |-> 0, mem |-> m]
        ELSE [Decode(m, encoded) EXCEPT !.r = IF @ = 0 THEN 0 ELSE @ - 1]

(* A copy that leaves no room for NUL.                                     *)
CopyCharFull(s, c) ==
    CASE s.end \/ s.n = 0 -> s
      [] ~s.end /\ s.n > 0 -> [mem |-> [s.mem EXCEPT ![s.d] = c], d |-> s.d + 1, n |-> s.n - 1,
                               end |-> c = NUL]

(* The loop of strlcpy: n counts down what fits.                           *)
CopyChar(s, c) ==
    CASE s.end \/ s.n = 0 -> s
      [] ~s.end /\ s.n = 1 -> [s EXCEPT !.n = 0]
      [] ~s.end /\ s.n > 1 -> [mem |-> [s.mem EXCEPT ![s.d] = c], d |-> s.d + 1, n |-> s.n - 1,
                               end |-> c = NUL]

(* The loops over src and its NUL.                                         *)
Copy(m, siz, src) ==
    LET at[k \in 0 .. Len(src) + 1] ==
            IF k = 0 THEN [mem |-> m, d |-> 1, n |-> siz, end |-> FALSE]
            ELSE CopyChar(at[k - 1], IF k <= Len(src) THEN src[k] ELSE NUL)
    IN  at[Len(src) + 1]

strlcpy(m, siz, src) ==
    LET s == Copy(m, siz, src)
    IN  [r |-> Len(src),
         mem |-> IF s.n = 0 /\ siz # 0 THEN [s.mem EXCEPT ![s.d] = NUL] ELSE s.mem]

-----------------------------------------------------------------------------

Init == mem = Untouched /\ last = [op |-> "none", arg |-> <<>>, size |-> 0, r |-> 0]

(* A call into a buffer of the given size.                                 *)
Call(op, res, arg, size) ==
    /\ last.op = "none"
    /\ mem' = res.mem
    /\ last' = [op |-> op, arg |-> arg, size |-> size, r |-> res.r]

Next ==
    \E size \in 0 .. MemLen :
        \/ \E id \in Ids : Call("topic", derive_control_topic(mem, size, id), id, size)
        \/ \E str \in Encodings : Call("decode", hex_decode(mem, size, str), str, size)
        \/ \E str \in Encodings : Call("copy", strlcpy(mem, size, str), str, size)

Spec == Init /\ [][Next]_vars

-----------------------------------------------------------------------------
(* Properties.                                                             *)

(* The string in memory, up to its NUL.                                    *)
StringIn(m) ==
    LET nul == {i \in 1 .. MemLen : m[i] = NUL}
    IN  IF nul = {} THEN <<>> ELSE SubSeq(m, 1, Least(nul) - 1)

(* A control topic that was derived names the id and no other: decoding    *)
(* what follows "e4/" gives the id back, in a buffer that is just large    *)
(* enough.                                                                 *)
TopicNamesId ==
    last.op = "topic" /\ last.r = 0 =>
        LET str == StringIn(mem)
            back == hex_decode(Untouched, E4_ID_LEN, SubSeq(str, 4, Len(str)))
        IN  /\ SubSeq(str, 1, 3) = <<"e", "4", "/">>
            /\ back = [r |-> 2 * E4_ID_LEN, mem |-> last.arg \o SubSeq(Untouched, E4_ID_LEN + 1, MemLen)]

(* No call writes behind the buffer; a copy always ends in NUL, holds as   *)
(* much of the string as there is room for, and its result tells whether   *)
(* that is all of it.                                                      *)
BuffersKept ==
    /\ \A i \in last.size + 1 .. MemLen : mem[i] = "untouched"
    /\ last.op = "copy" /\ last.size > 0 =>
         LET n == IF last.r < last.size THEN last.r ELSE last.size - 1
         IN  last.r = Len(last.arg) /\ StringIn(mem) = SubSeq(last.arg, 1, n)

=============================================================================

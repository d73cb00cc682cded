--------------------------- MODULE PrimitivesProofs ---------------------------
(***************************************************************************)
(* The hashes for messages of any length, cut into calls in any way, their *)
(* permutation and their rounds from any state, AES-SIV for associated     *)
(* data and plaintext of any length, and the strings for ids and memories  *)
(* of any size: what the run looks at for a few of them only.              *)
(***************************************************************************)
EXTENDS Primitives, Integers, TLAPS, WellFoundedInduction

-----------------------------------------------------------------------------
(* Induction, and arithmetic that the provers need one line at a time.     *)

(* Induction over the natural numbers, for the set of those that have a    *)
(* property.                                                               *)
LEMMA Induction ==
    ASSUME NEW S \in SUBSET Nat, 0 \in S, \A n \in S : n + 1 \in S
    PROVE  S = Nat
<1> SUFFICES ASSUME Nat \ S # {} PROVE FALSE
  OBVIOUS
<1>1. PICK m \in Nat \ S : \A x \in Nat \ S : ~ (<<x, m>> \in OpToRel(<, Nat))
  BY NatLessThanWellFounded, WFMin
<1>2. \A x \in Nat \ S : ~ (x < m)
  BY <1>1 DEF OpToRel
<1>3. m # 0 /\ m - 1 \in Nat /\ m - 1 \in S
  BY <1>2
<1> QED
  BY <1>3

(* A number of blocks of r and a rest.                                     *)
LEMMA Blocks ==
    ASSUME NEW n \in Nat, NEW r \in Nat \ {0}, NEW t \in 0 .. r - 1
    PROVE  (n * r + t) \div r = n /\ (n * r + t) % r = t
  OBVIOUS

(* One block more.                                                         *)
LEMMA NextBlock ==
    ASSUME NEW n \in Int, NEW r \in Int
    PROVE  (n + 1) * r = n * r + r
  OBVIOUS

(* The same place seen from two beginnings.                                *)
LEMMA Offset ==
    ASSUME NEW j \in Nat, NEW t \in Nat, NEW f \in Nat, NEW c \in Nat, j + t = f + c, NEW i \in Int
    PROVE  j + (t + (i - c)) = f + i
  OBVIOUS

-----------------------------------------------------------------------------
(* SHA-3.                                                                  *)

(* A state of the permutation.                                             *)
IsState(b) == b = [i \in 0 .. StateLen - 1 |-> b[i]]

(* The permutation gives a state for one.                                  *)
LEMMA KeccakState ==
    ASSUME NEW b, IsState(b)
    PROVE  IsState(Keccak(b))
<1>1. DOMAIN b = 0 .. StateLen - 1
  BY DEF IsState
<1> QED
  BY <1>1 DEF IsState, Keccak

(* What the definition of the states of the sponge by recursion says.      *)
LEMMA StatesDef ==
    ASSUME NEW p, NEW rate
    PROVE  States(p, rate) = [k \in Nat |->
             IF k = 0 THEN [i \in 0 .. StateLen - 1 |-> {}]
             ELSE Keccak(XorBlock(States(p, rate)[k - 1], p, (k - 1) * rate, rate))]
<1> DEFINE zero == [i \in 0 .. StateLen - 1 |-> {}]
           St(b, k) == Keccak(XorBlock(b, p, (k - 1) * rate, rate))
<1> HIDE DEF St, zero
<1> DEFINE A(g, n) == g = [k \in 0 .. n |-> IF k = 0 THEN zero ELSE St(g[k - 1], k)]
           S == {n \in Nat : \E g : A(g, n)}
           G(n) == CHOOSE g : A(g, n)
           h == [n \in Nat |-> G(n)[n]]
<1>1. 0 \in S
  <2>1. A([k \in 0 .. 0 |-> zero], 0)
    OBVIOUS
  <2> QED
    BY <2>1
<1>2. ASSUME NEW n \in S PROVE n + 1 \in S
  <2>1. PICK g : A(g, n)
    BY <1>2
  <2>2. A([k \in 0 .. n + 1 |-> IF k = n + 1 THEN St(g[n], n + 1) ELSE g[k]], n + 1)
    BY <2>1
  <2>3. \E x : A(x, n + 1)
    BY <2>2
  <2> QED
    BY <2>3
<1>3. S = Nat
  BY <1>1, <1>2, Induction
<1>4. \A n \in Nat : A(G(n), n)
  BY <1>3
<1> HIDE DEF G
<1>5. ASSUME NEW n \in Nat PROVE G(n + 1)[n] = G(n)[n]
  <2> DEFINE U == {k \in Nat : k <= n => G(n + 1)[k] = G(n)[k]}
  <2>1. 0 \in U
    BY <1>4
  <2>2. ASSUME NEW k \in U PROVE k + 1 \in U
    BY <1>4, <2>2
  <2>3. U = Nat
    BY <2>1, <2>2, Induction
  <2> QED
    BY <2>3
<1>6. h = [k \in Nat |-> IF k = 0 THEN zero ELSE St(h[k - 1], k)]
  <2> SUFFICES ASSUME NEW k \in Nat PROVE h[k] = IF k = 0 THEN zero ELSE St(h[k - 1], k)
    OBVIOUS
  <2>1. CASE k = 0
    BY <1>4, <2>1
  <2>2. CASE k # 0
    <3>1. k - 1 \in Nat /\ G((k - 1) + 1)[k - 1] = G(k - 1)[k - 1] /\ (k - 1) + 1 = k
      BY <2>2, <1>5
    <3>2. G(k)[k] = St(G(k)[k - 1], k)
      BY <1>4, <2>2
    <3> QED
      BY <3>1, <3>2, <2>2
  <2> QED
    BY <2>1, <2>2
<1> QED
  BY <1>6 DEF States, St, zero

(* The same for the first state and for each next one.                     *)
LEMMA StatesStep ==
    ASSUME NEW p, NEW rate
    PROVE  /\ States(p, rate)[0] = [i \in 0 .. StateLen - 1 |-> {}]
           /\ \A k \in Nat : States(p, rate)[k + 1]
                = Keccak(XorBlock(States(p, rate)[k], p, k * rate, rate))
<1> DEFINE after == States(p, rate)
           zero == [i \in 0 .. StateLen - 1 |-> {}]
           St(b, k) == Keccak(XorBlock(b, p, (k - 1) * rate, rate))
<1>1. after = [k \in Nat |-> IF k = 0 THEN zero ELSE St(after[k - 1], k)]
  BY StatesDef
<1> HIDE DEF St, after, zero
<1>2. after[0] = zero /\ \A k \in Nat : after[k + 1] = St(after[(k + 1) - 1], k + 1)
  BY <1>1
<1>3. \A k \in Nat : (k + 1) - 1 = k
  OBVIOUS
<1> QED
  BY <1>2, <1>3 DEF St, after, zero

(* Xor of bytes as sets of terms.                                          *)
LEMMA XorLaws ==
    ASSUME NEW x, NEW y, NEW w
    PROVE  /\ Xor(x, {}) = x
           /\ Xor({}, x) = x
           /\ Xor(Xor(x, y), w) = Xor(x, Xor(y, w))
  BY DEF Xor

(* All of them are states.                                                 *)
LEMMA StatesAre ==
    ASSUME NEW p, NEW rate
    PROVE  \A k \in Nat : IsState(States(p, rate)[k])
<1> DEFINE after == States(p, rate)
           S == {k \in Nat : IsState(after[k])}
<1>1. 0 \in S
  BY StatesStep DEF IsState
<1>2. ASSUME NEW k \in S PROVE k + 1 \in S
  <2>1. after[k + 1] = Keccak(XorBlock(after[k], p, k * rate, rate))
    BY StatesStep
  <2>2. IsState(XorBlock(after[k], p, k * rate, rate))
    BY DEF IsState, XorBlock
  <2> HIDE DEF after
  <2> QED
    BY <2>1, <2>2, KeccakState
<1>3. S = Nat
  <2> HIDE DEF after
  <2> QED
    BY <1>1, <1>2, Induction
<1> QED
  BY <1>3

(* The first e bytes of both are the same.                                 *)
Alike(p, q, e) ==
    /\ Len(p) \in Nat /\ Len(q) \in Nat
    /\ e <= Len(p) /\ e <= Len(q)
    /\ \A i \in 1 .. e : p[i] = q[i]

(* Sequences that begin alike lead to the same states as long as they do.  *)
LEMMA StatesAlike ==
    ASSUME NEW p, NEW q, NEW rate \in Nat, NEW n \in Nat, Alike(p, q, n * rate)
    PROVE  \A k \in 0 .. n : States(p, rate)[k] = States(q, rate)[k]
<1> DEFINE a(k) == States(p, rate)[k]
           b(k) == States(q, rate)[k]
           S == {k \in Nat : k <= n => a(k) = b(k)}
<1>1. a(0) = b(0)
  BY StatesStep
<1>2. \A k \in Nat : /\ a(k + 1) = Keccak(XorBlock(a(k), p, k * rate, rate))
                     /\ b(k + 1) = Keccak(XorBlock(b(k), q, k * rate, rate))
  BY StatesStep
<1>3. \A k \in Nat : DOMAIN a(k) = 0 .. StateLen - 1
  <2> SUFFICES ASSUME NEW k \in Nat PROVE DOMAIN a(k) = 0 .. StateLen - 1
    OBVIOUS
  <2>1. IsState(a(k))
    BY StatesAre
  <2> HIDE DEF a
  <2> QED
    BY <2>1 DEF IsState
<1> HIDE DEF a, b
<1>4. ASSUME NEW k \in S PROVE k + 1 \in S
  <2> SUFFICES ASSUME k + 1 <= n PROVE a(k + 1) = b(k + 1)
    OBVIOUS
  <2> DEFINE from == k * rate
             end == n * rate
  <2>1. from \in Nat /\ end \in Nat /\ from + rate <= end
    OBVIOUS
  <2>a. Alike(p, q, end)
    OBVIOUS
  <2>2. a(k) = b(k) /\ DOMAIN a(k) = 0 .. StateLen - 1
    BY <1>3, <1>4
  <2> HIDE DEF from, end
  <2>3. \A i \in 0 .. StateLen - 1 : i < rate =>
           from + i < Len(p) /\ from + i < Len(q) /\ p[from + i + 1] = q[from + i + 1]
    <3> SUFFICES ASSUME NEW i \in 0 .. StateLen - 1, i < rate
                 PROVE  /\ from + i < Len(p) /\ from + i < Len(q)
                        /\ p[from + i + 1] = q[from + i + 1]
      OBVIOUS
    <3>1. from + i + 1 \in 1 .. end
      BY <2>1
    <3> QED
      BY <2>a, <2>1, <3>1 DEF Alike
  <2>4. XorBlock(a(k), p, from, rate) = XorBlock(b(k), q, from, rate)
    BY <2>2, <2>3 DEF XorBlock
  <2> QED
    BY <1>2, <2>4 DEF from
<1>5. S = Nat
  BY <1>1, <1>4, Induction
<1> QED
  BY <1>5 DEF a, b

(* The context c is what the first j bytes of m lead to: n whole blocks    *)
(* have gone through the permutation, pt bytes of the next are in.         *)
TakenIn(c, m, j, n) ==
    /\ c.pt \in 0 .. c.rsiz - 1
    /\ j = n * c.rsiz + c.pt
    /\ c.b = [i \in 0 .. StateLen - 1 |->
                IF i < c.pt THEN Xor(States(m, c.rsiz)[n][i], m[n * c.rsiz + i + 1])
                            ELSE States(m, c.rsiz)[n][i]]

HasTaken(c, m, j) == \E n \in Nat : TakenIn(c, m, j, n)

(* A context of the code, for a digest of some length.                     *)
IsContext(c) ==
    /\ c = [b |-> c.b, pt |-> c.pt, rsiz |-> c.rsiz, mdlen |-> c.mdlen]
    /\ c.mdlen \in DigestLens
    /\ c.rsiz = StateLen - 2 * c.mdlen

(* The sizes of a context.                                                 *)
LEMMA ContextSizes ==
    ASSUME NEW c, IsContext(c)
    PROVE  /\ StateLen \in Nat /\ c.mdlen \in Nat \ {0} /\ c.rsiz \in Nat \ {0}
           /\ c.rsiz < StateLen /\ c.mdlen <= c.rsiz
  BY SizesFit DEF IsContext

(* The body of the loop of sha3_update.                                    *)
LEMMA AbsorbByteTakes ==
    ASSUME NEW c, IsContext(c), NEW m, Len(m) \in Nat,
           NEW j \in Nat, j < Len(m), HasTaken(c, m, j)
    PROVE  /\ IsContext(AbsorbByte(c, m[j + 1]))
           /\ AbsorbByte(c, m[j + 1]).mdlen = c.mdlen
           /\ HasTaken(AbsorbByte(c, m[j + 1]), m, j + 1)
<1> DEFINE d == AbsorbByte(c, m[j + 1])
           r == c.rsiz
           b1 == [c.b EXCEPT ![c.pt] = Xor(@, m[j + 1])]
<1>1. PICK n \in Nat : TakenIn(c, m, j, n)
  BY DEF HasTaken
<1> DEFINE s == States(m, r)[n]
           from == n * r
<1>2. /\ r \in Nat \ {0} /\ r < StateLen /\ c.pt \in 0 .. r - 1 /\ j = from + c.pt
      /\ StateLen \in Nat /\ from \in Nat
  BY <1>1, ContextSizes DEF TakenIn
<1>3. /\ c.b = [i \in 0 .. StateLen - 1 |->
                  IF i < c.pt THEN Xor(s[i], m[from + i + 1]) ELSE s[i]]
      /\ IsState(s)
  BY <1>1, StatesAre DEF TakenIn
<1> HIDE DEF s, from, r
<1>4. b1 = [i \in 0 .. StateLen - 1 |->
              IF i < c.pt + 1 THEN Xor(s[i], m[from + i + 1]) ELSE s[i]]
  <2>1. c.pt \in 0 .. StateLen - 1 /\ c.b[c.pt] = s[c.pt] /\ m[j + 1] = m[from + c.pt + 1]
    BY <1>2, <1>3
  <2>2. b1 = [i \in 0 .. StateLen - 1 |-> IF i = c.pt THEN Xor(s[i], m[from + i + 1]) ELSE c.b[i]]
    BY <1>3, <2>1
  <2>3. \A i \in 0 .. StateLen - 1 : i # c.pt => (i < c.pt <=> i < c.pt + 1)
    BY <1>2
  <2> HIDE DEF b1
  <2> QED
    BY <1>2, <1>3, <2>2, <2>3
<1>5. CASE c.pt + 1 < r
  <2>1. d = [c EXCEPT !.b = b1, !.pt = c.pt + 1]
    BY <1>2, <1>5 DEF AbsorbByte, r
  <2> HIDE DEF d, b1
  <2>2. d = [b |-> b1, pt |-> c.pt + 1, rsiz |-> r, mdlen |-> c.mdlen]
    BY <2>1 DEF IsContext, r
  <2>3. /\ d.b = b1 /\ d.pt = c.pt + 1 /\ d.rsiz = r /\ d.mdlen = c.mdlen
        /\ d = [b |-> d.b, pt |-> d.pt, rsiz |-> d.rsiz, mdlen |-> d.mdlen]
    BY <2>2
  <2>4. d.pt \in 0 .. d.rsiz - 1 /\ j + 1 = n * d.rsiz + d.pt
    BY <1>2, <1>5, <2>3, SMTT(30) DEF from
  <2>5. TakenIn(d, m, j + 1, n)
    BY <1>4, <2>3, <2>4 DEF TakenIn, s, from
  <2> QED
    BY <2>3, <2>5 DEF d, HasTaken, IsContext, r
<1>6. CASE c.pt + 1 = r
  <2>1. d = [c EXCEPT !.b = Keccak(b1), !.pt = 0]
    BY <1>2, <1>6 DEF AbsorbByte, r
  <2> HIDE DEF d, b1
  <2>2. d = [b |-> Keccak(b1), pt |-> 0, rsiz |-> r, mdlen |-> c.mdlen]
    BY <2>1 DEF IsContext, r
  <2>3. /\ d.b = Keccak(b1) /\ d.pt = 0 /\ d.rsiz = r /\ d.mdlen = c.mdlen
        /\ d = [b |-> d.b, pt |-> d.pt, rsiz |-> d.rsiz, mdlen |-> d.mdlen]
    BY <2>2
  <2>4. b1 = XorBlock(s, m, from, r)
    <3>1. DOMAIN s = 0 .. StateLen - 1
      BY <1>3 DEF IsState
    <3>2. \A i \in 0 .. StateLen - 1 : i < r => from + i < Len(m)
      BY <1>2, <1>6
    <3> QED
      BY <1>4, <1>6, <3>1, <3>2 DEF XorBlock
  <2>5. States(m, r)[n + 1] = Keccak(b1) /\ IsState(States(m, r)[n + 1])
    BY <2>4, StatesStep, StatesAre DEF s, from
  <2>6. j + 1 = (n + 1) * r + 0
    <3>1. (n + 1) * r = from + r
      BY <1>2, NextBlock DEF from
    <3> QED
      BY <1>2, <1>6, <3>1
  <2>7. d.b = [i \in 0 .. StateLen - 1 |->
                 IF i < 0 THEN Xor(States(m, r)[n + 1][i], m[(n + 1) * r + i + 1])
                          ELSE States(m, r)[n + 1][i]]
    BY <1>2, <2>3, <2>5 DEF IsState
  <2>8. TakenIn(d, m, j + 1, n + 1)
    BY <1>2, <2>3, <2>6, <2>7 DEF TakenIn
  <2> QED
    BY <2>3, <2>8 DEF d, HasTaken, IsContext, r
<1> QED
  BY <1>2, <1>5, <1>6

(* The contexts before, between and after the turns of the loop.           *)
Turns(at, c, data) ==
    /\ at[0] = c
    /\ \A k \in Nat : at[k + 1] = AbsorbByte(at[k], data[k + 1])
    /\ Absorb(c, data) = at[Len(data)]

(* The loop of sha3_update, turn by turn.                                  *)
LEMMA AbsorbDef ==
    ASSUME NEW c, NEW data
    PROVE  \E at : Turns(at, c, data)
<1> DEFINE St(x, k) == AbsorbByte(x, data[k])
           A(g, n) == g = [k \in 0 .. n |-> IF k = 0 THEN c ELSE St(g[k - 1], k)]
           S == {n \in Nat : \E g : A(g, n)}
           G(n) == CHOOSE g : A(g, n)
           h == [n \in Nat |-> G(n)[n]]
           at == CHOOSE g : g = [k \in Nat |-> IF k = 0 THEN c ELSE St(g[k - 1], k)]
<1>a. Absorb(c, data) = at[Len(data)]
  BY DEF Absorb
<1> HIDE DEF St
<1>1. 0 \in S
  <2>1. A([k \in 0 .. 0 |-> c], 0)
    OBVIOUS
  <2> QED
    BY <2>1
<1>2. ASSUME NEW n \in S PROVE n + 1 \in S
  <2>1. PICK g : A(g, n)
    BY <1>2
  <2>2. A([k \in 0 .. n + 1 |-> IF k = n + 1 THEN St(g[n], n + 1) ELSE g[k]], n + 1)
    BY <2>1
  <2>3. \E x : A(x, n + 1)
    BY <2>2
  <2> QED
    BY <2>3
<1>3. S = Nat
  BY <1>1, <1>2, Induction
<1>4. \A n \in Nat : A(G(n), n)
  BY <1>3
<1> HIDE DEF G
<1>5. ASSUME NEW n \in Nat PROVE G(n + 1)[n] = G(n)[n]
  <2> DEFINE U == {k \in Nat : k <= n => G(n + 1)[k] = G(n)[k]}
  <2>1. 0 \in U
    BY <1>4
  <2>2. ASSUME NEW k \in U PROVE k + 1 \in U
    BY <1>4, <2>2
  <2>3. U = Nat
    BY <2>1, <2>2, Induction
  <2> QED
    BY <2>3
<1>6. h = [k \in Nat |-> IF k = 0 THEN c ELSE St(h[k - 1], k)]
  <2> SUFFICES ASSUME NEW k \in Nat PROVE h[k] = IF k = 0 THEN c ELSE St(h[k - 1], k)
    OBVIOUS
  <2>1. CASE k = 0
    BY <1>4, <2>1
  <2>2. CASE k # 0
    <3>1. k - 1 \in Nat /\ G((k - 1) + 1)[k - 1] = G(k - 1)[k - 1] /\ (k - 1) + 1 = k
      BY <2>2, <1>5
    <3>2. G(k)[k] = St(G(k)[k - 1], k)
      BY <1>4, <2>2
    <3> QED
      BY <3>1, <3>2, <2>2
  <2> QED
    BY <2>1, <2>2
<1>7. at = [k \in Nat |-> IF k = 0 THEN c ELSE St(at[k - 1], k)]
  BY <1>6
<1> HIDE DEF at
<1>8. at[0] = c /\ \A k \in Nat : at[k + 1] = St(at[(k + 1) - 1], k + 1)
  BY <1>7
<1>9. \A k \in Nat : (k + 1) - 1 = k
  OBVIOUS
<1> QED
  BY <1>a, <1>8, <1>9 DEF St, Turns

(* The loop as a whole: m is the message from its first byte on.           *)
LEMMA AbsorbTakes ==
    ASSUME NEW c, IsContext(c), NEW m, Len(m) \in Nat,
           NEW j \in Nat, NEW len \in Nat, j + len <= Len(m), HasTaken(c, m, j),
           NEW data, Len(data) = len, \A k \in 1 .. len : data[k] = m[j + k]
    PROVE  /\ IsContext(Absorb(c, data))
           /\ Absorb(c, data).mdlen = c.mdlen
           /\ HasTaken(Absorb(c, data), m, j + len)
<1>1. PICK at : Turns(at, c, data)
  BY AbsorbDef
<1> DEFINE Holds(k) == IsContext(at[k]) /\ at[k].mdlen = c.mdlen /\ HasTaken(at[k], m, j + k)
           S == {k \in Nat : k <= len => Holds(k)}
<1>2. Holds(0)
  BY <1>1 DEF Turns
<1>3. ASSUME NEW k \in Nat, k + 1 <= len, Holds(k) PROVE Holds(k + 1)
  <2>1. /\ j + k \in Nat /\ j + k < Len(m) /\ (j + k) + 1 = j + (k + 1)
        /\ k + 1 \in 1 .. len
    <3> HIDE DEF S, Holds
    <3> QED
      BY <1>3, SMTT(30)
  <2>2. data[k + 1] = m[(j + k) + 1]
    BY <2>1
  <2>3. at[k + 1] = AbsorbByte(at[k], m[(j + k) + 1])
    BY <1>1, <2>2 DEF Turns
  <2>4. /\ IsContext(AbsorbByte(at[k], m[(j + k) + 1]))
        /\ AbsorbByte(at[k], m[(j + k) + 1]).mdlen = at[k].mdlen
        /\ HasTaken(AbsorbByte(at[k], m[(j + k) + 1]), m, (j + k) + 1)
    BY <1>3, <2>1, AbsorbByteTakes
  <2> QED
    BY <1>3, <2>1, <2>3, <2>4
<1> HIDE DEF Holds
<1>4. S = Nat
  <2>1. 0 \in S
    BY <1>2
  <2>2. ASSUME NEW k \in S PROVE k + 1 \in S
    BY <1>3, <2>2
  <2> HIDE DEF S
  <2>3. S \in SUBSET Nat
    BY DEF S
  <2> QED
    BY <2>1, <2>2, <2>3, Induction
<1>5. Holds(len)
  BY <1>4
<1> QED
  BY <1>1, <1>5 DEF Holds, Turns

(* A message that goes on: what was taken is taken of the longer one.      *)
LEMMA TakenOfLonger ==
    ASSUME NEW c, IsContext(c), NEW m, NEW q,
           Len(m) \in Nat, Len(q) \in Nat, Len(m) <= Len(q),
           \A i \in 1 .. Len(m) : q[i] = m[i],
           NEW n \in Nat, TakenIn(c, m, Len(m), n)
    PROVE  TakenIn(c, q, Len(m), n)
<1> DEFINE r == c.rsiz
           from == n * r
<1>2. /\ r \in Nat /\ c.pt \in 0 .. r - 1 /\ Len(m) = from + c.pt /\ from \in Nat
      /\ c.b = [i \in 0 .. StateLen - 1 |->
                  IF i < c.pt THEN Xor(States(m, r)[n][i], m[from + i + 1])
                              ELSE States(m, r)[n][i]]
  BY ContextSizes DEF TakenIn
<1>3. States(m, r)[n] = States(q, r)[n]
  <2>1. from <= Len(m) /\ from <= Len(q)
    <3> HIDE DEF from, r
    <3> QED
      BY <1>2
  <2>2. \A i \in 1 .. from : m[i] = q[i]
    <3> HIDE DEF from, r
    <3> QED
      BY <1>2, <2>1
  <2>3. Alike(m, q, n * r) /\ r \in Nat /\ n \in Nat
    BY <1>2, <2>1, <2>2 DEF Alike
  <2> HIDE DEF from, r
  <2>4. \A k \in 0 .. n : States(m, r)[k] = States(q, r)[k]
    BY ONLY <2>3, StatesAlike, ZenonT(40)
  <2> QED
    BY <2>4
<1>4. ASSUME NEW i \in 0 .. StateLen - 1, i < c.pt PROVE m[from + i + 1] = q[from + i + 1]
  <2> DEFINE len == Len(m)
             e == c.pt
  <2>1. i \in Int /\ 0 <= i /\ i < e /\ from \in Nat /\ len = from + e /\ e \in Int
    BY <1>2, <1>4, ContextSizes
  <2> HIDE DEF from, r, len, e
  <2>2. from + i + 1 \in 1 .. len
    BY ONLY <2>1
  <2> QED
    BY <2>2 DEF len
<1>5. c.b = [i \in 0 .. StateLen - 1 |->
               IF i < c.pt THEN Xor(States(q, r)[n][i], q[from + i + 1])
                           ELSE States(q, r)[n][i]]
  <2> HIDE DEF from, r
  <2> QED
    BY <1>2, <1>3, <1>4
<1> QED
  BY <1>2, <1>5 DEF TakenIn

(* p is m, and the rest of the last block is the padding.                  *)
IsPadded(p, m, suffix, rate, n, end) ==
    /\ Len(p) = end
    /\ Len(p) \div rate = n + 1
    /\ \A i \in 1 .. Len(m) : p[i] = m[i]
    /\ \A i \in Len(m) + 1 .. end :
         p[i] = Xor(IF i = Len(m) + 1 THEN Byte("pad", suffix) ELSE {},
                       IF i = end THEN Byte("pad", "80") ELSE {})

(* The padded message.                                                     *)
LEMMA PaddedMessage ==
    ASSUME NEW m, Len(m) \in Nat, NEW suffix, NEW rate \in Nat \ {0},
           NEW n \in Nat, NEW t \in 0 .. rate - 1, Len(m) = n * rate + t
    PROVE  IsPadded(Padded(m, suffix, rate), m, suffix, rate, n, n * rate + rate)
<1> DEFINE p == Padded(m, suffix, rate)
           from == n * rate
           end == (n + 1) * rate
           Cell(i) == IF i <= Len(m) THEN m[i]
                      ELSE Xor(IF i = Len(m) + 1 THEN Byte("pad", suffix) ELSE {},
                                  IF i = end THEN Byte("pad", "80") ELSE {})
<1>1. Len(m) \div rate = n
  BY Blocks
<1>2. p = [i \in 1 .. end |-> Cell(i)]
  BY <1>1 DEF Padded
<1>3. end = from + rate /\ end \in Nat /\ from \in Nat
  BY NextBlock
<1>4. (end + 0) \div rate = n + 1
  <2>1. n + 1 \in Nat /\ 0 \in 0 .. rate - 1
    OBVIOUS
  <2> QED
    BY <2>1, Blocks
<1> HIDE DEF p, from, end, Cell
<1>5. p \in Seq({p[i] : i \in 1 .. end}) /\ Len(p) = end
  BY <1>2, <1>3
<1>6. \A i \in 1 .. end : p[i] = Cell(i)
  BY <1>2
<1>7. Len(p) \div rate = n + 1
  BY <1>3, <1>4, <1>5
<1>8. \A i \in 1 .. Len(m) : i \in 1 .. end /\ p[i] = m[i]
  BY <1>3, <1>6, SMTT(30) DEF Cell, from
<1>9. \A i \in Len(m) + 1 .. end : p[i]
         = Xor(IF i = Len(m) + 1 THEN Byte("pad", suffix) ELSE {},
                  IF i = end THEN Byte("pad", "80") ELSE {})
  BY <1>3, <1>6 DEF Cell, from
<1>10. IsPadded(p, m, suffix, rate, n, end)
  BY <1>5, <1>7, <1>8, <1>9 DEF IsPadded
<1> QED
  BY <1>3, <1>10 DEF p, from

(* What sha3_final and shake_xof add is what pad10*1 says, also where both *)
(* bytes of the padding are one.                                           *)
LEMMA PadBlockPads ==
    ASSUME NEW c, IsContext(c), NEW m, Len(m) \in Nat, NEW suffix,
           HasTaken(c, m, Len(m))
    PROVE  LET p == Padded(m, suffix, c.rsiz)
               n == Len(p) \div c.rsiz
           IN  /\ Len(p) \in Nat /\ n \in Nat /\ Len(p) = n * c.rsiz
               /\ PadBlock(c, suffix) = States(p, c.rsiz)[n]
<1> DEFINE r == c.rsiz
           p == Padded(m, suffix, r)
           one == Byte("pad", suffix)
           two == Byte("pad", "80")
<1>1. PICK n \in Nat : TakenIn(c, m, Len(m), n)
  BY DEF HasTaken
<1> DEFINE from == n * r
           t == c.pt
           s == States(p, r)[n]
<1>2. /\ r \in Nat \ {0} /\ t \in 0 .. r - 1 /\ Len(m) = from + t /\ from \in Nat
      /\ StateLen \in Nat /\ r < StateLen
  BY <1>1, ContextSizes DEF TakenIn
<1>3. /\ Len(p) = from + r /\ Len(p) \div r = n + 1
      /\ \A i \in 1 .. Len(m) : p[i] = m[i]
      /\ \A i \in Len(m) + 1 .. from + r : p[i]
           = Xor(IF i = Len(m) + 1 THEN one ELSE {}, IF i = from + r THEN two ELSE {})
  <2>1. IsPadded(p, m, suffix, r, n, from + r)
    BY <1>2, PaddedMessage
  <2> HIDE DEF p, r, from
  <2> QED
    BY <2>1 DEF IsPadded
<1>4. Len(p) = (n + 1) * r
  <2> HIDE DEF p, r
  <2> QED
    BY <1>2, <1>3, NextBlock
<1>5. TakenIn(c, p, Len(m), n)
  <2> HIDE DEF p, r, t, from
  <2>1. Len(p) \in Nat /\ Len(m) <= Len(p)
    BY <1>2, <1>3
  <2> QED
    BY <1>1, <1>3, <2>1, TakenOfLonger
<1>6. /\ c.b = [i \in 0 .. StateLen - 1 |-> IF i < t THEN Xor(s[i], p[from + i + 1]) ELSE s[i]]
      /\ DOMAIN s = 0 .. StateLen - 1
  <2>1. IsState(s)
    BY StatesAre
  <2>2. c.b = [i \in 0 .. StateLen - 1 |-> IF i < t THEN Xor(s[i], p[from + i + 1]) ELSE s[i]]
    BY <1>5 DEF TakenIn
  <2> HIDE DEF s, p
  <2> QED
    BY <2>1, <2>2 DEF IsState
<1> DEFINE b1 == [c.b EXCEPT ![t] = Xor(@, one)]
           b2 == [b1 EXCEPT ![r - 1] = Xor(@, two)]
<1>7. PadBlock(c, suffix) = Keccak(b2)
  BY DEF PadBlock
<1>8. States(p, r)[n + 1] = Keccak(XorBlock(s, p, from, r))
  BY StatesStep
<1> HIDE DEF s, p, r, t, from, one, two
<1>9. b2 = XorBlock(s, p, from, r)
  <2>1. b1 = [i \in 0 .. StateLen - 1 |-> IF i = t THEN Xor(c.b[i], one) ELSE c.b[i]]
    BY <1>2, <1>6
  <2> HIDE DEF b1
  <2>2. b2 = [i \in 0 .. StateLen - 1 |-> IF i = r - 1 THEN Xor(b1[i], two) ELSE b1[i]]
    BY <1>2, <2>1
  <2>3. XorBlock(s, p, from, r)
          = [i \in 0 .. StateLen - 1 |-> IF i < r THEN Xor(s[i], p[from + i + 1]) ELSE s[i]]
    BY <1>2, <1>3, <1>6 DEF XorBlock
  <2> HIDE DEF b2
  <2>4. ASSUME NEW i \in 0 .. StateLen - 1
        PROVE  b2[i] = IF i < r THEN Xor(s[i], p[from + i + 1]) ELSE s[i]
    <3>1. b2[i] = IF i = r - 1 THEN Xor(b1[i], two) ELSE b1[i]
      BY <2>2
    <3>2. b1[i] = IF i = t THEN Xor(c.b[i], one) ELSE c.b[i]
      BY <2>1
    <3>3. c.b[i] = IF i < t THEN Xor(s[i], p[from + i + 1]) ELSE s[i]
      BY <1>6
    <3>4. CASE i < t
      BY <1>2, <3>1, <3>2, <3>3, <3>4
    <3>5. CASE i >= r
      BY <1>2, <3>1, <3>2, <3>3, <3>5
    <3>6. CASE t <= i /\ i < r
      <4>1. from + i + 1 \in Len(m) + 1 .. from + r
        BY <1>2, <3>6
      <4>2. (from + i + 1 = Len(m) + 1 <=> i = t) /\ (from + i + 1 = from + r <=> i = r - 1)
        BY <1>2
      <4>3. p[from + i + 1] = Xor(IF i = t THEN one ELSE {}, IF i = r - 1 THEN two ELSE {})
        BY <1>3, <4>1, <4>2
      <4>4. c.b[i] = s[i]
        BY <1>2, <3>3, <3>6
      <4>5. /\ Xor(Xor(s[i], one), two) = Xor(s[i], Xor(one, two))
            /\ Xor(one, {}) = one /\ Xor({}, two) = two
            /\ Xor({}, {}) = {} /\ Xor(s[i], {}) = s[i]
        BY XorLaws
      <4> QED
        BY <3>1, <3>2, <3>6, <4>3, <4>4, <4>5
    <3> QED
      BY <1>2, <3>4, <3>5, <3>6
  <2> QED
    BY <2>2, <2>3, <2>4
<1>10. Len(p) \in Nat /\ n + 1 \in Nat
  BY <1>2, <1>3
<1> HIDE DEF b2
<1>11. PadBlock(c, suffix) = States(p, r)[n + 1]
  BY <1>7, <1>8, <1>9
<1> QED
  BY <1>3, <1>4, <1>10, <1>11 DEF p, r

(* An element more at the end of a finite sequence of anything.            *)
LEMMA AppendAny ==
    ASSUME NEW n \in Nat, NEW s, s = [i \in 1 .. n |-> s[i]], NEW x
    PROVE  Append(s, x) = [i \in 1 .. n + 1 |-> IF i = n + 1 THEN x ELSE s[i]]
<1> DEFINE V == {s[i] : i \in 1 .. n} \cup {x}
<1>1. s \in Seq(V) /\ x \in V /\ Len(s) = n
  OBVIOUS
<1> HIDE DEF V
<1>2. Append(s, x) \in Seq(V) /\ Len(Append(s, x)) = n + 1
  BY <1>1
<1>3. \A i \in 1 .. n + 1 : Append(s, x)[i] = IF i = n + 1 THEN x ELSE s[i]
  BY <1>1
<1>4. Append(s, x) = [i \in 1 .. n + 1 |-> Append(s, x)[i]]
  BY <1>2
<1> QED
  BY <1>3, <1>4

(* The i-th byte of the output that follows the padded message p, whose    *)
(* last block leads to the state of number full.                           *)
OutByte(p, rate, full, i) == States(p, rate)[full + (i - 1) \div rate][(i - 1) % rate]

(* The context c has given the bytes o: q blocks of output and pt bytes    *)
(* of the next.                                                            *)
GivenIn(c, o, p, full, q) ==
    /\ c.pt \in 0 .. c.rsiz
    /\ c.b = States(p, c.rsiz)[full + q]
    /\ o = [i \in 1 .. q * c.rsiz + c.pt |-> OutByte(p, c.rsiz, full, i)]

HasGiven(c, o, p, full) == \E q \in Nat : GivenIn(c, o, p, full, q)

(* A context with another pt.                                              *)
LEMMA ContextWith ==
    ASSUME NEW c, NEW x, c = [b |-> c.b, pt |-> c.pt, rsiz |-> c.rsiz, mdlen |-> c.mdlen]
    PROVE  [c EXCEPT !.pt = x] = [b |-> c.b, pt |-> x, rsiz |-> c.rsiz, mdlen |-> c.mdlen]
  OBVIOUS

(* The body of the loop of shake_out.                                      *)
LEMMA SqueezeByteGives ==
    ASSUME NEW s, IsContext(s.ctx), NEW p, NEW full \in Nat,
           Len(p) \in Nat, Len(p) = full * s.ctx.rsiz, HasGiven(s.ctx, s.out, p, full)
    PROVE  /\ IsContext(SqueezeByte(s).ctx)
           /\ SqueezeByte(s).ctx.mdlen = s.ctx.mdlen
           /\ HasGiven(SqueezeByte(s).ctx, SqueezeByte(s).out, p, full)
<1> DEFINE r == s.ctx.rsiz
           c == IF s.ctx.pt >= s.ctx.rsiz
                THEN [s.ctx EXCEPT !.b = Keccak(@), !.pt = 0] ELSE s.ctx
           d == [c EXCEPT !.pt = @ + 1]
           State(k) == States(p, r)[k]
<1>1. SqueezeByte(s) = [ctx |-> d, out |-> Append(s.out, c.b[c.pt])]
  BY DEF SqueezeByte
<1>2. r \in Nat \ {0} /\ StateLen \in Nat /\ r < StateLen
  BY ContextSizes
<1>3. PICK q0 \in Nat : GivenIn(s.ctx, s.out, p, full, q0)
  BY DEF HasGiven
<1>4. \E q \in Nat : /\ c = [b |-> State(full + q), pt |-> c.pt, rsiz |-> r, mdlen |-> s.ctx.mdlen]
                     /\ c.pt \in 0 .. r - 1
                     /\ s.out = [i \in 1 .. q * r + c.pt |-> OutByte(p, r, full, i)]
  <2>1. s.ctx = [b |-> State(full + q0), pt |-> s.ctx.pt, rsiz |-> r, mdlen |-> s.ctx.mdlen]
    BY <1>3 DEF GivenIn, IsContext
  <2>2. /\ s.ctx.pt \in 0 .. r
        /\ s.out = [i \in 1 .. q0 * r + s.ctx.pt |-> OutByte(p, r, full, i)]
    BY <1>3 DEF GivenIn
  <2>3. CASE s.ctx.pt < r
    <3>1. c = s.ctx
      BY <1>2, <2>2, <2>3
    <3>2. s.ctx.pt \in 0 .. r - 1
      BY <1>2, <2>2, <2>3
    <3> HIDE DEF c, r, State
    <3> QED
      BY <2>1, <2>2, <3>1, <3>2
  <2>4. CASE s.ctx.pt = r
    <3>1. c = [s.ctx EXCEPT !.b = Keccak(s.ctx.b), !.pt = 0]
      BY <1>2, <2>4
    <3>2. State((full + q0) + 1) = Keccak(XorBlock(State(full + q0), p, (full + q0) * r, r))
      <4>1. full + q0 \in Nat
        OBVIOUS
      <4> QED
        BY <4>1, StatesStep, ZenonT(40)
    <3>3. IsState(State(full + q0))
      BY StatesAre
    <3> DEFINE from == (full + q0) * r
    <3>4. from \in Nat /\ from >= Len(p)
      BY <1>2
    <3> HIDE DEF c, r, State, from
    <3>5. XorBlock(State(full + q0), p, from, r) = State(full + q0)
      <4>1. \A i \in 0 .. StateLen - 1 : ~ (from + i < Len(p))
        BY <1>2, <3>4
      <4>2. DOMAIN State(full + q0) = 0 .. StateLen - 1
        BY <3>3 DEF IsState
      <4> QED
        BY <3>3, <4>1, <4>2 DEF IsState, XorBlock
    <3>6. State((full + q0) + 1) = Keccak(State(full + q0)) /\ (full + q0) + 1 = full + (q0 + 1)
      BY <3>2, <3>5 DEF from
    <3>7. c = [b |-> State(full + (q0 + 1)), pt |-> 0, rsiz |-> r, mdlen |-> s.ctx.mdlen]
      <4>1. Keccak(s.ctx.b) = State(full + (q0 + 1))
        BY <2>1, <3>6
      <4>2. s.ctx = [b |-> s.ctx.b, pt |-> s.ctx.pt, rsiz |-> s.ctx.rsiz, mdlen |-> s.ctx.mdlen]
        BY DEF IsContext
      <4>3. c = [b |-> Keccak(s.ctx.b), pt |-> 0, rsiz |-> s.ctx.rsiz, mdlen |-> s.ctx.mdlen]
        BY ONLY <3>1, <4>2
      <4> QED
        BY <4>1, <4>3 DEF r
    <3>8. q0 * r + s.ctx.pt = (q0 + 1) * r + 0
      BY <1>2, <2>4, NextBlock
    <3>9. c.pt = 0 /\ 0 \in 0 .. r - 1 /\ q0 + 1 \in Nat
      BY <1>2, <3>7
    <3> QED
      BY <2>2, <3>7, <3>8, <3>9
  <2> HIDE DEF c, r, State
  <2> QED
    BY <1>2, <2>2, <2>3, <2>4
<1> HIDE DEF c
<1>5. PICK q \in Nat : /\ c = [b |-> State(full + q), pt |-> c.pt, rsiz |-> r, mdlen |-> s.ctx.mdlen]
                      /\ c.pt \in 0 .. r - 1
                      /\ s.out = [i \in 1 .. q * r + c.pt |-> OutByte(p, r, full, i)]
  BY <1>4
<1> DEFINE l == q * r + c.pt
<1>6. l \in Nat /\ l \div r = q /\ l % r = c.pt /\ l + 1 = q * r + (c.pt + 1)
  <2>1. l \div r = q /\ l % r = c.pt
    BY <1>2, <1>5, Blocks
  <2>2. q * r \in Nat /\ c.pt \in Nat
    BY <1>2, <1>5, SMTT(30)
  <2> QED
    BY <2>1, <2>2
<1>7. c.b[c.pt] = OutByte(p, r, full, l + 1)
  <2>1. (l + 1) - 1 = l
    BY <1>6
  <2>2. c.b = State(full + q)
    BY <1>5
  <2> HIDE DEF l
  <2> QED
    BY <1>6, <2>1, <2>2 DEF OutByte
<1> HIDE DEF r, State
<1>8. /\ d = [b |-> State(full + q), pt |-> c.pt + 1, rsiz |-> r, mdlen |-> s.ctx.mdlen]
      /\ c.pt + 1 \in 0 .. r
  <2>1. c.pt + 1 \in 0 .. r
    BY <1>2, <1>5
  <2>2. /\ c = [b |-> c.b, pt |-> c.pt, rsiz |-> c.rsiz, mdlen |-> c.mdlen]
        /\ c.b = State(full + q) /\ c.rsiz = r /\ c.mdlen = s.ctx.mdlen
    BY <1>5
  <2>3. d = [b |-> c.b, pt |-> c.pt + 1, rsiz |-> c.rsiz, mdlen |-> c.mdlen]
    BY <2>2, ContextWith
  <2> QED
    BY <2>1, <2>2, <2>3
<1> HIDE DEF d
<1>9. /\ d.b = State(full + q) /\ d.pt = c.pt + 1 /\ d.rsiz = r /\ d.mdlen = s.ctx.mdlen
      /\ d = [b |-> d.b, pt |-> d.pt, rsiz |-> d.rsiz, mdlen |-> d.mdlen]
  BY <1>8
<1>10. Append(s.out, c.b[c.pt]) = [i \in 1 .. l + 1 |-> OutByte(p, r, full, i)]
  <2>1. s.out = [i \in 1 .. l |-> OutByte(p, r, full, i)]
    BY <1>5
  <2> HIDE DEF l
  <2>2. s.out = [i \in 1 .. l |-> s.out[i]]
    BY <2>1
  <2>3. Append(s.out, c.b[c.pt]) = [i \in 1 .. l + 1 |-> IF i = l + 1 THEN c.b[c.pt] ELSE s.out[i]]
    BY <1>6, <2>2, AppendAny
  <2>4. \A i \in 1 .. l + 1 : i # l + 1 => i \in 1 .. l
    BY <1>6
  <2> QED
    BY <1>7, <2>1, <2>3, <2>4
<1>11. GivenIn(d, Append(s.out, c.b[c.pt]), p, full, q)
  BY <1>6, <1>8, <1>9, <1>10 DEF GivenIn, State
<1>12. IsContext(d) /\ d.mdlen = s.ctx.mdlen
  BY <1>9 DEF IsContext, r
<1> QED
  BY <1>1, <1>11, <1>12 DEF HasGiven

(* The states before, between and after the turns of the loop.             *)
OutTurns(at, s, len) ==
    /\ at[0] = s
    /\ \A k \in Nat : at[k + 1] = SqueezeByte(at[k])
    /\ Squeeze(s, len) = at[len]

(* The loop of shake_out, turn by turn.                                    *)
LEMMA SqueezeDef ==
    ASSUME NEW s, NEW len
    PROVE  \E at : OutTurns(at, s, len)
<1> DEFINE St(x) == SqueezeByte(x)
           A(g, n) == g = [k \in 0 .. n |-> IF k = 0 THEN s ELSE St(g[k - 1])]
           S == {n \in Nat : \E g : A(g, n)}
           G(n) == CHOOSE g : A(g, n)
           h == [n \in Nat |-> G(n)[n]]
           at == CHOOSE g : g = [k \in Nat |-> IF k = 0 THEN s ELSE St(g[k - 1])]
<1>a. Squeeze(s, len) = at[len]
  BY DEF Squeeze
<1> HIDE DEF St
<1>1. 0 \in S
  <2>1. A([k \in 0 .. 0 |-> s], 0)
    OBVIOUS
  <2> QED
    BY <2>1
<1>2. ASSUME NEW n \in S PROVE n + 1 \in S
  <2>1. PICK g : A(g, n)
    BY <1>2
  <2>2. A([k \in 0 .. n + 1 |-> IF k = n + 1 THEN St(g[n]) ELSE g[k]], n + 1)
    BY <2>1
  <2>3. \E x : A(x, n + 1)
    BY <2>2
  <2> QED
    BY <2>3
<1>3. S = Nat
  BY <1>1, <1>2, Induction
<1>4. \A n \in Nat : A(G(n), n)
  BY <1>3
<1> HIDE DEF G
<1>5. ASSUME NEW n \in Nat PROVE G(n + 1)[n] = G(n)[n]
  <2> DEFINE U == {k \in Nat : k <= n => G(n + 1)[k] = G(n)[k]}
  <2>1. 0 \in U
    BY <1>4
  <2>2. ASSUME NEW k \in U PROVE k + 1 \in U
    BY <1>4, <2>2
  <2>3. U = Nat
    BY <2>1, <2>2, Induction
  <2> QED
    BY <2>3
<1>6. h = [k \in Nat |-> IF k = 0 THEN s ELSE St(h[k - 1])]
  <2> SUFFICES ASSUME NEW k \in Nat PROVE h[k] = IF k = 0 THEN s ELSE St(h[k - 1])
    OBVIOUS
  <2>1. CASE k = 0
    BY <1>4, <2>1
  <2>2. CASE k # 0
    <3>1. k - 1 \in Nat /\ G((k - 1) + 1)[k - 1] = G(k - 1)[k - 1] /\ (k - 1) + 1 = k
      BY <2>2, <1>5
    <3>2. G(k)[k] = St(G(k)[k - 1])
      BY <1>4, <2>2
    <3> QED
      BY <3>1, <3>2, <2>2
  <2> QED
    BY <2>1, <2>2
<1>7. at = [k \in Nat |-> IF k = 0 THEN s ELSE St(at[k - 1])]
  BY <1>6
<1> HIDE DEF at
<1>8. at[0] = s /\ \A k \in Nat : at[k + 1] = St(at[(k + 1) - 1])
  BY <1>7
<1>9. \A k \in Nat : (k + 1) - 1 = k
  OBVIOUS
<1> QED
  BY <1>a, <1>8, <1>9 DEF St, OutTurns

(* The loop as a whole.                                                    *)
LEMMA SqueezeGives ==
    ASSUME NEW s, IsContext(s.ctx), NEW p, NEW full \in Nat, NEW len \in Nat,
           Len(p) \in Nat, Len(p) = full * s.ctx.rsiz, HasGiven(s.ctx, s.out, p, full)
    PROVE  /\ IsContext(Squeeze(s, len).ctx)
           /\ Squeeze(s, len).ctx.mdlen = s.ctx.mdlen
           /\ HasGiven(Squeeze(s, len).ctx, Squeeze(s, len).out, p, full)
<1>1. PICK at : OutTurns(at, s, len)
  BY SqueezeDef
<1> DEFINE Holds(k) == /\ IsContext(at[k].ctx) /\ at[k].ctx.mdlen = s.ctx.mdlen
                       /\ HasGiven(at[k].ctx, at[k].out, p, full)
           S == {k \in Nat : Holds(k)}
<1>2. Holds(0)
  BY <1>1 DEF OutTurns
<1>3. ASSUME NEW k \in Nat, Holds(k) PROVE Holds(k + 1)
  <2>1. at[k + 1] = SqueezeByte(at[k])
    BY <1>1 DEF OutTurns
  <2>2. Len(p) = full * at[k].ctx.rsiz
    BY <1>3 DEF IsContext
  <2>3. /\ IsContext(SqueezeByte(at[k]).ctx)
        /\ SqueezeByte(at[k]).ctx.mdlen = at[k].ctx.mdlen
        /\ HasGiven(SqueezeByte(at[k]).ctx, SqueezeByte(at[k]).out, p, full)
    BY <1>3, <2>2, SqueezeByteGives
  <2> QED
    BY <1>3, <2>1, <2>3
<1> HIDE DEF Holds
<1>4. S = Nat
  <2>1. 0 \in S /\ \A k \in S : k + 1 \in S
    BY <1>2, <1>3
  <2>2. S \in SUBSET Nat
    OBVIOUS
  <2> HIDE DEF S
  <2> QED
    BY <2>1, <2>2, Induction
<1>5. Holds(len)
  BY <1>4
<1> QED
  BY <1>1, <1>5 DEF Holds, OutTurns

(* Two finite sequences of anything, one behind the other.                 *)
LEMMA Joined ==
    ASSUME NEW n \in Nat, NEW k \in Nat, NEW s, NEW d,
           s = [i \in 1 .. n |-> s[i]], d = [i \in 1 .. k |-> d[i]]
    PROVE  Len(s) = n /\ s \o d = [i \in 1 .. n + k |-> IF i <= n THEN s[i] ELSE d[i - n]]
<1> DEFINE V == {s[i] : i \in 1 .. n} \cup {d[i] : i \in 1 .. k}
           j == s \o d
<1>1. s \in Seq(V) /\ d \in Seq(V) /\ Len(s) = n /\ Len(d) = k
  <2>1. (\A i \in 1 .. n : s[i] \in V) /\ (\A i \in 1 .. k : d[i] \in V)
    OBVIOUS
  <2> HIDE DEF V
  <2>2. s \in Seq(V) /\ Len(s) = n
    BY <2>1
  <2>3. d \in Seq(V) /\ Len(d) = k
    BY <2>1
  <2> QED
    BY <2>2, <2>3
<1> HIDE DEF V
<1>2. j \in Seq(V) /\ Len(j) = n + k
  BY <1>1
<1>3. \A i \in 1 .. n + k : j[i] = IF i <= n THEN s[i] ELSE d[i - n]
  BY <1>1
<1> HIDE DEF j
<1>4. j = [i \in 1 .. n + k |-> j[i]]
  BY <1>2
<1> QED
  BY <1>1, <1>3, <1>4 DEF j

(* The message is the numbered bytes.                                      *)
Numbered(n) == [i \in 1 .. n |-> Byte("msg", i)]

(* The next bytes of a message behind it.                                  *)
LEMMA NumberedOn ==
    ASSUME NEW n \in Nat, NEW len \in Nat
    PROVE  /\ Len(Numbered(n)) = n
           /\ Numbered(n) \o [i \in 1 .. len |-> Byte("msg", n + i)] = Numbered(n + len)
<1> DEFINE m == Numbered(n)
           e == [i \in 1 .. len |-> Byte("msg", n + i)]
<1>1. m = [i \in 1 .. n |-> m[i]] /\ e = [i \in 1 .. len |-> e[i]]
  BY DEF Numbered
<1>2. Len(m) = n /\ m \o e = [i \in 1 .. n + len |-> IF i <= n THEN m[i] ELSE e[i - n]]
  <2> HIDE DEF m, e
  <2> QED
    BY <1>1, Joined
<1>3. ASSUME NEW i \in 1 .. n + len PROVE (IF i <= n THEN m[i] ELSE e[i - n]) = Byte("msg", i)
  <2>1. i <= n => i \in 1 .. n
    OBVIOUS
  <2>2. i > n => i - n \in 1 .. len /\ n + (i - n) = i
    OBVIOUS
  <2> QED
    BY <2>1, <2>2 DEF Numbered
<1> QED
  BY <1>2, <1>3 DEF Numbered

(* sha3_init: nothing is taken of any message.                             *)
LEMMA FreshContext ==
    ASSUME NEW mdlen \in DigestLens, NEW m
    PROVE  IsContext(Fresh(mdlen)) /\ Fresh(mdlen).mdlen = mdlen /\ HasTaken(Fresh(mdlen), m, 0)
<1> DEFINE c == Fresh(mdlen)
<1>1. /\ c = [b |-> [i \in 0 .. StateLen - 1 |-> {}], pt |-> 0, rsiz |-> StateLen - 2 * mdlen, mdlen |-> mdlen]
      /\ c.b = [i \in 0 .. StateLen - 1 |-> {}] /\ c.pt = 0
      /\ c.rsiz = StateLen - 2 * mdlen /\ c.mdlen = mdlen
  BY DEF Fresh
<1> HIDE DEF c
<1>2. IsContext(c)
  BY <1>1 DEF IsContext
<1>3. c.rsiz \in Nat \ {0}
  BY <1>2, ContextSizes
<1>4. States(m, c.rsiz)[0] = [i \in 0 .. StateLen - 1 |-> {}]
  BY StatesStep
<1>5. c.b = [i \in 0 .. StateLen - 1 |->
               IF i < c.pt THEN Xor(States(m, c.rsiz)[0][i], m[0 * c.rsiz + i + 1])
                           ELSE States(m, c.rsiz)[0][i]]
  <2>1. \A i \in 0 .. StateLen - 1 : ~ (i < c.pt)
    BY <1>1
  <2> QED
    BY <1>1, <1>4, <2>1
<1>6. c.pt \in 0 .. c.rsiz - 1 /\ 0 = 0 * c.rsiz + c.pt
  BY <1>1, <1>3
<1>7. TakenIn(c, m, 0, 0)
  BY <1>5, <1>6 DEF TakenIn
<1>8. HasTaken(c, m, 0)
  BY <1>7 DEF HasTaken
<1> QED
  BY <1>1, <1>2, <1>8 DEF c

(* The digest: the first len bytes of the padded state.                    *)
LEMMA DigestOf ==
    ASSUME NEW c, IsContext(c), NEW m, Len(m) \in Nat, HasTaken(c, m, Len(m)),
           NEW len \in 0 .. c.mdlen, NEW suffix
    PROVE  /\ Sponge(m, suffix, c.rsiz, len) = [i \in 1 .. len |-> PadBlock(c, suffix)[i - 1]]
           /\ Len(Sponge(m, suffix, c.rsiz, len)) = len
<1> DEFINE r == c.rsiz
           p == Padded(m, suffix, r)
           full == Len(p) \div r
<1>1. full \in Nat /\ PadBlock(c, suffix) = States(p, r)[full]
  BY PadBlockPads
<1>2. Sponge(m, suffix, r, len)
        = [i \in 1 .. len |-> States(p, r)[full + (i - 1) \div r][(i - 1) % r]]
  BY DEF Sponge
<1>3. r \in Nat \ {0} /\ len \in Nat /\ len <= r
  BY ContextSizes
<1> HIDE DEF p, r, full
<1>4. ASSUME NEW i \in 1 .. len PROVE full + (i - 1) \div r = full /\ (i - 1) % r = i - 1
  <2>1. i - 1 \in 0 .. r - 1
    BY <1>3
  <2>2. (0 * r + (i - 1)) \div r = 0 /\ (0 * r + (i - 1)) % r = i - 1
    BY <1>3, <2>1, Blocks
  <2>3. 0 * r + (i - 1) = i - 1
    BY <1>3, <2>1
  <2> QED
    BY <1>1, <2>2, <2>3
<1>5. Sponge(m, suffix, r, len) = [i \in 1 .. len |-> PadBlock(c, suffix)[i - 1]]
  BY <1>1, <1>2, <1>4
<1>6. Len(Sponge(m, suffix, r, len)) = len
  BY <1>3, <1>5
<1> QED
  BY <1>5, <1>6 DEF r

(* What shake_out has given is the beginning of the output.                *)
LEMMA GivenIsSponge ==
    ASSUME NEW c, IsContext(c), NEW m, NEW suffix, NEW o, NEW p, NEW full,
           p = Padded(m, suffix, c.rsiz), full = Len(p) \div c.rsiz, HasGiven(c, o, p, full)
    PROVE  Len(o) \in Nat /\ o = Sponge(m, suffix, c.rsiz, Len(o))
<1>1. PICK q \in Nat : GivenIn(c, o, p, full, q)
  BY DEF HasGiven
<1> DEFINE l == q * c.rsiz + c.pt
<1>2. l \in Nat
  <2>1. c.rsiz \in Nat /\ c.pt \in Nat
    BY <1>1, ContextSizes DEF GivenIn
  <2> QED
    BY <2>1
<1>3. o = [i \in 1 .. l |-> OutByte(p, c.rsiz, full, i)]
  BY <1>1 DEF GivenIn
<1> HIDE DEF l
<1>4. Len(o) = l
  BY <1>2, <1>3
<1> QED
  BY <1>2, <1>3, <1>4 DEF Sponge, OutByte

(* The inductive invariant: what the context holds in each phase.  The     *)
(* property itself says nothing of the context while a message is taken.   *)
Sha3Inv ==
    /\ IsContext(ctx)
    /\ Len(msg) \in Nat /\ msg = Numbered(Len(msg))
    /\ phase = "absorb" => HasTaken(ctx, msg, Len(msg)) /\ out = <<>>
    /\ phase = "xof" =>
         LET p == Padded(msg, "1F", ctx.rsiz)
             full == Len(p) \div ctx.rsiz
         IN  /\ Len(p) \in Nat /\ full \in Nat /\ Len(p) = full * ctx.rsiz
             /\ HasGiven(ctx, out, p, full)
    /\ phase = "done" => out = Sponge(msg, "06", ctx.rsiz, Len(out))

(* It implies the property.                                                *)
LEMMA Sha3InvImplies ==
    Sha3Inv => Sha3IsSponge
<1> SUFFICES ASSUME Sha3Inv, phase = "xof"
             PROVE  out = Sponge(msg, "1F", ctx.rsiz, Len(out))
  BY DEF Sha3Inv, Sha3IsSponge
<1> DEFINE p == Padded(msg, "1F", ctx.rsiz)
           full == Len(p) \div ctx.rsiz
<1>1. IsContext(ctx) /\ HasGiven(ctx, out, p, full)
  BY DEF Sha3Inv
<1>2. p = Padded(msg, "1F", ctx.rsiz) /\ full = Len(p) \div ctx.rsiz
  OBVIOUS
<1> HIDE DEF p, full
<1> QED
  BY <1>1, <1>2, GivenIsSponge

(* sha3_update of the next len bytes.                                      *)
LEMMA UpdateTakes ==
    ASSUME NEW c, IsContext(c), NEW n \in Nat, NEW len \in Nat, HasTaken(c, Numbered(n), n)
    PROVE  LET d == Absorb(c, [i \in 1 .. len |-> Byte("msg", n + i)])
           IN  IsContext(d) /\ d.mdlen = c.mdlen /\ HasTaken(d, Numbered(n + len), n + len)
<1> DEFINE data == [i \in 1 .. len |-> Byte("msg", n + i)]
           m == Numbered(n)
           q == Numbered(n + len)
<1>1. Len(m) = n /\ Len(q) = n + len /\ Len(data) = len
  <2>1. n + len \in Nat
    OBVIOUS
  <2> QED
    BY <2>1, NumberedOn
<1>2. \A i \in 1 .. n : q[i] = m[i]
  BY DEF Numbered
<1>3. \A k \in 1 .. len : data[k] = q[n + k]
  BY DEF Numbered
<1> HIDE DEF data, m, q
<1>4. HasTaken(c, q, n)
  <2>1. PICK x \in Nat : TakenIn(c, m, Len(m), x)
    BY <1>1 DEF HasTaken, m
  <2>2. Len(m) \in Nat /\ Len(q) \in Nat /\ Len(m) <= Len(q)
    BY <1>1
  <2>3. TakenIn(c, q, Len(m), x)
    BY <1>1, <1>2, <2>1, <2>2, TakenOfLonger
  <2> QED
    BY <1>1, <2>3 DEF HasTaken
<1>5. /\ IsContext(Absorb(c, data)) /\ Absorb(c, data).mdlen = c.mdlen
      /\ HasTaken(Absorb(c, data), q, n + len)
  <2>1. Len(q) \in Nat /\ n + len <= Len(q)
    BY <1>1
  <2> QED
    BY <1>1, <1>3, <1>4, <2>1, AbsorbTakes
<1> QED
  BY <1>5 DEF data, q

(* Every step of a context keeps the invariant.                            *)
LEMMA Sha3Step ==
    ASSUME Sha3Inv, [Next]_vars
    PROVE  Sha3Inv'
<1>1. CASE UNCHANGED vars
  BY <1>1 DEF Sha3Inv, vars, IsContext, HasTaken, TakenIn, HasGiven, GivenIn, OutByte
<1>2. ASSUME NEW n \in DigestLens, sha3_init(n) PROVE Sha3Inv'
  <2>1. ctx' = Fresh(n) /\ msg' = <<>> /\ phase' = "absorb" /\ out' = <<>>
    BY <1>2 DEF sha3_init
  <2>2. Len(<<>>) = 0 /\ <<>> = Numbered(0)
    BY DEF Numbered
  <2>3. IsContext(Fresh(n)) /\ HasTaken(Fresh(n), <<>>, 0)
    BY FreshContext
  <2> QED
    BY <2>1, <2>2, <2>3 DEF Sha3Inv
<1>3. ASSUME NEW n \in 0 .. MaxMsg - Len(msg), sha3_update(n) PROVE Sha3Inv'
  <2> DEFINE l == Len(msg)
             data == [i \in 1 .. n |-> Byte("msg", l + i)]
             d == Absorb(ctx, data)
  <2>1. /\ IsContext(ctx) /\ l \in Nat /\ msg = Numbered(l) /\ n \in Nat
        /\ HasTaken(ctx, Numbered(l), l) /\ out = <<>>
    BY <1>3 DEF Sha3Inv, sha3_update
  <2>2. ctx' = d /\ msg' = msg \o data /\ phase' = "absorb" /\ out' = <<>>
    BY <1>3, <2>1 DEF sha3_update
  <2> HIDE DEF l
  <2>3. IsContext(d) /\ HasTaken(d, Numbered(l + n), l + n)
    BY <2>1, UpdateTakes
  <2> HIDE DEF d
  <2>4. msg' = Numbered(l + n) /\ Len(Numbered(l + n)) = l + n /\ l + n \in Nat
    <3>1. l + n \in Nat
      BY <2>1
    <3>2. msg' = Numbered(l) \o data
      BY <2>1, <2>2
    <3> QED
      BY <2>1, <3>1, <3>2, NumberedOn
  <2> QED
    BY <2>2, <2>3, <2>4 DEF Sha3Inv
<1>4. ASSUME sha3_final PROVE Sha3Inv'
  <2> DEFINE dig == [i \in 1 .. ctx.mdlen |-> PadBlock(ctx, "06")[i - 1]]
  <2>1. /\ IsContext(ctx) /\ Len(msg) \in Nat /\ msg = Numbered(Len(msg))
        /\ HasTaken(ctx, msg, Len(msg))
    BY <1>4 DEF Sha3Inv, sha3_final
  <2>2. ctx' = [b |-> PadBlock(ctx, "06"), pt |-> ctx.pt, rsiz |-> ctx.rsiz, mdlen |-> ctx.mdlen]
    <3>1. ctx' = [ctx EXCEPT !.b = PadBlock(ctx, "06")]
      BY <1>4 DEF sha3_final
    <3>2. ctx = [b |-> ctx.b, pt |-> ctx.pt, rsiz |-> ctx.rsiz, mdlen |-> ctx.mdlen]
      BY <2>1 DEF IsContext
    <3> QED
      BY ONLY <3>1, <3>2
  <2>3. /\ ctx'.b = PadBlock(ctx, "06") /\ ctx'.rsiz = ctx.rsiz /\ ctx'.mdlen = ctx.mdlen
        /\ ctx' = [b |-> ctx'.b, pt |-> ctx'.pt, rsiz |-> ctx'.rsiz, mdlen |-> ctx'.mdlen]
    BY <2>2
  <2>4. out' = dig /\ msg' = msg /\ phase' = "done"
    BY <1>4, <2>3 DEF sha3_final
  <2>5. IsContext(ctx')
    BY <2>1, <2>3 DEF IsContext
  <2>6. dig = Sponge(msg, "06", ctx.rsiz, ctx.mdlen) /\ Len(dig) = ctx.mdlen
    <3>1. ctx.mdlen \in 0 .. ctx.mdlen
      BY <2>1, ContextSizes
    <3> QED
      BY <2>1, <3>1, DigestOf
  <2> HIDE DEF dig
  <2>7. out' = Sponge(msg', "06", ctx'.rsiz, Len(out'))
    BY <2>3, <2>4, <2>6
  <2> QED
    BY <2>1, <2>4, <2>5, <2>7 DEF Sha3Inv, IsContext
<1>5. ASSUME NEW n \in DigestLens, NEW len \in 0 .. MaxMsg, NEW k \in 1 .. n, sha3_trunc(n, len, k)
      PROVE  Sha3Inv'
  <2> DEFINE data == [i \in 1 .. len |-> Byte("msg", i)]
             c == Absorb(Fresh(n), data)
             dig == [i \in 1 .. k |-> PadBlock(c, "06")[i - 1]]
  <2>1. /\ len \in Nat /\ data = Numbered(0 + len) /\ data = Numbered(len) /\ 0 + len = len
        /\ data = [i \in 1 .. len |-> Byte("msg", 0 + i)]
    BY DEF Numbered
  <2>2. IsContext(Fresh(n)) /\ HasTaken(Fresh(n), Numbered(0), 0) /\ Fresh(n).mdlen = n
    BY FreshContext
  <2>3. IsContext(c) /\ c.mdlen = n /\ HasTaken(c, data, len)
    BY <2>1, <2>2, UpdateTakes
  <2>4. Len(data) = len
    BY <2>1, NumberedOn
  <2>5. /\ ctx' = [c EXCEPT !.b = PadBlock(c, "06")] /\ msg' = data /\ phase' = "done"
        /\ out' = [i \in 1 .. k |-> ctx'.b[i - 1]]
    BY <1>5 DEF sha3_trunc
  <2> HIDE DEF c, data
  <2>6. ctx' = [b |-> PadBlock(c, "06"), pt |-> c.pt, rsiz |-> c.rsiz, mdlen |-> c.mdlen]
    <3>1. ctx' = [c EXCEPT !.b = PadBlock(c, "06")]
      BY <2>5
    <3>2. c = [b |-> c.b, pt |-> c.pt, rsiz |-> c.rsiz, mdlen |-> c.mdlen]
      BY <2>3 DEF IsContext
    <3> QED
      BY ONLY <3>1, <3>2
  <2>7. /\ ctx'.b = PadBlock(c, "06") /\ ctx'.rsiz = c.rsiz /\ ctx'.mdlen = c.mdlen
        /\ ctx' = [b |-> ctx'.b, pt |-> ctx'.pt, rsiz |-> ctx'.rsiz, mdlen |-> ctx'.mdlen]
    BY <2>6
  <2>8. out' = dig
    BY <2>5, <2>7
  <2>9. dig = Sponge(data, "06", c.rsiz, k) /\ Len(dig) = k
    <3>1. k \in 0 .. c.mdlen
      BY <2>3, SizesFit
    <3>2. Len(data) \in Nat /\ HasTaken(c, data, Len(data))
      BY <2>1, <2>3, <2>4
    <3>3. Sponge(data, "06", c.rsiz, k) = dig /\ Len(Sponge(data, "06", c.rsiz, k)) = k
      BY <2>3, <3>1, <3>2, DigestOf
    <3> QED
      BY <3>3
  <2> HIDE DEF dig
  <2>10. out' = Sponge(msg', "06", ctx'.rsiz, Len(out'))
    BY <2>5, <2>7, <2>8, <2>9
  <2>11. IsContext(ctx')
    BY <2>3, <2>7 DEF IsContext
  <2> QED
    BY <2>1, <2>4, <2>5, <2>10, <2>11 DEF Sha3Inv, IsContext
<1>6. ASSUME shake_xof PROVE Sha3Inv'
  <2> DEFINE p == Padded(msg, "1F", ctx.rsiz)
             full == Len(p) \div ctx.rsiz
  <2>1. /\ IsContext(ctx) /\ Len(msg) \in Nat /\ msg = Numbered(Len(msg)) /\ out = <<>>
        /\ HasTaken(ctx, msg, Len(msg))
    BY <1>6 DEF Sha3Inv, shake_xof
  <2>2. ctx' = [b |-> PadBlock(ctx, "1F"), pt |-> 0, rsiz |-> ctx.rsiz, mdlen |-> ctx.mdlen]
    <3>1. ctx' = [ctx EXCEPT !.b = PadBlock(ctx, "1F"), !.pt = 0]
      BY <1>6 DEF shake_xof
    <3>2. ctx = [b |-> ctx.b, pt |-> ctx.pt, rsiz |-> ctx.rsiz, mdlen |-> ctx.mdlen]
      BY <2>1 DEF IsContext
    <3> QED
      BY ONLY <3>1, <3>2
  <2>3. /\ ctx'.b = PadBlock(ctx, "1F") /\ ctx'.pt = 0 /\ ctx'.rsiz = ctx.rsiz /\ ctx'.mdlen = ctx.mdlen
        /\ ctx' = [b |-> ctx'.b, pt |-> ctx'.pt, rsiz |-> ctx'.rsiz, mdlen |-> ctx'.mdlen]
    BY <2>2
  <2>4. msg' = msg /\ out' = <<>> /\ phase' = "xof"
    BY <1>6, <2>1 DEF shake_xof
  <2>5. IsContext(ctx')
    BY <2>1, <2>3 DEF IsContext
  <2>6. /\ Len(p) \in Nat /\ full \in Nat /\ Len(p) = full * ctx.rsiz
        /\ PadBlock(ctx, "1F") = States(p, ctx.rsiz)[full]
    BY <2>1, PadBlockPads
  <2> HIDE DEF p, full
  <2>7. GivenIn(ctx', <<>>, p, full, 0)
    <3>1. ctx.rsiz \in Nat /\ full + 0 = full
      BY <2>1, <2>6, ContextSizes
    <3>2. 0 * ctx'.rsiz + ctx'.pt = 0 /\ ctx'.pt \in 0 .. ctx'.rsiz
      BY <2>3, <3>1
    <3>3. <<>> = [i \in 1 .. 0 |-> OutByte(p, ctx'.rsiz, full, i)]
      OBVIOUS
    <3> QED
      BY <2>3, <2>6, <3>1, <3>2, <3>3 DEF GivenIn
  <2>8. HasGiven(ctx', out', p, full)
    BY <2>4, <2>7 DEF HasGiven
  <2> QED
    BY <2>1, <2>3, <2>4, <2>5, <2>6, <2>8 DEF Sha3Inv, p, full
<1>7. ASSUME NEW n \in 1 .. MaxOut - Len(out), shake_out(n) PROVE Sha3Inv'
  <2> DEFINE p == Padded(msg, "1F", ctx.rsiz)
             full == Len(p) \div ctx.rsiz
             s == [ctx |-> ctx, out |-> out]
             e == Squeeze(s, n)
  <2>1. /\ IsContext(ctx) /\ Len(msg) \in Nat /\ msg = Numbered(Len(msg))
        /\ Len(p) \in Nat /\ full \in Nat /\ Len(p) = full * ctx.rsiz
        /\ HasGiven(ctx, out, p, full)
    BY <1>7 DEF Sha3Inv, shake_out
  <2>2. ctx' = e.ctx /\ out' = e.out /\ msg' = msg /\ phase' = "xof"
    BY <1>7 DEF shake_out
  <2>3. n \in Nat
    <3>1. Len(out) \in Nat
      BY <2>1, GivenIsSponge
    <3> QED
      BY <3>1, SizesFit
  <2>4. s.ctx = ctx /\ s.out = out
    OBVIOUS
  <2> HIDE DEF s, p, full
  <2>5. IsContext(e.ctx) /\ e.ctx.mdlen = s.ctx.mdlen /\ HasGiven(e.ctx, e.out, p, full)
    BY <2>1, <2>3, <2>4, SqueezeGives
  <2> HIDE DEF e
  <2>6. ctx'.rsiz = ctx.rsiz
    BY <2>1, <2>2, <2>4, <2>5 DEF IsContext
  <2> QED
    BY <2>1, <2>2, <2>5, <2>6 DEF Sha3Inv, p, full
<1> QED
  BY <1>1, <1>2, <1>3, <1>4, <1>5, <1>6, <1>7 DEF Next

(* However a message of any length is cut into calls of sha3_update, and   *)
(* an output into calls of shake_out, the code of sha3.c gives what the    *)
(* sponge of FIPS 202 gives for the whole message, with the padding in one *)
(* byte or two, whatever the context was used for before.                  *)
THEOREM Sha3GivesSponge == Spec => []Sha3IsSponge
<1>1. Init => Sha3Inv
  <2> SUFFICES ASSUME Init PROVE Sha3Inv
    OBVIOUS
  <2>1. PICK n \in DigestLens : ctx = Fresh(n)
    BY DEF Init
  <2>2. msg = <<>> /\ phase = "absorb" /\ out = <<>>
    BY DEF Init
  <2>3. Len(<<>>) = 0 /\ <<>> = Numbered(0)
    BY DEF Numbered
  <2>4. IsContext(Fresh(n)) /\ HasTaken(Fresh(n), <<>>, 0)
    BY FreshContext
  <2> QED
    BY <2>1, <2>2, <2>3, <2>4 DEF Sha3Inv
<1> QED
  BY <1>1, Sha3Step, Sha3InvImplies, PTL DEF Spec

-----------------------------------------------------------------------------
(* SHA-512.                                                                *)

(* The states after the blocks of a message, by their recursion.           *)
LEMMA AfterStep ==
    ASSUME NEW p
    PROVE  /\ S5!After(p)[0] = <<"IV">>
           /\ \A k \in Nat : S5!After(p)[k + 1]
                = S5!Compress(S5!After(p)[k], S5!Bytes(p, k * Block))
<1> DEFINE iv == <<"IV">>
           St(x, k) == S5!Compress(x, S5!Bytes(p, (k - 1) * Block))
           A(g, n) == g = [k \in 0 .. n |-> IF k = 0 THEN iv ELSE St(g[k - 1], k)]
           S == {n \in Nat : \E g : A(g, n)}
           G(n) == CHOOSE g : A(g, n)
           h == [n \in Nat |-> G(n)[n]]
           at == CHOOSE g : g = [k \in Nat |-> IF k = 0 THEN iv ELSE St(g[k - 1], k)]
<1>a. S5!After(p) = at
  BY DEF S5!After
<1> HIDE DEF St, iv
<1>1. 0 \in S
  <2>1. A([k \in 0 .. 0 |-> iv], 0)
    OBVIOUS
  <2> QED
    BY <2>1
<1>2. ASSUME NEW n \in S PROVE n + 1 \in S
  <2>1. PICK g : A(g, n)
    BY <1>2
  <2>2. A([k \in 0 .. n + 1 |-> IF k = n + 1 THEN St(g[n], n + 1) ELSE g[k]], n + 1)
    BY <2>1
  <2>3. \E x : A(x, n + 1)
    BY <2>2
  <2> QED
    BY <2>3
<1>3. S = Nat
  BY <1>1, <1>2, Induction
<1>4. \A n \in Nat : A(G(n), n)
  BY <1>3
<1> HIDE DEF G
<1>5. ASSUME NEW n \in Nat PROVE G(n + 1)[n] = G(n)[n]
  <2> DEFINE U == {k \in Nat : k <= n => G(n + 1)[k] = G(n)[k]}
  <2>1. 0 \in U
    BY <1>4
  <2>2. ASSUME NEW k \in U PROVE k + 1 \in U
    BY <1>4, <2>2
  <2>3. U = Nat
    BY <2>1, <2>2, Induction
  <2> QED
    BY <2>3
<1>6. h = [k \in Nat |-> IF k = 0 THEN iv ELSE St(h[k - 1], k)]
  <2> SUFFICES ASSUME NEW k \in Nat PROVE h[k] = IF k = 0 THEN iv ELSE St(h[k - 1], k)
    OBVIOUS
  <2>1. CASE k = 0
    BY <1>4, <2>1
  <2>2. CASE k # 0
    <3>1. k - 1 \in Nat /\ G((k - 1) + 1)[k - 1] = G(k - 1)[k - 1] /\ (k - 1) + 1 = k
      BY <2>2, <1>5
    <3>2. G(k)[k] = St(G(k)[k - 1], k)
      BY <1>4, <2>2
    <3> QED
      BY <3>1, <3>2, <2>2
  <2> QED
    BY <2>1, <2>2
<1>7. at = [k \in Nat |-> IF k = 0 THEN iv ELSE St(at[k - 1], k)]
  BY <1>6
<1> HIDE DEF at
<1>8. at[0] = iv /\ \A k \in Nat : at[k + 1] = St(at[(k + 1) - 1], k + 1)
  BY <1>7
<1>9. \A k \in Nat : (k + 1) - 1 = k
  OBVIOUS
<1> QED
  BY <1>a, <1>8, <1>9 DEF St, iv

(* The turns of the loop of sha512_update.                                 *)
FillTurns(at, m, in) ==
    /\ at[0] = [md |-> m, taken |-> 0]
    /\ \A k \in Nat : at[k + 1] = S5!Turn(at[k], in)
    /\ S5!Update(m, in) = at[Len(in)].md

(* The loop of sha512_update, turn by turn.                                *)
LEMMA UpdateDef ==
    ASSUME NEW m, NEW in
    PROVE  \E at : FillTurns(at, m, in)
<1> DEFINE s == [md |-> m, taken |-> 0]
           St(x) == S5!Turn(x, in)
           A(g, n) == g = [k \in 0 .. n |-> IF k = 0 THEN s ELSE St(g[k - 1])]
           S == {n \in Nat : \E g : A(g, n)}
           G(n) == CHOOSE g : A(g, n)
           h == [n \in Nat |-> G(n)[n]]
           at == CHOOSE g : g = [k \in Nat |-> IF k = 0 THEN s ELSE St(g[k - 1])]
<1>a. S5!Update(m, in) = at[Len(in)].md
  BY DEF S5!Update
<1> HIDE DEF St, s
<1>1. 0 \in S
  <2>1. A([k \in 0 .. 0 |-> s], 0)
    OBVIOUS
  <2> QED
    BY <2>1
<1>2. ASSUME NEW n \in S PROVE n + 1 \in S
  <2>1. PICK g : A(g, n)
    BY <1>2
  <2>2. A([k \in 0 .. n + 1 |-> IF k = n + 1 THEN St(g[n]) ELSE g[k]], n + 1)
    BY <2>1
  <2>3. \E x : A(x, n + 1)
    BY <2>2
  <2> QED
    BY <2>3
<1>3. S = Nat
  BY <1>1, <1>2, Induction
<1>4. \A n \in Nat : A(G(n), n)
  BY <1>3
<1> HIDE DEF G
<1>5. ASSUME NEW n \in Nat PROVE G(n + 1)[n] = G(n)[n]
  <2> DEFINE U == {k \in Nat : k <= n => G(n + 1)[k] = G(n)[k]}
  <2>1. 0 \in U
    BY <1>4
  <2>2. ASSUME NEW k \in U PROVE k + 1 \in U
    BY <1>4, <2>2
  <2>3. U = Nat
    BY <2>1, <2>2, Induction
  <2> QED
    BY <2>3
<1>6. h = [k \in Nat |-> IF k = 0 THEN s ELSE St(h[k - 1])]
  <2> SUFFICES ASSUME NEW k \in Nat PROVE h[k] = IF k = 0 THEN s ELSE St(h[k - 1])
    OBVIOUS
  <2>1. CASE k = 0
    BY <1>4, <2>1
  <2>2. CASE k # 0
    <3>1. k - 1 \in Nat /\ G((k - 1) + 1)[k - 1] = G(k - 1)[k - 1] /\ (k - 1) + 1 = k
      BY <2>2, <1>5
    <3>2. G(k)[k] = St(G(k)[k - 1])
      BY <1>4, <2>2
    <3> QED
      BY <3>1, <3>2, <2>2
  <2> QED
    BY <2>1, <2>2
<1>7. at = [k \in Nat |-> IF k = 0 THEN s ELSE St(at[k - 1])]
  BY <1>6
<1> HIDE DEF at
<1>8. at[0] = s /\ \A k \in Nat : at[k + 1] = St(at[(k + 1) - 1])
  BY <1>7
<1>9. \A k \in Nat : (k + 1) - 1 = k
  OBVIOUS
<1> QED
  BY <1>a, <1>8, <1>9 DEF St, s, FillTurns

(* Messages that begin alike lead to the same states as long as they do.   *)
LEMMA AfterAlike ==
    ASSUME NEW p, NEW q, NEW n \in Nat, Block \in Nat, Alike(p, q, n * Block)
    PROVE  S5!After(p)[n] = S5!After(q)[n]
<1> DEFINE a(k) == S5!After(p)[k]
           b(k) == S5!After(q)[k]
           S == {k \in Nat : k <= n => a(k) = b(k)}
<1>1. a(0) = b(0)
  BY AfterStep
<1>2. \A k \in Nat : /\ a(k + 1) = S5!Compress(a(k), S5!Bytes(p, k * Block))
                     /\ b(k + 1) = S5!Compress(b(k), S5!Bytes(q, k * Block))
  BY AfterStep
<1> HIDE DEF a, b
<1>3. ASSUME NEW k \in S PROVE k + 1 \in S
  <2> SUFFICES ASSUME k + 1 <= n PROVE a(k + 1) = b(k + 1)
    OBVIOUS
  <2> DEFINE from == k * Block
             end == n * Block
  <2>1. from \in Nat /\ end \in Nat /\ from + Block <= end
    OBVIOUS
  <2>2. Alike(p, q, end)
    OBVIOUS
  <2>3. a(k) = b(k)
    BY <1>3
  <2> HIDE DEF from, end
  <2>4. \A i \in 1 .. Block : p[from + i] = q[from + i]
    <3> SUFFICES ASSUME NEW i \in 1 .. Block PROVE p[from + i] = q[from + i]
      OBVIOUS
    <3>1. from + i \in 1 .. end
      BY <2>1
    <3> QED
      BY <2>2, <3>1 DEF Alike
  <2>5. S5!Bytes(p, from) = S5!Bytes(q, from)
    BY <2>4 DEF S5!Bytes
  <2> QED
    BY <1>2, <2>3, <2>5 DEF from
<1>4. S = Nat
  BY <1>1, <1>3, Induction
<1> QED
  BY <1>4 DEF a, b

(* A context of sha512.c.                                                  *)
IsMd(m) ==
    /\ m = [length |-> m.length, state |-> m.state, curlen |-> m.curlen, buf |-> m.buf]
    /\ m.buf = [i \in 1 .. Block |-> m.buf[i]]

(* The context m is what the first j bytes of the message q lead to: n     *)
(* blocks are compressed, curlen bytes of the next are in buf.             *)
MdTakenIn(m, q, j, n) ==
    /\ m.curlen \in 0 .. Block - 1
    /\ j = n * Block + m.curlen
    /\ m.length = 8 * (n * Block)
    /\ m.state = S5!After(q)[n]
    /\ \A i \in 1 .. m.curlen : m.buf[i] = q[n * Block + i]

MdHasTaken(m, q, j) == \E n \in Nat : MdTakenIn(m, q, j, n)

(* A block of the caller's memory.                                         *)
LEMMA DirectTakes ==
    ASSUME Block \in Nat \ {0}, NEW s, IsMd(s.md), s.taken \in Nat, NEW in, Len(in) \in Nat,
           NEW q, NEW j \in Nat, \A i \in 1 .. Len(in) : in[i] = q[j + i],
           s.md.curlen = 0, Len(in) - s.taken >= Block, MdHasTaken(s.md, q, j + s.taken)
    PROVE  LET e == S5!Direct(s, in)
           IN  /\ IsMd(e.md) /\ e.taken = s.taken + Block
               /\ MdHasTaken(e.md, q, j + e.taken)
<1> DEFINE e == S5!Direct(s, in)
           st == S5!Compress(s.md.state, S5!Bytes(in, s.taken))
<1>a. /\ Block \in Nat \ {0} /\ s.taken \in Nat /\ j \in Nat /\ Len(in) \in Nat
      /\ Len(in) - s.taken >= Block
  OBVIOUS
<1>1. PICK n \in Nat : MdTakenIn(s.md, q, j + s.taken, n)
  BY DEF MdHasTaken
<1> DEFINE from == n * Block
<1>2. from \in Nat /\ j + s.taken = from /\ s.md.length = 8 * from /\ s.md.state = S5!After(q)[n]
  BY <1>1 DEF MdTakenIn
<1>b. from \in Nat /\ j + s.taken = from /\ s.md.length = 8 * from
  BY <1>2
<1>3. e = [md |-> [s.md EXCEPT !.state = st, !.length = s.md.length + 8 * Block],
           taken |-> s.taken + Block]
  BY DEF S5!Direct
<1> HIDE DEF e, st
<1>4. e.md = [s.md EXCEPT !.state = st, !.length = s.md.length + 8 * Block] /\ e.taken = s.taken + Block
  BY <1>3
<1>5. s.md = [length |-> s.md.length, state |-> s.md.state, curlen |-> s.md.curlen, buf |-> s.md.buf]
  BY DEF IsMd
<1>6. e.md = [length |-> s.md.length + 8 * Block, state |-> st, curlen |-> s.md.curlen, buf |-> s.md.buf]
  BY ONLY <1>4, <1>5
<1>7. /\ e.md.length = s.md.length + 8 * Block /\ e.md.state = st /\ e.md.curlen = 0
      /\ e.md.buf = s.md.buf
      /\ e.md = [length |-> e.md.length, state |-> e.md.state, curlen |-> e.md.curlen, buf |-> e.md.buf]
  BY <1>6
<1>8. IsMd(e.md)
  BY <1>7 DEF IsMd
<1>9. st = S5!After(q)[n + 1]
  <2>1. S5!Bytes(in, s.taken) = S5!Bytes(q, from)
    <3>1. ASSUME NEW i \in 1 .. Block PROVE in[s.taken + i] = q[from + i]
      <4> HIDE DEF from
      <4>0. i \in 1 .. Block
        OBVIOUS
      <4>1. s.taken + i \in 1 .. Len(in) /\ j + (s.taken + i) = from + i
        <5>1. s.taken + i \in 1 .. Len(in)
          BY ONLY <1>a, <4>0
        <5>2. j + s.taken = from + 0 /\ i \in Int /\ i - 0 = i
          BY ONLY <1>b, <4>0
        <5>3. j + (s.taken + (i - 0)) = from + i
          <6> DEFINE tk == s.taken
          <6>1. j \in Nat /\ tk \in Nat /\ from \in Nat /\ 0 \in Nat /\ j + tk = from + 0 /\ i \in Int
            BY <1>a, <1>b, <5>2
          <6> HIDE DEF tk
          <6>2. j + (tk + (i - 0)) = from + i
            BY ONLY <6>1, Offset
          <6> QED
            BY <6>2 DEF tk
        <5> QED
          BY <5>1, <5>2, <5>3
      <4> QED
        BY <4>1
    <3> QED
      BY <3>1 DEF S5!Bytes
  <2>2. S5!After(q)[n + 1] = S5!Compress(S5!After(q)[n], S5!Bytes(q, from))
    BY AfterStep
  <2> QED
    BY <1>2, <2>1, <2>2 DEF st
<1>10. (n + 1) * Block = from + Block
  BY NextBlock
<1> HIDE DEF from
<1>11. j + e.taken = from + Block + e.md.curlen /\ e.md.length = 8 * (from + Block)
  <2>1. e.taken = s.taken + Block /\ e.md.length = s.md.length + 8 * Block /\ e.md.curlen = 0
    BY <1>4, <1>7
  <2>2. j + e.taken = from + Block + e.md.curlen
    <3> DEFINE tk == s.taken
    <3>1. tk \in Nat /\ j \in Nat /\ from \in Nat /\ j + tk = from /\ Block \in Nat
      BY <1>a, <1>b
    <3>2. e.taken = tk + Block /\ e.md.curlen = 0
      BY <2>1
    <3> HIDE DEF tk
    <3> QED
      BY ONLY <3>1, <3>2
  <2>3. e.md.length = 8 * (from + Block)
    BY ONLY <1>a, <1>b, <2>1
  <2> QED
    BY <2>2, <2>3
<1>12. MdTakenIn(e.md, q, j + e.taken, n + 1)
  <2>1. \A i \in 1 .. e.md.curlen : e.md.buf[i] = q[(n + 1) * Block + i]
    BY <1>7
  <2>2. e.md.curlen \in 0 .. Block - 1
    BY <1>7
  <2> QED
    BY <1>7, <1>9, <1>10, <1>11, <2>1, <2>2 DEF MdTakenIn
<1> QED
  BY <1>4, <1>8, <1>12 DEF MdHasTaken, e

(* Bytes that go to buf.                                                   *)
LEMMA CollectTakes ==
    ASSUME Block \in Nat \ {0}, NEW s, IsMd(s.md), s.taken \in Nat, NEW in, Len(in) \in Nat,
           NEW q, NEW j \in Nat, \A i \in 1 .. Len(in) : in[i] = q[j + i],
           s.taken < Len(in), MdHasTaken(s.md, q, j + s.taken)
    PROVE  LET e == S5!Collect(s, in)
           IN  /\ IsMd(e.md) /\ e.taken \in Nat /\ s.taken < e.taken /\ e.taken <= Len(in)
               /\ MdHasTaken(e.md, q, j + e.taken)
<1> DEFINE e == S5!Collect(s, in)
           cur == s.md.curlen
           inlen == Len(in) - s.taken
           x == IF inlen < Block - cur THEN inlen ELSE Block - cur
           buf == [i \in 1 .. Block |-> IF i \in cur + 1 .. cur + x
                                        THEN in[s.taken + (i - cur)] ELSE s.md.buf[i]]
           full == [length |-> s.md.length + 8 * Block, state |-> S5!Compress(s.md.state, buf),
                    curlen |-> 0, buf |-> buf]
           part == [s.md EXCEPT !.curlen = cur + x, !.buf = buf]
<1>a. /\ Block \in Nat \ {0} /\ s.taken \in Nat /\ j \in Nat /\ Len(in) \in Nat
      /\ s.taken < Len(in)
  OBVIOUS
<1>1. PICK n \in Nat : MdTakenIn(s.md, q, j + s.taken, n)
  BY DEF MdHasTaken
<1> DEFINE from == n * Block
<1>2. /\ from \in Nat /\ j + s.taken = from + cur /\ cur \in 0 .. Block - 1
      /\ s.md.length = 8 * from /\ s.md.state = S5!After(q)[n]
      /\ \A i \in 1 .. cur : s.md.buf[i] = q[from + i]
  BY <1>1 DEF MdTakenIn
<1>3. e = [md |-> IF cur + x = Block THEN full ELSE part, taken |-> s.taken + x]
  BY DEF S5!Collect
<1>4. /\ x \in Nat /\ 0 < x /\ cur + x <= Block /\ s.taken + x <= Len(in)
  <2> DEFINE tk == s.taken
             len == Len(in)
  <2>1. tk \in Nat /\ len \in Nat /\ tk < len /\ cur \in 0 .. Block - 1 /\ Block \in Nat
    BY <1>a, <1>2
  <2>2. inlen = len - tk
    OBVIOUS
  <2>3. x = IF inlen < Block - cur THEN inlen ELSE Block - cur
    OBVIOUS
  <2> HIDE DEF tk, len, cur, inlen, x
  <2>4. x \in Nat /\ 0 < x /\ cur + x <= Block /\ tk + x <= len
    BY ONLY <2>1, <2>2, <2>3
  <2> QED
    BY <2>4 DEF tk, len
<1> HIDE DEF x, cur
<1>b. /\ from \in Nat /\ j + s.taken = from + cur /\ cur \in 0 .. Block - 1
      /\ s.md.length = 8 * from
  BY <1>2
<1>5. ASSUME NEW i \in 1 .. cur + x PROVE buf[i] = q[from + i]
  <2>0. i \in 1 .. Block
    BY <1>2, <1>4
  <2>1. CASE i <= cur
    <3>1. i \in 1 .. cur /\ i \notin cur + 1 .. cur + x
      BY <1>2, <1>4, <2>1
    <3> HIDE DEF from
    <3> QED
      BY <1>2, <2>0, <3>1
  <2>2. CASE i > cur
    <3> HIDE DEF from
    <3>1. /\ i \in cur + 1 .. cur + x /\ s.taken + (i - cur) \in 1 .. Len(in)
          /\ j + (s.taken + (i - cur)) = from + i
      <4>1. i \in 1 .. cur + x /\ i > cur
        BY <2>2
      <4> QED
        <5>1. i \in cur + 1 .. cur + x /\ i \in Int /\ cur \in Nat
          BY ONLY <1>b, <1>4, <4>1, <1>a
        <5>2. s.taken + (i - cur) \in 1 .. Len(in)
          BY ONLY <1>a, <1>4, <5>1
        <5>3. j + (s.taken + (i - cur)) = from + i
          <6> DEFINE tk == s.taken
          <6>1. tk \in Nat /\ j \in Nat /\ from \in Nat /\ j + tk = from + cur
            BY <1>a, <1>b
          <6> HIDE DEF tk
          <6>2. j + (tk + (i - cur)) = from + i
            BY ONLY <5>1, <6>1, Offset
          <6> QED
            BY <6>2 DEF tk
        <5> QED
          BY <5>1, <5>2, <5>3
    <3>2. in[s.taken + (i - cur)] = q[from + i]
      BY <3>1
    <3> QED
      BY <2>0, <3>1, <3>2
  <2> QED
    BY <1>2, <1>4, <2>1, <2>2
<1>6. buf = [i \in 1 .. Block |-> buf[i]]
  OBVIOUS
<1> HIDE DEF e, buf, from
<1>7. e.md = (IF cur + x = Block THEN full ELSE part) /\ e.taken = s.taken + x
  <2> HIDE DEF full, part
  <2> QED
    BY <1>3
<1>8. CASE cur + x = Block
  <2>1. e.md = full
    BY <1>7, <1>8
  <2>2. /\ e.md.length = s.md.length + 8 * Block /\ e.md.state = S5!Compress(s.md.state, buf)
        /\ e.md.curlen = 0 /\ e.md.buf = buf
        /\ e.md = [length |-> e.md.length, state |-> e.md.state, curlen |-> e.md.curlen, buf |-> e.md.buf]
    BY <2>1
  <2>3. IsMd(e.md)
    BY <1>6, <2>2 DEF IsMd
  <2>4. buf = S5!Bytes(q, from)
    <3>1. \A i \in 1 .. Block : buf[i] = q[from + i]
      BY <1>5, <1>8
    <3> QED
      BY <1>6, <3>1 DEF S5!Bytes
  <2>5. e.md.state = S5!After(q)[n + 1]
    <3>1. S5!After(q)[n + 1] = S5!Compress(S5!After(q)[n], S5!Bytes(q, from))
      BY AfterStep DEF from
    <3> QED
      BY <1>2, <2>2, <2>4, <3>1
  <2>6. (n + 1) * Block = from + Block
    BY NextBlock DEF from
  <2>7. j + e.taken = from + Block + e.md.curlen /\ e.md.length = 8 * (from + Block)
    <3>1. e.taken = s.taken + x /\ e.md.length = s.md.length + 8 * Block /\ e.md.curlen = 0
      BY <1>7, <2>2
    <3> DEFINE tk == s.taken
               ln == s.md.length
    <3>2. tk \in Nat /\ j \in Nat /\ from \in Nat /\ Block \in Nat /\ j + tk = from + cur /\ ln = 8 * from
      BY <1>a, <1>b
    <3>3. cur \in Nat /\ x \in Nat /\ cur + x = Block
      BY <1>b, <1>4, <1>8
    <3>4. e.taken = tk + x /\ e.md.length = ln + 8 * Block /\ e.md.curlen = 0
      BY <3>1
    <3> HIDE DEF tk, ln
    <3>5. j + (tk + x) = from + Block /\ ln + 8 * Block = 8 * (from + Block)
      BY ONLY <3>2, <3>3
    <3>6. from + Block + 0 = from + Block
      BY ONLY <3>2
    <3> QED
      BY ONLY <3>4, <3>5, <3>6
  <2>8. e.md.curlen \in 0 .. Block - 1 /\ \A i \in 1 .. e.md.curlen : e.md.buf[i] = q[(n + 1) * Block + i]
    BY <2>2
  <2>9. MdTakenIn(e.md, q, j + e.taken, n + 1)
    BY <2>5, <2>6, <2>7, <2>8 DEF MdTakenIn
  <2>10. e.taken \in Nat /\ s.taken < e.taken /\ e.taken <= Len(in)
    BY <1>4, <1>7
  <2> QED
    BY <2>3, <2>9, <2>10 DEF MdHasTaken, e
<1>9. CASE cur + x # Block
  <2>1. e.md = part
    BY <1>7, <1>9
  <2>2. e.md = [length |-> s.md.length, state |-> s.md.state, curlen |-> cur + x, buf |-> buf]
    <3>1. s.md = [length |-> s.md.length, state |-> s.md.state, curlen |-> s.md.curlen, buf |-> s.md.buf]
      BY DEF IsMd
    <3>2. e.md = [s.md EXCEPT !.curlen = cur + x, !.buf = buf]
      BY <2>1
    <3> QED
      BY ONLY <3>1, <3>2
  <2>3. /\ e.md.length = s.md.length /\ e.md.state = s.md.state
        /\ e.md.curlen = cur + x /\ e.md.buf = buf
        /\ e.md = [length |-> e.md.length, state |-> e.md.state, curlen |-> e.md.curlen, buf |-> e.md.buf]
    BY <2>2
  <2>4. IsMd(e.md)
    BY <1>6, <2>3 DEF IsMd
  <2>5. e.md.curlen \in 0 .. Block - 1 /\ j + e.taken = from + e.md.curlen
    <3>1. e.taken = s.taken + x /\ e.md.curlen = cur + x
      BY <1>7, <2>3
    <3> QED
      BY ONLY <1>a, <1>b, <1>4, <1>9, <3>1
  <2>6. \A i \in 1 .. e.md.curlen : e.md.buf[i] = q[from + i]
    BY <1>5, <2>3
  <2>7. MdTakenIn(e.md, q, j + e.taken, n)
    BY <1>2, <2>3, <2>5, <2>6 DEF MdTakenIn, from
  <2>8. e.taken \in Nat /\ s.taken < e.taken /\ e.taken <= Len(in)
    BY <1>4, <1>7
  <2> QED
    BY <2>4, <2>7, <2>8 DEF MdHasTaken, e
<1> QED
  BY <1>8, <1>9

(* The loop of sha512_update: it ends with all of in taken.                *)
LEMMA MdUpdateTakes ==
    ASSUME Block \in Nat \ {0}, NEW m, IsMd(m), NEW in, Len(in) \in Nat, NEW q, NEW j \in Nat,
           \A i \in 1 .. Len(in) : in[i] = q[j + i], MdHasTaken(m, q, j)
    PROVE  IsMd(S5!Update(m, in)) /\ MdHasTaken(S5!Update(m, in), q, j + Len(in))
<1>1. PICK at : FillTurns(at, m, in)
  BY UpdateDef
<1> DEFINE Holds(k) == /\ IsMd(at[k].md) /\ at[k].taken \in Nat /\ at[k].taken <= Len(in)
                       /\ k <= at[k].taken \/ at[k].taken = Len(in)
                       /\ MdHasTaken(at[k].md, q, j + at[k].taken)
           S == {k \in Nat : Holds(k)}
<1>2. Holds(0)
  <2>1. at[0].md = m /\ at[0].taken = 0
    BY <1>1 DEF FillTurns
  <2>2. j + at[0].taken = j
    BY <2>1
  <2> QED
    BY <2>1, <2>2
<1>3. ASSUME NEW k \in Nat, Holds(k) PROVE Holds(k + 1)
  <2> DEFINE s == at[k]
             e == at[k + 1]
  <2>1. e = S5!Turn(s, in)
    BY <1>1 DEF FillTurns
  <2>2. CASE s.taken = Len(in)
    <3>1. e = s
      BY <2>1, <2>2 DEF S5!Turn
    <3> QED
      BY <1>3, <2>2, <3>1
  <2>3. CASE s.taken # Len(in)
    <3>1. e = S5!Fill(s, in)
      BY <2>1, <2>3 DEF S5!Turn
    <3>2. /\ IsMd(s.md) /\ s.taken \in Nat /\ s.taken < Len(in) /\ k <= s.taken
          /\ MdHasTaken(s.md, q, j + s.taken)
      BY <1>3, <2>3
    <3> HIDE DEF s
    <3>3. /\ IsMd(e.md) /\ e.taken \in Nat /\ s.taken < e.taken /\ e.taken <= Len(in)
          /\ MdHasTaken(e.md, q, j + e.taken)
      <4>1. CASE s.md.curlen = 0 /\ Len(in) - s.taken >= Block
        <5>1. e = S5!Direct(s, in)
          BY <3>1, <4>1 DEF S5!Fill
        <5> HIDE DEF e
        <5>2. IsMd(e.md) /\ e.taken = s.taken + Block /\ MdHasTaken(e.md, q, j + e.taken)
          BY <3>2, <4>1, <5>1, DirectTakes
        <5>3. e.taken \in Nat /\ s.taken < e.taken /\ e.taken <= Len(in)
          BY <3>2, <4>1, <5>2
        <5> QED
          BY <5>2, <5>3
      <4>2. CASE ~ (s.md.curlen = 0 /\ Len(in) - s.taken >= Block)
        <5>1. e = S5!Collect(s, in)
          BY <3>1, <4>2 DEF S5!Fill
        <5> HIDE DEF e
        <5> QED
          BY <3>2, <5>1, CollectTakes
      <4> QED
        BY <4>1, <4>2
    <3> HIDE DEF e
    <3>4. k + 1 <= e.taken
      BY <3>2, <3>3
    <3> QED
      BY <3>3, <3>4 DEF e
  <2> QED
    BY <2>2, <2>3
<1> HIDE DEF Holds
<1>4. S = Nat
  <2>1. 0 \in S /\ \A k \in S : k + 1 \in S
    BY <1>2, <1>3
  <2>2. S \in SUBSET Nat
    OBVIOUS
  <2> HIDE DEF S
  <2> QED
    BY <2>1, <2>2, Induction
<1>5. Holds(Len(in))
  BY <1>4
<1>6. at[Len(in)].taken = Len(in) /\ IsMd(at[Len(in)].md) /\ MdHasTaken(at[Len(in)].md, q, j + at[Len(in)].taken)
  BY <1>5 DEF Holds
<1> QED
  BY <1>1, <1>6 DEF FillTurns

(* What was taken is taken of a message that goes on.                      *)
LEMMA MdTakenOfLonger ==
    ASSUME Block \in Nat \ {0}, NEW m, NEW p, NEW q, Len(p) \in Nat, Len(q) \in Nat,
           Len(p) <= Len(q), \A i \in 1 .. Len(p) : q[i] = p[i],
           NEW n \in Nat, MdTakenIn(m, p, Len(p), n)
    PROVE  MdTakenIn(m, q, Len(p), n)
<1> DEFINE from == n * Block
<1>1. /\ m.curlen \in 0 .. Block - 1 /\ Len(p) = from + m.curlen /\ from \in Nat
      /\ m.state = S5!After(p)[n] /\ \A i \in 1 .. m.curlen : m.buf[i] = p[from + i]
  BY DEF MdTakenIn
<1>2. S5!After(p)[n] = S5!After(q)[n]
  <2> HIDE DEF from
  <2>1. from <= Len(p) /\ from <= Len(q)
    BY <1>1
  <2>2. \A i \in 1 .. from : p[i] = q[i]
    BY <1>1, <2>1
  <2>3. Alike(p, q, n * Block) /\ n \in Nat /\ Block \in Nat
    BY <2>1, <2>2 DEF Alike, from
  <2> QED
    BY ONLY <2>3, AfterAlike
<1>3. \A i \in 1 .. m.curlen : m.buf[i] = q[from + i]
  <2> HIDE DEF from
  <2> QED
    BY <1>1
<1> QED
  BY <1>1, <1>2, <1>3 DEF MdTakenIn

(* What FIPS 180-4 puts at each place of the padded message.               *)
MdCell(q, end, i) ==
    IF i <= Len(q) THEN q[i]
    ELSE IF i = Len(q) + 1 THEN <<"80">>
    ELSE IF i > end - LenLen THEN S5!Length(8 * Len(q))[i - (end - LenLen)]
    ELSE S5!Zero

(* p is the padded q and has blocks blocks.                                *)
MdIsPadded(p, q, blocks, end) ==
    /\ Len(p) = end
    /\ Len(p) \div Block = blocks
    /\ \A i \in 1 .. end : p[i] = MdCell(q, end, i)

(* The padded message ends in the block of the message or in the next.     *)
LEMMA MdPadded ==
    ASSUME S5!SizesFit, NEW q, Len(q) \in Nat, NEW n \in Nat, NEW t \in 0 .. Block - 1,
           Len(q) = n * Block + t, NEW x,
           x = IF t + 1 > Block - 2 * LenLen THEN 2 ELSE 1
    PROVE  MdIsPadded(S5!Padded(q), q, n + x, (n + x) * Block)
<1> DEFINE p == S5!Padded(q)
           end == (n + x) * Block
           from == n * Block
<1>1. Block \in Nat \ {0} /\ LenLen \in Nat \ {0} /\ 2 * LenLen < Block /\ from \in Nat
  BY DEF S5!SizesFit
<1>2. ((Len(q) + 2 * LenLen) \div Block + 1) = n + x
  <2>1. CASE t + 1 > Block - 2 * LenLen
    <3>1. (n + 1) * Block = from + Block
      BY <1>1, NextBlock
    <3> DEFINE u == t + 2 * LenLen - Block
    <3>2. u \in 0 .. Block - 1
      BY <1>1, <2>1
    <3> HIDE DEF from
    <3>3. Len(q) + 2 * LenLen = (n + 1) * Block + u
      <4>1. Len(q) = from + t
        BY DEF from
      <4> QED
        BY ONLY <1>1, <3>1, <4>1, t \in 0 .. Block - 1
    <3>4. n + 1 \in Nat
      OBVIOUS
    <3> HIDE DEF u
    <3>5. ((n + 1) * Block + u) \div Block = n + 1
      BY ONLY <1>1, <3>2, <3>4, Blocks
    <3> QED
      BY <2>1, <3>3, <3>5
  <2>2. CASE ~ (t + 1 > Block - 2 * LenLen)
    <3> DEFINE u == t + 2 * LenLen
    <3>1. u \in 0 .. Block - 1
      BY <1>1, <2>2
    <3> HIDE DEF from
    <3>2. Len(q) + 2 * LenLen = n * Block + u
      <4>1. Len(q) = from + t
        BY DEF from
      <4>2. Len(q) + 2 * LenLen = from + u
        BY <1>1, <4>1
      <4> QED
        BY <4>2 DEF from
    <3> HIDE DEF u
    <3>3. (n * Block + u) \div Block = n
      BY ONLY <1>1, <3>1, n \in Nat, Blocks
    <3> QED
      BY <2>2, <3>2, <3>3
  <2> QED
    BY <2>1, <2>2
<1>3. p = [i \in 1 .. end |->
             CASE i <= Len(q)          -> q[i]
               [] i = Len(q) + 1       -> <<"80">>
               [] i > end - LenLen     -> S5!Length(8 * Len(q))[i - (end - LenLen)]
               [] OTHER                -> S5!Zero]
  BY <1>2 DEF S5!Padded
<1>4. end \in Nat /\ (end + 0) \div Block = n + x
  <2>1. n + x \in Nat /\ 0 \in 0 .. Block - 1
    BY <1>1
  <2>2. end \in Nat
    BY <1>1, <2>1
  <2> QED
    BY <1>1, <2>1, <2>2, Blocks
<1>5. Len(q) + 1 <= end - LenLen
  <2>1. CASE x = 2
    <3>1. end = from + 2 * Block
      BY <1>1, <2>1
    <3> HIDE DEF from, end
    <3>2. Len(q) = from + t
      BY DEF from
    <3> QED
      BY <1>1, <3>1, <3>2
  <2>2. CASE x = 1
    <3>1. end = from + Block
      BY <1>1, <2>2
    <3> HIDE DEF from, end
    <3>2. Len(q) = from + t /\ t + 1 <= Block - 2 * LenLen
      BY <1>1, <2>2 DEF from
    <3> QED
      BY <1>1, <3>1, <3>2
  <2> QED
    BY <2>1, <2>2
<1> HIDE DEF p, end
<1>6. Len(p) = end
  BY <1>3, <1>4
<1>7. ASSUME NEW i \in 1 .. end PROVE p[i] = MdCell(q, end, i)
  <2> DEFINE A == i <= Len(q)
             B == i = Len(q) + 1
             C == i > end - LenLen
             last == S5!Length(8 * Len(q))[i - (end - LenLen)]
  <2>1. p[i] = CASE A -> q[i] [] B -> <<"80">> [] C -> last [] OTHER -> S5!Zero
    BY <1>3
  <2>2. MdCell(q, end, i) = IF A THEN q[i] ELSE IF B THEN <<"80">> ELSE IF C THEN last ELSE S5!Zero
    BY DEF MdCell
  <2>3. ~ (A /\ B) /\ ~ (A /\ C) /\ ~ (B /\ C)
    BY <1>1, <1>4, <1>5
  <2> HIDE DEF A, B, C, last
  <2>4. CASE A
    BY <2>1, <2>2, <2>3, <2>4
  <2>5. CASE B
    BY <2>1, <2>2, <2>3, <2>5
  <2>6. CASE C
    BY <2>1, <2>2, <2>3, <2>6
  <2>7. CASE ~ A /\ ~ B /\ ~ C
    BY <2>1, <2>2, <2>7
  <2> QED
    BY <2>4, <2>5, <2>6, <2>7
<1>8. Len(p) \div Block = n + x
  BY <1>4, <1>6
<1>9. MdIsPadded(p, q, n + x, end)
  BY <1>6, <1>7, <1>8 DEF MdIsPadded
<1> QED
  BY <1>9 DEF p, end

(* buf cleared from curlen on.                                             *)
LEMMA MdCleared ==
    ASSUME NEW m, NEW l, NEW s, NEW cur, NEW b, NEW n, NEW c, NEW d,
           m = [length |-> l, state |-> s, curlen |-> cur, buf |-> b],
           c = [i \in 1 .. Block |-> IF i \in cur + 1 .. n THEN S5!Zero ELSE b[i]],
           d = S5!Cleared(m, n)
    PROVE  d = [length |-> l, state |-> s, curlen |-> n, buf |-> c]
<1>1. m.curlen = cur /\ m.buf = b
  OBVIOUS
<1>2. d = [m EXCEPT !.curlen = n, !.buf = c]
  BY <1>1 DEF S5!Cleared
<1>3. m = [length |-> l, state |-> s, curlen |-> cur, buf |-> b]
  OBVIOUS
<1> QED
  BY ONLY <1>2, <1>3

(* A context with another state and another buf.                           *)
LEMMA MdWith ==
    ASSUME NEW m, NEW s, NEW b, NEW d,
           m = [length |-> m.length, state |-> m.state, curlen |-> m.curlen, buf |-> m.buf],
           d = [m EXCEPT !.buf = b, !.state = s]
    PROVE  d = [length |-> m.length, state |-> s, curlen |-> m.curlen, buf |-> b]
  OBVIOUS

(* sha512_final compresses the last one or two blocks of the padded        *)
(* message.                                                                *)
LEMMA MdFinished ==
    ASSUME S5!SizesFit, NEW m, IsMd(m), NEW q, Len(q) \in Nat, MdHasTaken(m, q, Len(q))
    PROVE  IsMd(S5!Finished(m)) /\ S5!Finished(m).state = S5!Digest(q)
<1>1. PICK n \in Nat : MdTakenIn(m, q, Len(q), n)
  BY DEF MdHasTaken
<1> DEFINE from == n * Block
           t == m.curlen
           p == S5!Padded(q)
           x == IF t + 1 > Block - 2 * LenLen THEN 2 ELSE 1
           end == (n + x) * Block
           Cell(i) == MdCell(q, end, i)
<1>2. /\ Block \in Nat \ {0} /\ LenLen \in Nat \ {0} /\ 2 * LenLen < Block /\ from \in Nat
      /\ t \in 0 .. Block - 1 /\ Len(q) = from + t
  BY <1>1 DEF S5!SizesFit, MdTakenIn
<1>3. /\ m.length = 8 * from /\ m.state = S5!After(q)[n]
      /\ \A i \in 1 .. t : m.buf[i] = q[from + i]
      /\ m.buf = [i \in 1 .. Block |-> m.buf[i]]
  BY <1>1 DEF MdTakenIn, IsMd
<1>4. MdIsPadded(p, q, n + x, end)
  BY <1>2, MdPadded
<1>5. end = IF x = 2 THEN from + Block + Block ELSE from + Block
  BY <1>2
<1>6. S5!Digest(q) = S5!After(p)[n + x] /\ \A i \in 1 .. end : p[i] = Cell(i)
  BY <1>4 DEF S5!Digest, MdIsPadded
<1>7. m.state = S5!After(p)[n]
  <2> HIDE DEF p, from, end, x
  <2>1. Len(p) \in Nat /\ Len(q) <= Len(p) /\ Len(q) \in Nat /\ from <= Len(q)
    <3>1. Len(p) = end
      BY <1>4 DEF MdIsPadded
    <3>2. end \in Nat /\ from + Block <= end
      BY <1>2, <1>5
    <3> HIDE DEF t
    <3> QED
      BY <1>2, <3>1, <3>2
  <2>2. \A i \in 1 .. from : i \in 1 .. end /\ i <= Len(q)
    BY <1>2, <1>5
  <2>3. \A i \in 1 .. from : p[i] = q[i]
    BY <1>6, <2>2 DEF MdCell
  <2>4. Alike(p, q, n * Block) /\ n \in Nat /\ Block \in Nat
    BY <1>2, <2>1, <2>3 DEF Alike, from
  <2>5. S5!After(p)[n] = S5!After(q)[n]
    BY ONLY <2>4, AfterAlike
  <2> QED
    BY <1>3, <2>5
<1>8. \A k \in Nat : S5!After(p)[k + 1] = S5!Compress(S5!After(p)[k], S5!Bytes(p, k * Block))
  BY AfterStep
<1>9. (n + 1) * Block = from + Block
  BY <1>2, NextBlock
<1> DEFINE len == 8 * Len(q)
           b1 == [i \in 1 .. Block |-> IF i = t + 1 THEN <<"80">> ELSE m.buf[i]]
           ended == [m EXCEPT !.length = @ + 8 * m.curlen, !.buf[m.curlen + 1] = <<"80">>, !.curlen = @ + 1]
           spilt == S5!Spill(ended)
           cleared == S5!Cleared(spilt, Block - LenLen)
           buf == [i \in 1 .. Block |->
                     IF i > Block - LenLen THEN S5!Length(cleared.length)[i - (Block - LenLen)]
                                           ELSE cleared.buf[i]]
<1>10. S5!Finished(m) = [cleared EXCEPT !.buf = buf, !.state = S5!Compress(cleared.state, buf)]
  BY DEF S5!Finished
<1>11. ended = [length |-> len, state |-> m.state, curlen |-> t + 1, buf |-> b1]
  <2>1. m = [length |-> m.length, state |-> m.state, curlen |-> t, buf |-> m.buf]
    BY DEF IsMd
  <2>2. [m.buf EXCEPT ![t + 1] = <<"80">>] = b1
    BY <1>2, <1>3
  <2>3. m.length + 8 * t = len
    <3> HIDE DEF from
    <3> QED
      BY <1>2, <1>3
  <2>4. ended = [m EXCEPT !.length = m.length + 8 * t, !.buf = [m.buf EXCEPT ![t + 1] = <<"80">>], !.curlen = t + 1]
    OBVIOUS
  <2> HIDE DEF ended, b1, len, t
  <2>5. ended = [m EXCEPT !.length = len, !.buf = b1, !.curlen = t + 1]
    BY <2>2, <2>3, <2>4
  <2> QED
    BY ONLY <2>1, <2>5
<1> HIDE DEF ended, p, from, end
(* The cells of the block the message ends in, but for the length.         *)
<1>12. ASSUME NEW i \in 1 .. Block, from + i <= end - LenLen
       PROVE  p[from + i] = IF i <= t THEN m.buf[i] ELSE IF i = t + 1 THEN <<"80">> ELSE S5!Zero
  <2>1. from + i \in 1 .. end
    BY <1>2, <1>5, <1>12
  <2>2. p[from + i] = MdCell(q, end, from + i)
    BY <1>6, <2>1
  <2>3. (from + i <= Len(q) <=> i <= t) /\ (from + i = Len(q) + 1 <=> i = t + 1)
    BY <1>2
  <2>4. ~ (from + i > end - LenLen)
    BY <1>2, <1>5, <1>12
  <2>5. i <= t => m.buf[i] = q[from + i]
    <3>1. i <= t => i \in 1 .. t
      BY <1>2
    <3> QED
      BY <1>3, <3>1
  <2> QED
    BY <2>2, <2>3, <2>4, <2>5 DEF MdCell
(* The last block, from where the message does not reach to its end.       *)
<1>13. ASSUME NEW i \in 1 .. Block, NEW f \in Nat, f + Block = end, f + i > Len(q) + 1
       PROVE  p[f + i] = IF i > Block - LenLen THEN S5!Length(len)[i - (Block - LenLen)] ELSE S5!Zero
  <2>1. f + i \in 1 .. end
    BY <1>2, <1>13
  <2>2. p[f + i] = MdCell(q, end, f + i)
    BY <1>6, <2>1
  <2>3. ~ (f + i <= Len(q)) /\ ~ (f + i = Len(q) + 1)
    BY <1>13
  <2>4. f + i > end - LenLen <=> i > Block - LenLen
    BY <1>2, <1>13
  <2>5. (f + i) - (end - LenLen) = i - (Block - LenLen)
    BY <1>2, <1>13
  <2> QED
    BY <2>2, <2>3, <2>4, <2>5 DEF MdCell
<1>14. /\ cleared = [length |-> len, state |-> cleared.state, curlen |-> Block - LenLen, buf |-> cleared.buf]
       /\ S5!Compress(cleared.state, buf) = S5!Digest(q)
  <2>1. CASE t + 1 > Block - 2 * LenLen
    <3>1. x = 2 /\ end = from + Block + Block
      BY <1>5, <2>1
    <3> HIDE DEF x
    <3> DEFINE full == S5!Cleared(ended, Block)
               b2 == [i \in 1 .. Block |-> IF i \in (t + 1) + 1 .. Block THEN S5!Zero ELSE b1[i]]
               b3 == [i \in 1 .. Block |-> IF i \in 0 + 1 .. Block - LenLen THEN S5!Zero ELSE b2[i]]
               st == S5!Compress(m.state, b2)
    <3>2. full = [length |-> len, state |-> m.state, curlen |-> Block, buf |-> b2]
      <4> HIDE DEF b1, len, t
      <4> DEFINE u == t + 1
      <4>1. full = S5!Cleared(ended, Block)
        OBVIOUS
      <4>2. b2 = [i \in 1 .. Block |-> IF i \in u + 1 .. Block THEN S5!Zero ELSE b1[i]]
        OBVIOUS
      <4>3. ended = [length |-> len, state |-> m.state, curlen |-> u, buf |-> b1]
        BY <1>11
      <4> HIDE DEF full, b2, u
      <4> QED
        BY ONLY <4>1, <4>2, <4>3, MdCleared
    <3>3. spilt = [full EXCEPT !.state = S5!Compress(full.state, full.buf), !.curlen = 0]
      <4>1. ended.curlen > Block - 2 * LenLen
        BY <1>11, <2>1
      <4> QED
        BY <4>1 DEF S5!Spill
    <3> HIDE DEF full, b2, spilt
    <3>4. full.state = m.state /\ full.buf = b2
      BY <3>2
    <3>5. spilt = [full EXCEPT !.state = st, !.curlen = 0]
      BY <3>3, <3>4
    <3> HIDE DEF st, len
    <3>6. spilt = [length |-> len, state |-> st, curlen |-> 0, buf |-> b2]
      BY ONLY <3>2, <3>5
    <3>7. cleared = [length |-> len, state |-> st, curlen |-> Block - LenLen, buf |-> b3]
      <4> DEFINE z == Block - LenLen
      <4>1. cleared = S5!Cleared(spilt, z)
        OBVIOUS
      <4>2. b3 = [i \in 1 .. Block |-> IF i \in 0 + 1 .. z THEN S5!Zero ELSE b2[i]]
        OBVIOUS
      <4> HIDE DEF cleared, b3, z
      <4>3. cleared = [length |-> len, state |-> st, curlen |-> z, buf |-> b3]
        BY ONLY <3>6, <4>1, <4>2, MdCleared
      <4> QED
        BY <4>3 DEF z
    <3>8. cleared.length = len /\ cleared.state = st /\ cleared.buf = b3
      <4> HIDE DEF cleared, b3
      <4> QED
        BY <3>7
    <3>9. b2 = S5!Bytes(p, from)
      <4>1. ASSUME NEW i \in 1 .. Block PROVE b2[i] = p[from + i]
        <5>1. from + i <= end - LenLen
          BY <1>2, <3>1
        <5>2. p[from + i] = IF i <= t THEN m.buf[i] ELSE IF i = t + 1 THEN <<"80">> ELSE S5!Zero
          BY <1>12, <5>1
        <5>3. b2[i] = IF i \in (t + 1) + 1 .. Block THEN S5!Zero ELSE IF i = t + 1 THEN <<"80">> ELSE m.buf[i]
          BY DEF b2
        <5>4. i \in (t + 1) + 1 .. Block <=> ~ (i <= t) /\ ~ (i = t + 1)
          BY <1>2
        <5>5. i <= t => i # t + 1
          BY <1>2
        <5> QED
          BY <5>2, <5>3, <5>4, <5>5
      <4> QED
        BY <4>1 DEF S5!Bytes, b2
    <3>10. st = S5!After(p)[n + 1]
      BY <1>7, <1>8, <3>9 DEF st, from
    <3>11. buf = S5!Bytes(p, from + Block)
      <4>1. ASSUME NEW i \in 1 .. Block PROVE buf[i] = p[(from + Block) + i]
        <5> DEFINE f == from + Block
        <5>1. f \in Nat /\ f + Block = end /\ f + i > Len(q) + 1 
          BY <1>2, <3>1, <2>1
        <5> HIDE DEF f
        <5>2. p[f + i] = IF i > Block - LenLen THEN S5!Length(len)[i - (Block - LenLen)] ELSE S5!Zero
          BY <1>13, <5>1
        <5>3. buf[i] = IF i > Block - LenLen THEN S5!Length(len)[i - (Block - LenLen)] ELSE b3[i]
          <6> HIDE DEF cleared, b3
          <6> QED
            BY <3>8
        <5>4. ~ (i > Block - LenLen) => i \in 0 + 1 .. Block - LenLen /\ b3[i] = S5!Zero
          BY <1>2
        <5> QED
          BY <5>2, <5>3, <5>4 DEF f
      <4> QED
        BY <4>1 DEF S5!Bytes
    <3> HIDE DEF buf, cleared, b3
    <3>12. S5!After(p)[(n + 1) + 1] = S5!Compress(S5!After(p)[n + 1], S5!Bytes(p, (n + 1) * Block))
      <4>1. n + 1 \in Nat
        OBVIOUS
      <4> QED
        BY ONLY <1>8, <4>1
    <3>13. S5!Compress(st, buf) = S5!After(p)[(n + 1) + 1] /\ (n + 1) + 1 = n + 2
      BY <1>9, <3>10, <3>11, <3>12
    <3> QED
      BY <1>6, <3>1, <3>7, <3>8, <3>13
  <2>2. CASE ~ (t + 1 > Block - 2 * LenLen)
    <3>1. x = 1 /\ end = from + Block
      BY <1>5, <2>2
    <3> HIDE DEF x
    <3> DEFINE b2 == [i \in 1 .. Block |-> IF i \in (t + 1) + 1 .. Block - LenLen THEN S5!Zero ELSE b1[i]]
    <3>2. spilt = ended
      <4>1. ~ (ended.curlen > Block - 2 * LenLen)
        BY <1>11, <2>2
      <4> QED
        BY <4>1 DEF S5!Spill
    <3> HIDE DEF spilt
    <3>3. cleared = [length |-> len, state |-> m.state, curlen |-> Block - LenLen, buf |-> b2]
      <4> HIDE DEF b1, len, t
      <4> DEFINE z == Block - LenLen
                 u == t + 1
      <4>1. cleared = S5!Cleared(ended, z)
        BY <3>2
      <4>2. b2 = [i \in 1 .. Block |-> IF i \in u + 1 .. z THEN S5!Zero ELSE b1[i]]
        OBVIOUS
      <4>3. ended = [length |-> len, state |-> m.state, curlen |-> u, buf |-> b1]
        BY <1>11
      <4> HIDE DEF cleared, b2, z, u
      <4>4. cleared = [length |-> len, state |-> m.state, curlen |-> z, buf |-> b2]
        BY ONLY <4>1, <4>2, <4>3, MdCleared
      <4> QED
        BY <4>4 DEF z
    <3>4. cleared.length = len /\ cleared.state = m.state /\ cleared.buf = b2
      <4> HIDE DEF cleared, b2
      <4> QED
        BY <3>3
    <3>5. buf = S5!Bytes(p, from)
      <4>1. ASSUME NEW i \in 1 .. Block PROVE buf[i] = p[from + i]
        <5>1. buf[i] = IF i > Block - LenLen THEN S5!Length(len)[i - (Block - LenLen)] ELSE b2[i]
          <6> HIDE DEF cleared, b2
          <6> QED
            BY <3>4
        <5>2. CASE i > Block - LenLen
          <6>1. from + i > Len(q) + 1
            BY <1>2, <2>2, <5>2
          <6>2. p[from + i] = S5!Length(len)[i - (Block - LenLen)]
            BY <1>2, <1>13, <3>1, <5>2, <6>1
          <6> QED
            BY <5>1, <5>2, <6>2
        <5>3. CASE ~ (i > Block - LenLen)
          <6>1. from + i <= end - LenLen
            BY <1>2, <3>1, <5>3
          <6>2. p[from + i] = IF i <= t THEN m.buf[i] ELSE IF i = t + 1 THEN <<"80">> ELSE S5!Zero
            BY <1>12, <6>1
          <6>3. b2[i] = IF i \in (t + 1) + 1 .. Block - LenLen THEN S5!Zero
                        ELSE IF i = t + 1 THEN <<"80">> ELSE m.buf[i]
            OBVIOUS
          <6>4. i \in (t + 1) + 1 .. Block - LenLen <=> ~ (i <= t) /\ ~ (i = t + 1)
            BY <1>2, <5>3
          <6>5. i <= t => i # t + 1
            BY <1>2
          <6> HIDE DEF b2, buf
          <6> QED
            BY <5>1, <5>3, <6>2, <6>3, <6>4, <6>5
        <5> QED
          BY <5>2, <5>3
      <4> QED
        BY <4>1 DEF S5!Bytes
    <3> HIDE DEF buf, cleared, b2
    <3>6. S5!Compress(m.state, buf) = S5!After(p)[n + 1]
      BY <1>7, <1>8, <3>5 DEF from
    <3> QED
      BY <1>6, <3>1, <3>3, <3>4, <3>6
  <2> QED
    BY <2>1, <2>2
<1> DEFINE done == S5!Finished(m)
<1>15. buf = [i \in 1 .. Block |-> buf[i]]
  OBVIOUS
<1> HIDE DEF cleared, buf, done, len
<1>16. done = [cleared EXCEPT !.buf = buf, !.state = S5!Digest(q)]
  BY <1>10, <1>14 DEF done
<1>17. done = [length |-> cleared.length, state |-> S5!Digest(q), curlen |-> cleared.curlen, buf |-> buf]
  <2>1. cleared = [length |-> cleared.length, state |-> cleared.state, curlen |-> cleared.curlen, buf |-> cleared.buf]
    BY <1>14
  <2> QED
    BY ONLY <1>16, <2>1, MdWith
<1>18. /\ done.buf = buf /\ done.state = S5!Digest(q)
       /\ done = [length |-> done.length, state |-> done.state, curlen |-> done.curlen, buf |-> done.buf]
  BY <1>17
<1> QED
  BY <1>15, <1>18 DEF IsMd, done

(* The message is the numbered bytes.                                      *)
MdNumbered(n) == [i \in 1 .. n |-> <<"msg", i>>]

(* The next bytes of a message behind it.                                  *)
LEMMA MdNumberedOn ==
    ASSUME NEW n \in Nat, NEW len \in Nat
    PROVE  /\ Len(MdNumbered(n)) = n
           /\ MdNumbered(n) \o [i \in 1 .. len |-> <<"msg", n + i>>] = MdNumbered(n + len)
<1> DEFINE m == MdNumbered(n)
           e == [i \in 1 .. len |-> <<"msg", n + i>>]
<1>1. m = [i \in 1 .. n |-> m[i]] /\ e = [i \in 1 .. len |-> e[i]]
  BY DEF MdNumbered
<1>2. Len(m) = n /\ m \o e = [i \in 1 .. n + len |-> IF i <= n THEN m[i] ELSE e[i - n]]
  <2> HIDE DEF m, e
  <2> QED
    BY <1>1, Joined
<1>3. ASSUME NEW i \in 1 .. n + len PROVE (IF i <= n THEN m[i] ELSE e[i - n]) = <<"msg", i>>
  <2>1. i <= n => i \in 1 .. n
    OBVIOUS
  <2>2. i > n => i - n \in 1 .. len /\ n + (i - n) = i
    OBVIOUS
  <2> QED
    BY <2>1, <2>2 DEF MdNumbered
<1> QED
  BY <1>2, <1>3 DEF MdNumbered

(* sha512_init: nothing is taken of any message, whatever buf holds.       *)
LEMMA MdFresh ==
    ASSUME Block \in Nat \ {0}, NEW b, b = [i \in 1 .. Block |-> b[i]], NEW q
    PROVE  IsMd(S5!Fresh(b)) /\ MdHasTaken(S5!Fresh(b), q, 0)
<1> DEFINE m == S5!Fresh(b)
<1>1. m.length = 0 /\ m.state = <<"IV">> /\ m.curlen = 0 /\ m.buf = b
  BY DEF S5!Fresh
<1>2. m = [length |-> m.length, state |-> m.state, curlen |-> m.curlen, buf |-> m.buf]
  BY DEF S5!Fresh
<1> HIDE DEF m
<1>3. IsMd(m)
  BY <1>1, <1>2 DEF IsMd
<1>4. S5!After(q)[0] = <<"IV">>
  BY AfterStep
<1>5. 0 * Block = 0 /\ 0 = 0 * Block + m.curlen /\ m.length = 8 * (0 * Block) /\ m.curlen \in 0 .. Block - 1
  BY <1>1
<1>6. \A i \in 1 .. m.curlen : m.buf[i] = q[0 * Block + i]
  BY <1>1
<1>7. MdTakenIn(m, q, 0, 0)
  BY <1>1, <1>4, <1>5, <1>6 DEF MdTakenIn
<1>8. MdHasTaken(m, q, 0)
  BY <1>7 DEF MdHasTaken
<1> QED
  BY <1>3, <1>8 DEF m

(* sha512_update of the next len bytes.                                    *)
LEMMA MdUpdateOn ==
    ASSUME Block \in Nat \ {0}, NEW m, IsMd(m), NEW n \in Nat, NEW len \in Nat,
           MdHasTaken(m, MdNumbered(n), n)
    PROVE  LET e == S5!Update(m, [i \in 1 .. len |-> <<"msg", n + i>>])
           IN  IsMd(e) /\ MdHasTaken(e, MdNumbered(n + len), n + len)
<1> DEFINE in == [i \in 1 .. len |-> <<"msg", n + i>>]
           p == MdNumbered(n)
           q == MdNumbered(n + len)
<1>1. Len(p) = n /\ Len(q) = n + len /\ Len(in) = len
  <2>1. n + len \in Nat
    OBVIOUS
  <2> QED
    BY <2>1, MdNumberedOn
<1>2. \A i \in 1 .. n : q[i] = p[i]
  BY DEF MdNumbered
<1>3. \A k \in 1 .. len : in[k] = q[n + k]
  BY DEF MdNumbered
<1> HIDE DEF in, p, q
<1>4. MdHasTaken(m, q, n)
  <2>1. PICK x \in Nat : MdTakenIn(m, p, Len(p), x)
    BY <1>1 DEF MdHasTaken, p
  <2>2. Len(p) \in Nat /\ Len(q) \in Nat /\ Len(p) <= Len(q)
    BY <1>1
  <2>3. MdTakenIn(m, q, Len(p), x)
    BY <1>1, <1>2, <2>1, <2>2, MdTakenOfLonger
  <2> QED
    BY <1>1, <2>3 DEF MdHasTaken
<1>5. IsMd(S5!Update(m, in)) /\ MdHasTaken(S5!Update(m, in), q, n + len)
  BY <1>1, <1>3, <1>4, MdUpdateTakes
<1> QED
  BY <1>5 DEF in, q

(* The inductive invariant: the context holds what the message leads to,   *)
(* and buf is a buffer even when its content is left over.                 *)
Sha512Inv ==
    /\ IsMd(md)
    /\ Len(msg) \in Nat /\ msg = MdNumbered(Len(msg))
    /\ digest = S5!None => MdHasTaken(md, msg, Len(msg))
    /\ digest # S5!None => digest = S5!Digest(msg)

(* Every call keeps it.                                                    *)
LEMMA Sha512Step ==
    ASSUME S5!SizesFit, Sha512Inv, [S5!Next]_S5!vars
    PROVE  Sha512Inv'
<1>0. Block \in Nat \ {0} /\ MaxMsg \in Nat
  BY DEF S5!SizesFit
<1>1. CASE UNCHANGED S5!vars
  BY <1>1 DEF Sha512Inv, S5!vars, IsMd, MdHasTaken, MdTakenIn
<1>2. CASE S5!sha512_init
  <2>1. md' = S5!Fresh(md.buf) /\ msg' = <<>> /\ digest' = S5!None
    BY <1>2 DEF S5!sha512_init
  <2>2. Len(<<>>) = 0 /\ <<>> = MdNumbered(0)
    BY DEF MdNumbered
  <2>3. md.buf = [i \in 1 .. Block |-> md.buf[i]]
    BY DEF Sha512Inv, IsMd
  <2>4. IsMd(S5!Fresh(md.buf)) /\ MdHasTaken(S5!Fresh(md.buf), <<>>, 0)
    BY <1>0, <2>3, MdFresh
  <2> QED
    BY <2>1, <2>2, <2>4 DEF Sha512Inv
<1>3. ASSUME NEW n \in 0 .. MaxMsg - Len(msg), S5!sha512_update(n) PROVE Sha512Inv'
  <2> DEFINE l == Len(msg)
             in == [i \in 1 .. n |-> <<"msg", l + i>>]
             e == S5!Update(md, in)
  <2>1. /\ IsMd(md) /\ l \in Nat /\ msg = MdNumbered(l) /\ n \in Nat
        /\ MdHasTaken(md, MdNumbered(l), l)
    BY <1>0, <1>3 DEF Sha512Inv, S5!sha512_update
  <2>2. md' = e /\ msg' = msg \o in /\ digest' = S5!None
    BY <1>3 DEF S5!sha512_update
  <2> HIDE DEF l
  <2>3. IsMd(e) /\ MdHasTaken(e, MdNumbered(l + n), l + n)
    BY <1>0, <2>1, MdUpdateOn
  <2> HIDE DEF e
  <2>4. msg' = MdNumbered(l + n) /\ Len(MdNumbered(l + n)) = l + n /\ l + n \in Nat
    <3>1. l + n \in Nat
      BY <2>1
    <3>2. msg' = MdNumbered(l) \o in
      BY <2>1, <2>2
    <3> QED
      BY <2>1, <3>1, <3>2, MdNumberedOn
  <2> QED
    BY <2>2, <2>3, <2>4 DEF Sha512Inv
<1>a. \A s, b : S5!Compress(s, b) # S5!None
  BY DEF S5!Compress, S5!None
<1>b. \A m : S5!Finished(m).state # S5!None
  <2> SUFFICES ASSUME NEW m PROVE S5!Finished(m).state # S5!None
    OBVIOUS
  <2> QED
    BY <1>a DEF S5!Finished
<1>4. CASE S5!sha512_final
  <2>1. IsMd(md) /\ Len(msg) \in Nat /\ msg = MdNumbered(Len(msg)) /\ MdHasTaken(md, msg, Len(msg))
    BY <1>4 DEF Sha512Inv, S5!sha512_final
  <2>2. md' = S5!Finished(md) /\ digest' = md'.state /\ msg' = msg
    BY <1>4 DEF S5!sha512_final
  <2>3. IsMd(S5!Finished(md)) /\ S5!Finished(md).state = S5!Digest(msg)
    BY <2>1, MdFinished
  <2> QED
    BY <1>b, <2>1, <2>2, <2>3 DEF Sha512Inv
<1>5. ASSUME NEW n \in 0 .. MaxMsg, S5!sha512(n) PROVE Sha512Inv'
  <2> DEFINE in == [i \in 1 .. n |-> <<"msg", i>>]
             m == S5!Update(S5!Fresh(md.buf), in)
  <2>1. /\ n \in Nat /\ in = MdNumbered(0 + n) /\ in = MdNumbered(n) /\ 0 + n = n
        /\ in = [i \in 1 .. n |-> <<"msg", 0 + i>>]
    BY <1>0 DEF MdNumbered
  <2>2. md.buf = [i \in 1 .. Block |-> md.buf[i]]
    BY DEF Sha512Inv, IsMd
  <2>3. IsMd(S5!Fresh(md.buf)) /\ MdHasTaken(S5!Fresh(md.buf), MdNumbered(0), 0)
    BY <1>0, <2>2, MdFresh
  <2>4. IsMd(m) /\ MdHasTaken(m, in, n)
    <3> DEFINE e == S5!Update(S5!Fresh(md.buf), [i \in 1 .. n |-> <<"msg", 0 + i>>])
    <3>1. IsMd(e) /\ MdHasTaken(e, MdNumbered(0 + n), 0 + n)
      BY <1>0, <2>1, <2>3, MdUpdateOn
    <3>2. m = e
      BY <2>1
    <3> HIDE DEF e, m, in
    <3> QED
      BY <2>1, <3>1, <3>2
  <2>5. Len(in) = n
    BY <2>1, MdNumberedOn
  <2>6. md' = S5!Finished(m) /\ msg' = in /\ digest' = md'.state
    BY <1>5 DEF S5!sha512
  <2> HIDE DEF m, in
  <2>7. Len(in) \in Nat /\ MdHasTaken(m, in, Len(in))
    BY <2>1, <2>4, <2>5
  <2>8. IsMd(S5!Finished(m)) /\ S5!Finished(m).state = S5!Digest(in)
    BY <2>4, <2>7, MdFinished
  <2> QED
    BY <1>b, <2>1, <2>5, <2>6, <2>8 DEF Sha512Inv
<1> QED
  BY <1>1, <1>2, <1>3, <1>4, <1>5 DEF S5!Next

(* However a message of any length is cut into calls of sha512_update,     *)
(* which of its blocks go through buf and whatever an earlier message has  *)
(* left there, sha512_final gives the digest that FIPS 180-4 defines for   *)
(* the whole message, with the length in its last block or in one more.    *)
THEOREM Sha512GivesDigest == S5!Spec => []Sha512DigestIsFips
<1>1. S5!Init => Sha512Inv
  <2> SUFFICES ASSUME S5!Init PROVE Sha512Inv
    OBVIOUS
  <2> DEFINE b == [i \in 1 .. Block |-> S5!Zero]
  <2>1. md = S5!Fresh(b) /\ msg = <<>> /\ digest = S5!None
    BY DEF S5!Init
  <2>2. Len(<<>>) = 0 /\ <<>> = MdNumbered(0)
    BY DEF MdNumbered
  <2>3. b = [i \in 1 .. Block |-> b[i]] /\ Block \in Nat \ {0}
    BY Sha512SizesFit DEF S5!SizesFit
  <2> HIDE DEF b
  <2>4. IsMd(S5!Fresh(b)) /\ MdHasTaken(S5!Fresh(b), <<>>, 0)
    BY <2>3, MdFresh
  <2> QED
    BY <2>1, <2>2, <2>4 DEF Sha512Inv
<1>2. Sha512Inv /\ [S5!Next]_S5!vars => Sha512Inv'
  BY Sha512SizesFit, Sha512Step
<1>3. Sha512Inv => Sha512DigestIsFips
  BY DEF Sha512Inv, Sha512DigestIsFips, S5!DigestIsFips
<1> QED
  BY <1>1, <1>2, <1>3, PTL DEF S5!Spec

-----------------------------------------------------------------------------
(* AES-SIV.                                                                *)

(* n steps on X, and what they lead to from z.                             *)
StepsOn(F, n, X) == F \in [1 .. n -> [X -> X]]

Leads(g, z, F, n, X) ==
    g \in [0 .. n -> X] /\ g = [k \in 0 .. n |-> IF k = 0 THEN z ELSE F[k][g[k - 1]]]

(* There is a function that is defined by recursion up to n.               *)
LEMMA Recursion ==
    ASSUME NEW n \in Nat, NEW X, NEW z \in X, NEW F, StepsOn(F, n, X)
    PROVE  \E g : Leads(g, z, F, n, X)
<1> USE DEF StepsOn
<1> DEFINE A(g, k) == g \in [0 .. k -> X] /\ g[0] = z /\ \A i \in 1 .. k : g[i] = F[i][g[i - 1]]
           S == {k \in Nat : k <= n => \E g : A(g, k)}
<1>1. 0 \in S
  <2>1. A([k \in 0 .. 0 |-> z], 0)
    OBVIOUS
  <2> QED
    BY <2>1
<1>2. ASSUME NEW k \in S PROVE k + 1 \in S
  <2>1. ASSUME NEW m \in Nat, \E g : A(g, m), m + 1 <= n PROVE \E g : A(g, m + 1)
    <3>1. PICK g : A(g, m)
      BY <2>1
    <3>2. A([i \in 0 .. m + 1 |-> IF i = m + 1 THEN F[m + 1][g[m]] ELSE g[i]], m + 1)
      BY <2>1, <3>1
    <3> QED
      BY <3>2
  <2> HIDE DEF A
  <2> QED
    BY <2>1
<1>3. S = Nat
  BY <1>1, <1>2, Induction
<1>4. PICK g : A(g, n)
  BY <1>3
<1>5. Leads(g, z, F, n, X)
  BY <1>4 DEF Leads
<1> QED
  BY <1>5

(* A byte, a block.                                                        *)
Octets == SUBSET SV!Bits

IsBlock(v) == v \in [1 .. N -> Octets]

(* A block is not empty.                                                   *)
LEMMA BlockSize == N \in Nat \ {0}
  BY AesSivBytesFit DEF SV!BytesFit

(* Xor of bytes, and what the stand-in for the cipher gives.               *)
LEMMA Octet ==
    /\ \A x, y \in Octets : SV!Xor(x, y) \in Octets
    /\ \A x, y, z : SV!Xor(SV!Xor(x, y), z) = SV!Xor(x, SV!Xor(y, z))
    /\ \A x : SV!Xor(x, {}) = x /\ SV!Xor({}, x) = x
    /\ \A x, y : SV!Xor(SV!Xor(x, y), y) = x
  BY DEF Octets, SV!Xor

(* Operations on blocks give blocks.                                       *)
LEMMA BlockOps ==
    /\ IsBlock(SV!Zeros(N))
    /\ \A u, v : IsBlock(u) /\ IsBlock(v) => IsBlock(SV!XorBlock(u, v))
    /\ \A v : IsBlock(v) => IsBlock(SV!Encrypt(v))
<1>1. IsBlock(SV!Zeros(N))
  BY DEF IsBlock, SV!Zeros, Octets
<1>2. ASSUME NEW u, NEW v, IsBlock(u), IsBlock(v) PROVE IsBlock(SV!XorBlock(u, v))
  BY <1>2, Octet DEF IsBlock, SV!XorBlock
<1>3. ASSUME NEW v, IsBlock(v) PROVE IsBlock(SV!Encrypt(v))
  <2> SUFFICES ASSUME NEW i \in 1 .. N
               PROVE  SV!Xor({(3 * b + i) % 8 : b \in v[i]},
                             SV!Xor(Key, v[1 + (i % N)] \ v[1 + ((i + 1) % N)])) \in Octets
    BY DEF SV!Encrypt, IsBlock
  <2>1. {(3 * b + i) % 8 : b \in v[i]} \in Octets
    <3>1. v[i] \subseteq 0 .. 7
      BY <1>3 DEF IsBlock, Octets, SV!Bits
    <3> QED
      BY <3>1 DEF Octets, SV!Bits
  <2>2. Key \in Octets
    BY AesSivBytesFit DEF SV!BytesFit, Octets
  <2>3. v[1 + (i % N)] \in Octets
    <3>1. 1 + (i % N) \in 1 .. N
      BY BlockSize
    <3> QED
      BY <3>1, <1>3 DEF IsBlock
  <2>4. v[1 + (i % N)] \ v[1 + ((i + 1) % N)] \in Octets
    BY <2>3 DEF Octets
  <2> QED
    BY <2>1, <2>2, <2>4, Octet
<1> QED
  BY <1>1, <1>2, <1>3

(* The exponents of a block, place by place.                               *)
LEMMA ExponentAt ==
    ASSUME NEW v, IsBlock(v), NEW i \in 1 .. N, NEW b \in 0 .. 7
    PROVE  /\ 8 * (N - i) + b \in SV!Exponents(v) <=> b \in v[i]
           /\ 8 * (N - i) + b < 8 * N
<1> DEFINE e == 8 * (N - i) + b
<1>1. e \in 0 .. 8 * N - 1 /\ e % 8 = b /\ N - (e \div 8) = i
  BY BlockSize
<1> HIDE DEF e
<1>2. e \in SV!Exponents(v) <=> b \in v[i]
  BY <1>1 DEF SV!Exponents
<1>3. e < 8 * N
  BY <1>1, BlockSize
<1> QED
  BY <1>2, <1>3 DEF e

(* The product with x is the shift of the code.                            *)
LEMMA DoubleIs ==
    ASSUME NEW v, IsBlock(v)
    PROVE  SV!cmac_dbl(v) = SV!Double(v) /\ IsBlock(SV!cmac_dbl(v))
<1> DEFINE ex == SV!Exponents(v)
           x == {e + 1 : e \in ex}
           r == IF 8 * N \in x THEN SV!Xor(x, {8 * N, 7, 2, 1, 0}) ELSE x
           S(i) == ({b + 1 : b \in v[i]} \ {8})
                     \cup (IF i < N /\ 7 \in v[i + 1] THEN {0} ELSE {})
           D(i) == {b \in SV!Bits : 8 * (N - i) + b \in r}
<1>1. ex \subseteq Int
  BY BlockSize DEF SV!Exponents
<1>2. 8 * N \in x <=> 7 \in v[1]
  <2>1. 1 \in 1 .. N /\ 7 \in 0 .. 7 /\ 8 * N = (8 * (N - 1) + 7) + 1 /\ 8 * (N - 1) + 7 \in Int
    BY BlockSize
  <2>2. 8 * (N - 1) + 7 \in ex <=> 7 \in v[1]
    BY <2>1, ExponentAt
  <2> HIDE DEF ex
  <2>3. \A e \in ex : e + 1 = 8 * N => e = 8 * (N - 1) + 7
    BY <1>1, BlockSize
  <2> QED
    BY <2>1, <2>2, <2>3
<1>3. ASSUME NEW i \in 1 .. N, NEW b \in 0 .. 7
      PROVE  8 * (N - i) + b \in x <=> b \in S(i)
  <2>0. v[i] \subseteq 0 .. 7
    BY DEF IsBlock, Octets, SV!Bits
  <2>1. CASE b > 0
    <3>1. b - 1 \in 0 .. 7 /\ 8 * (N - i) + b = (8 * (N - i) + (b - 1)) + 1
      BY <2>1, BlockSize
    <3>2. 8 * (N - i) + (b - 1) \in ex <=> b - 1 \in v[i]
      BY <3>1, ExponentAt
    <3> HIDE DEF ex
    <3>3. \A e \in ex : e + 1 = 8 * (N - i) + b => e = 8 * (N - i) + (b - 1)
      BY <1>1, BlockSize
    <3>4. 8 * (N - i) + b \in x <=> b - 1 \in v[i]
      BY <3>1, <3>2, <3>3
    <3>5. b \in S(i) <=> b - 1 \in v[i]
      BY <2>0, <2>1
    <3> QED
      BY <3>4, <3>5
  <2>2. CASE b = 0 /\ i < N
    <3>1. i + 1 \in 1 .. N /\ 7 \in 0 .. 7 /\ 8 * (N - i) + b = (8 * (N - (i + 1)) + 7) + 1
      BY <2>2, BlockSize
    <3>2. 8 * (N - (i + 1)) + 7 \in ex <=> 7 \in v[i + 1]
      BY <3>1, ExponentAt
    <3> HIDE DEF ex
    <3>3. \A e \in ex : e + 1 = 8 * (N - i) + b => e = 8 * (N - (i + 1)) + 7
      BY <1>1, <2>2, BlockSize
    <3>4. 8 * (N - i) + b \in x <=> 7 \in v[i + 1]
      BY <3>1, <3>2, <3>3
    <3>5. b \in S(i) <=> 7 \in v[i + 1]
      BY <2>0, <2>2
    <3> QED
      BY <3>4, <3>5
  <2>3. CASE b = 0 /\ i = N
    <3>1. \A e \in ex : e >= 0
      BY BlockSize DEF SV!Exponents
    <3> HIDE DEF ex
    <3>2. 8 * (N - i) + b \notin x
      BY <1>1, <2>3, <3>1, BlockSize
    <3>3. b \notin S(i)
      BY <2>0, <2>3
    <3> QED
      BY <3>2, <3>3
  <2> QED
    BY <2>1, <2>2, <2>3, BlockSize
<1>4. ASSUME NEW i \in 1 .. N PROVE S(i) \in Octets
  <2>0. v[i] \subseteq 0 .. 7
    BY DEF IsBlock, Octets, SV!Bits
  <2> QED
    BY <2>0 DEF Octets, SV!Bits
<1>5. ASSUME NEW i \in 1 .. N, NEW b \in 0 .. 7
      PROVE  8 * (N - i) + b \in {8 * N, 7, 2, 1, 0} <=> i = N /\ b \in {0, 1, 2, 7}
  BY BlockSize
<1> HIDE DEF x, S
<1>6. ASSUME NEW i \in 1 .. N
      PROVE  D(i) = IF 7 \in v[1] /\ i = N THEN SV!Xor(S(i), {0, 1, 2, 7}) ELSE S(i)
  <2>1. \A b \in 0 .. 7 : 8 * (N - i) + b \in x <=> b \in S(i)
    BY <1>3
  <2>2. S(i) \subseteq 0 .. 7
    BY <1>4 DEF Octets, SV!Bits
  <2>3. \A b \in 0 .. 7 : 8 * (N - i) + b \in {8 * N, 7, 2, 1, 0} <=> i = N /\ b \in {0, 1, 2, 7}
    BY <1>5
  <2>4. CASE ~ (7 \in v[1])
    BY <1>2, <2>1, <2>2, <2>4 DEF SV!Bits
  <2>5. CASE 7 \in v[1]
    <3>1. r = SV!Xor(x, {8 * N, 7, 2, 1, 0})
      BY <1>2, <2>5
    <3> HIDE DEF r
    <3>2. \A b \in 0 .. 7 : 8 * (N - i) + b \in r <=>
            ~ (b \in S(i) <=> (i = N /\ b \in {0, 1, 2, 7}))
      BY <2>1, <2>3, <3>1 DEF SV!Xor
    <3>3. CASE i = N
      <4>1. \A b \in 0 .. 7 : b \in D(i) <=> ~ (b \in S(i) <=> b \in {0, 1, 2, 7})
        BY <3>2, <3>3 DEF SV!Bits
      <4>2. D(i) \subseteq 0 .. 7 /\ {0, 1, 2, 7} \subseteq 0 .. 7
        BY DEF SV!Bits
      <4> HIDE DEF D
      <4> QED
        BY <2>2, <2>5, <3>3, <4>1, <4>2 DEF SV!Xor
    <3>4. CASE i # N
      BY <2>2, <2>5, <3>2, <3>4 DEF SV!Bits, SV!Xor
    <3> QED
      BY <3>3, <3>4
  <2> QED
    BY <2>4, <2>5
<1>7. SV!Double(v) = [i \in 1 .. N |-> D(i)]
  BY DEF SV!Double, x, r
<1>8. SV!cmac_dbl(v) = IF 7 \in v[1] THEN [[i \in 1 .. N |-> S(i)] EXCEPT ![N] = SV!Xor(@, {0, 1, 2, 7})]
                       ELSE [i \in 1 .. N |-> S(i)]
  BY DEF SV!cmac_dbl, S
<1> HIDE DEF D
<1>9. SV!cmac_dbl(v) = [i \in 1 .. N |->
                           IF 7 \in v[1] /\ i = N THEN SV!Xor(S(i), {0, 1, 2, 7}) ELSE S(i)]
  BY <1>8, BlockSize
<1>10. SV!cmac_dbl(v) = SV!Double(v)
  BY <1>6, <1>7, <1>9
<1>11. {0, 1, 2, 7} \in Octets
  BY DEF Octets, SV!Bits
<1>12. IsBlock(SV!cmac_dbl(v))
  BY <1>4, <1>9, <1>11, Octet DEF IsBlock
<1> QED
  BY <1>10, <1>12

(* A sequence of bytes.                                                    *)
IsBytes(m) == Len(m) \in Nat /\ m \in [1 .. Len(m) -> Octets]

(* A function on 1 .. n that gives bytes is a sequence of n bytes.         *)
LEMMA BytesOf ==
    ASSUME NEW n \in Nat, NEW m \in [1 .. n -> Octets]
    PROVE  Len(m) = n /\ IsBytes(m)
<1>1. m \in Seq(Octets) /\ Len(m) = n
  OBVIOUS
<1> QED
  BY <1>1 DEF IsBytes

(* A block is a sequence of N bytes.                                       *)
LEMMA BlockBytes ==
    ASSUME NEW v, IsBlock(v)
    PROVE  Len(v) = N /\ IsBytes(v)
  BY BlockSize, BytesOf DEF IsBlock

(* The block n of m.                                                       *)
BlockAt(m, n) == [i \in 1 .. N |-> m[n * N + i]]

(* It lies in m.                                                           *)
LEMMA BlockAtIs ==
    ASSUME NEW m, IsBytes(m), NEW n \in Nat, (n + 1) * N <= Len(m)
    PROVE  IsBlock(BlockAt(m, n))
<1> DEFINE len == Len(m)
           from == n * N
<1>1. len \in Nat /\ N \in Nat /\ from \in Nat /\ from + N <= len
  <2>1. (n + 1) * N = n * N + N
    BY BlockSize
  <2> QED
    BY <2>1, BlockSize DEF IsBytes
<1> HIDE DEF from, len
<1>2. \A i \in 1 .. N : from + i \in 1 .. len
  BY ONLY <1>1
<1> QED
  BY <1>2 DEF IsBytes, IsBlock, BlockAt, from, len

(* The first len \div N blocks end before len.                             *)
LEMMA Fewer ==
    ASSUME NEW len \in Nat, NEW k \in 1 .. len \div N
    PROVE  k * N <= len /\ k \in Nat /\ ((k - 1) + 1) = k
<1>1. N \in Nat \ {0} /\ k \in Nat /\ k <= len \div N
  BY BlockSize
<1>2. k * N <= (len \div N) * N
  <2>1. len \div N \in Nat
    BY BlockSize
  <2> DEFINE q == len \div N
  <2> HIDE DEF q
  <2>2. k * N <= q * N
    BY <1>1, <2>1 DEF q
  <2> QED
    BY <2>2 DEF q
<1>3. (len \div N) * N <= len
  BY <1>1
<1> DEFINE q == (len \div N) * N
           p == k * N
<1>4. q \in Int /\ p \in Int /\ p <= q /\ q <= len
  BY <1>1, <1>2, <1>3
<1>5. p <= len
  <2> HIDE DEF p, q
  <2> QED
    BY <1>4
<1> QED
  BY <1>1, <1>5 DEF p

(* What the definition of the chained blocks by recursion says.            *)
LEMMA ChainStep ==
    ASSUME NEW m, IsBytes(m)
    PROVE  /\ SV!Chain(m)[0] = SV!Zeros(N)
           /\ \A k \in 1 .. Len(m) \div N :
                SV!Chain(m)[k] = SV!Encrypt(SV!XorBlock(SV!Chain(m)[k - 1], BlockAt(m, k - 1)))
           /\ \A k \in 0 .. Len(m) \div N : IsBlock(SV!Chain(m)[k])
<1> DEFINE n == Len(m) \div N
           X == [1 .. N -> Octets]
           St(g, k) == SV!Encrypt(SV!XorBlock(g, BlockAt(m, k - 1)))
           F == [k \in 1 .. n |-> [x \in X |-> St(x, k)]]
           A(g) == g = [k \in 0 .. n |-> IF k = 0 THEN SV!Zeros(N) ELSE St(g[k - 1], k)]
           after == CHOOSE g : A(g)
<1>1. n \in Nat
  BY BlockSize DEF IsBytes
<1>2. ASSUME NEW x \in X, NEW k \in 1 .. n PROVE St(x, k) \in X
  <2>1. IsBlock(BlockAt(m, k - 1))
    <3>1. k * N <= Len(m) /\ k \in Nat /\ (k - 1) + 1 = k
      BY <1>2, Fewer DEF IsBytes
    <3>2. k - 1 \in Nat
      BY <1>2
    <3> QED
      BY <3>1, <3>2, BlockAtIs
  <2> QED
    BY <2>1, BlockOps DEF IsBlock
<1>3. SV!Zeros(N) \in X
  BY BlockOps DEF IsBlock
<1>4. SV!Chain(m) = after
  BY DEF SV!Chain, BlockAt
<1> HIDE DEF St, n
<1>5. StepsOn(F, n, X)
  BY <1>2 DEF StepsOn
<1>6. PICK g : Leads(g, SV!Zeros(N), F, n, X)
  <2> HIDE DEF F, X
  <2> QED
    BY <1>1, <1>3, <1>5, Recursion
<1>7. A(g)
  <2>1. ASSUME NEW k \in 0 .. n, k # 0 PROVE F[k][g[k - 1]] = St(g[k - 1], k)
    <3>1. k \in 1 .. n /\ k - 1 \in 0 .. n
      BY <1>1, <2>1
    <3>2. g[k - 1] \in X
      <4> HIDE DEF F
      <4> QED
        BY <1>6, <3>1 DEF Leads
    <3> QED
      BY <3>1, <3>2
  <2> HIDE DEF F
  <2> QED
    BY <1>6, <2>1 DEF Leads
<1>8. A(after)
  BY <1>7
<1> HIDE DEF after
<1>9. after[0] = SV!Zeros(N) /\ \A k \in 1 .. n : after[k] = St(after[k - 1], k)
  BY <1>1, <1>8
<1>10. \A k \in 0 .. n : after[k] \in X
  <2> DEFINE S == {k \in Nat : k <= n => after[k] \in X}
  <2>1. 0 \in S
    BY <1>3, <1>9
  <2>2. ASSUME NEW k \in S PROVE k + 1 \in S
    <3>1. k \in Nat /\ (k + 1) - 1 = k /\ k + 1 \in Nat
      OBVIOUS
    <3>2. ASSUME k + 1 <= n PROVE after[k + 1] \in X
      <4>1. k + 1 \in 1 .. n /\ after[k] \in X
        BY <1>1, <3>1, <3>2
      <4>2. after[k + 1] = St(after[k], k + 1)
        BY <1>9, <3>1, <4>1
      <4> QED
        BY <1>2, <4>1, <4>2
    <3> QED
      BY <3>1, <3>2
  <2> HIDE DEF S
  <2>3. S = Nat
    BY <2>1, <2>2, Induction DEF S
  <2> QED
    BY <2>3, <1>1 DEF S
<1> QED
  BY <1>4, <1>9, <1>10 DEF St, n, IsBlock

(* The states of the loops of siv_cmac.                                    *)
CmacStates == [blk : [1 .. N -> Octets], j : 0 .. N]

(* A turn of the loop gives one.                                           *)
LEMMA CmacByteType ==
    ASSUME NEW s \in CmacStates, NEW b \in Octets
    PROVE  SV!CmacByte(s, b) \in CmacStates
<1> DEFINE t == IF s.j >= N THEN [blk |-> SV!Encrypt(s.blk), j |-> 0] ELSE s
<1>1. t.blk \in [1 .. N -> Octets] /\ t.j \in 0 .. N - 1
  BY BlockSize, BlockOps DEF CmacStates, IsBlock
<1>2. SV!CmacByte(s, b) = [blk |-> [t.blk EXCEPT ![t.j + 1] = SV!Xor(@, b)], j |-> t.j + 1]
  BY DEF SV!CmacByte
<1> HIDE DEF t
<1>3. t.j + 1 \in 1 .. N
  BY <1>1, BlockSize
<1>4. SV!Xor(t.blk[t.j + 1], b) \in Octets
  BY <1>1, <1>3, Octet
<1> QED
  BY <1>1, <1>2, <1>3, <1>4 DEF CmacStates

(* They are these, between the turns.                                      *)
CmacTurns(at, m) ==
    /\ at[0] = [blk |-> SV!Zeros(N), j |-> 0]
    /\ \A k \in 1 .. Len(m) : at[k] = SV!CmacByte(at[k - 1], m[k])
    /\ SV!CmacBytes(m) = at[Len(m)]

(* The loop of siv_cmac, turn by turn.                                     *)
LEMMA CmacBytesDef ==
    ASSUME NEW m, IsBytes(m)
    PROVE  \E at : CmacTurns(at, m)
<1> DEFINE n == Len(m)
           z == [blk |-> SV!Zeros(N), j |-> 0]
           St(g, k) == SV!CmacByte(g, m[k])
           F == [k \in 1 .. n |-> [x \in CmacStates |-> St(x, k)]]
           A(g) == g = [k \in 0 .. n |-> IF k = 0 THEN z ELSE St(g[k - 1], k)]
           at == CHOOSE g : A(g)
<1>1. n \in Nat
  BY DEF IsBytes
<1>2. \A x \in CmacStates, k \in 1 .. n : St(x, k) \in CmacStates
  BY CmacByteType DEF IsBytes
<1>3. z \in CmacStates
  BY BlockSize, BlockOps DEF CmacStates, IsBlock
<1>4. SV!CmacBytes(m) = at[n]
  BY DEF SV!CmacBytes
<1> HIDE DEF St, n, z
<1>5. StepsOn(F, n, CmacStates)
  BY <1>2 DEF StepsOn
<1>6. PICK g : Leads(g, z, F, n, CmacStates)
  <2> HIDE DEF F
  <2> QED
    BY <1>1, <1>3, <1>5, Recursion
<1>7. A(g)
  <2>1. ASSUME NEW k \in 0 .. n, k # 0 PROVE F[k][g[k - 1]] = St(g[k - 1], k)
    <3>1. k \in 1 .. n /\ k - 1 \in 0 .. n
      BY <1>1, <2>1
    <3>2. g[k - 1] \in CmacStates
      <4> HIDE DEF F
      <4> QED
        BY <1>6, <3>1 DEF Leads
    <3> QED
      BY <3>1, <3>2
  <2> HIDE DEF F
  <2> QED
    BY <1>6, <2>1 DEF Leads
<1>8. A(at)
  BY <1>7
<1> HIDE DEF at
<1>9. at[0] = z /\ \A k \in 1 .. n : at[k] = St(at[k - 1], k)
  BY <1>1, <1>8
<1>10. CmacTurns(at, m)
  BY <1>4, <1>9 DEF St, n, z, CmacTurns
<1> QED
  BY <1>10

(* As many whole blocks as end before len are no more than len \div N.     *)
LEMMA FewerToo ==
    ASSUME NEW len \in Nat, NEW n \in Nat, n * N <= len
    PROVE  n \in 0 .. len \div N
<1> DEFINE q == len \div N
<1>1. N \in Nat \ {0} /\ q \in Nat /\ len < (q + 1) * N
  BY BlockSize
<1> HIDE DEF q
<1>2. SUFFICES ASSUME n >= q + 1 PROVE FALSE
  BY <1>1 DEF q
<1>3. (q + 1) * N <= n * N
  BY <1>1, <1>2
<1> DEFINE a == (q + 1) * N
           b == n * N
<1>4. a \in Int /\ b \in Int /\ a <= b /\ b <= len /\ len < a
  BY <1>1, <1>3
<1> HIDE DEF a, b
<1> QED
  BY ONLY <1>4, len \in Nat

(* The state s of the loops after k bytes of m: n blocks are encrypted,    *)
(* and the next one is open, even if it is full.                           *)
CmacIn(s, m, k, n) ==
    /\ s = [blk |-> s.blk, j |-> s.j]
    /\ s.j \in 0 .. N /\ k = n * N + s.j /\ (k > 0 => s.j > 0)
    /\ s.blk = [i \in 1 .. N |-> IF i <= s.j THEN SV!Xor(SV!Chain(m)[n][i], m[n * N + i])
                                 ELSE SV!Chain(m)[n][i]]

CmacHas(s, m, k) == \E n \in Nat : CmacIn(s, m, k, n)

(* The next byte goes into the open block.                                 *)
LEMMA OpenTakes ==
    ASSUME NEW s, NEW m, NEW k \in Nat, NEW n \in Nat, CmacIn(s, m, k, n), s.j < N
    PROVE  CmacIn([blk |-> [s.blk EXCEPT ![s.j + 1] = SV!Xor(@, m[k + 1])], j |-> s.j + 1], m, k + 1, n)
<1> DEFINE j == s.j
           c == SV!Chain(m)[n]
           from == n * N
           blk == [s.blk EXCEPT ![j + 1] = SV!Xor(@, m[k + 1])]
           t == [blk |-> blk, j |-> j + 1]
<1>1. /\ j \in 0 .. N /\ k = from + j /\ from \in Nat /\ N \in Nat /\ j < N
      /\ s.blk = [i \in 1 .. N |-> IF i <= j THEN SV!Xor(c[i], m[from + i]) ELSE c[i]]
  BY BlockSize DEF CmacIn
<1> HIDE DEF j, c, from
<1>2. k + 1 = from + (j + 1) /\ j + 1 \in 1 .. N /\ j + 1 > 0
  BY <1>1
<1>3. \A i \in 1 .. N : i # j + 1 => (i <= j <=> i <= j + 1)
  BY <1>1
<1>4. blk = [i \in 1 .. N |-> IF i <= j + 1 THEN SV!Xor(c[i], m[from + i]) ELSE c[i]]
  <2>1. m[k + 1] = m[from + (j + 1)] /\ s.blk[j + 1] = c[j + 1] /\ DOMAIN s.blk = 1 .. N
    BY <1>1, <1>2
  <2>2. blk = [i \in 1 .. N |-> IF i = j + 1 THEN SV!Xor(c[i], m[from + i]) ELSE s.blk[i]]
    BY <1>2, <2>1
  <2> HIDE DEF blk
  <2> QED
    BY <1>1, <1>2, <1>3, <2>2
<1> HIDE DEF blk
<1>5. t.blk = blk /\ t.j = j + 1 /\ t = [blk |-> t.blk, j |-> t.j]
  OBVIOUS
<1> HIDE DEF t
<1>6. t.j \in 0 .. N /\ k + 1 = from + t.j /\ t.j > 0
  BY <1>1, <1>2, <1>5
<1>7. t.blk = [i \in 1 .. N |-> IF i <= t.j THEN SV!Xor(c[i], m[from + i]) ELSE c[i]]
  BY <1>4, <1>5
<1>8. CmacIn(t, m, k + 1, n)
  BY <1>5, <1>6, <1>7 DEF CmacIn, c, from
<1> QED
  BY <1>8 DEF t, blk, j

(* Once the open block is full, it is encrypted before the next byte.      *)
LEMMA CmacByteTakes ==
    ASSUME NEW m, IsBytes(m), NEW k \in Nat, k < Len(m), NEW s, CmacHas(s, m, k)
    PROVE  CmacHas(SV!CmacByte(s, m[k + 1]), m, k + 1)
<1>1. PICK n \in Nat : CmacIn(s, m, k, n)
  BY DEF CmacHas
<1>2. s.j \in 0 .. N /\ N \in Nat \ {0} /\ k = n * N + s.j /\ s = [blk |-> s.blk, j |-> s.j]
  BY <1>1, BlockSize DEF CmacIn
<1>3. CASE s.j < N
  <2>1. SV!CmacByte(s, m[k + 1])
          = [blk |-> [s.blk EXCEPT ![s.j + 1] = SV!Xor(@, m[k + 1])], j |-> s.j + 1]
    BY <1>2, <1>3 DEF SV!CmacByte
  <2>2. CmacIn(SV!CmacByte(s, m[k + 1]), m, k + 1, n)
    BY <1>1, <1>3, <2>1, OpenTakes
  <2> QED
    BY <2>2 DEF CmacHas
<1>4. CASE s.j = N
  <2> DEFINE t == [blk |-> SV!Encrypt(s.blk), j |-> 0]
             c == SV!Chain(m)[n]
             len == Len(m)
  <2>1. (n + 1) * N = n * N + N /\ n * N \in Nat
    BY <1>2
  <2>2. k = (n + 1) * N /\ len \in Nat /\ k < len
    BY <1>2, <1>4, <2>1 DEF IsBytes
  <2>3. n + 1 \in 1 .. len \div N /\ (n + 1) - 1 = n
    <3> HIDE DEF len
    <3>1. n + 1 \in 0 .. len \div N
      BY <2>2, FewerToo
    <3> QED
      BY <3>1
  <2>4. SV!Chain(m)[n + 1] = SV!Encrypt(SV!XorBlock(c, BlockAt(m, n))) /\ IsBlock(SV!Chain(m)[n + 1])
    <3>1. n + 1 \in 0 .. len \div N
      BY <2>3
    <3> QED
      BY <2>3, <3>1, ChainStep
  <2>5. s.blk = SV!XorBlock(c, BlockAt(m, n))
    BY <1>1, <1>4, BlockSize DEF CmacIn, SV!XorBlock, BlockAt
  <2>6. t.blk = SV!Chain(m)[n + 1] /\ t.j = 0 /\ t = [blk |-> t.blk, j |-> t.j]
    BY <2>4, <2>5
  <2> HIDE DEF t, len
  <2> DEFINE b == [t.blk EXCEPT ![t.j + 1] = SV!Xor(@, m[k + 1])]
             e == [blk |-> b, j |-> t.j + 1]
  <2>7. SV!CmacByte(s, m[k + 1]) = e
    BY <1>2, <1>4 DEF SV!CmacByte, t
  <2>8. CmacIn(e, m, k + 1, n + 1)
    <3> DEFINE C(x) == SV!Chain(m)[n + 1][x]
               from == (n + 1) * N
    <3>1. from \in Nat /\ k = from /\ 1 \in 1 .. N
      BY <1>2, <2>1, <2>2
    <3>2. t.blk = [i \in 1 .. N |-> C(i)]
      BY <2>4, <2>6 DEF IsBlock
    <3> HIDE DEF C, from
    <3>3. b = [i \in 1 .. N |-> IF i <= 1 THEN SV!Xor(C(i), m[from + i]) ELSE C(i)]
      <4>1. b = [i \in 1 .. N |-> IF i = 1 THEN SV!Xor(C(1), m[k + 1]) ELSE C(i)]
        <5>1. t.j + 1 = 1 /\ 1 \in DOMAIN t.blk /\ t.blk[1] = C(1)
          BY <2>6, <3>1, <3>2
        <5>2. b = [t.blk EXCEPT ![1] = SV!Xor(C(1), m[k + 1])]
          BY <5>1
        <5> HIDE DEF b
        <5> QED
          BY <3>2, <5>2
      <4>2. \A i \in 1 .. N : i <= 1 <=> i = 1
        OBVIOUS
      <4> HIDE DEF b
      <4> QED
        BY <3>1, <4>1, <4>2
    <3> HIDE DEF b
    <3>4. e.blk = b /\ e.j = 1 /\ e = [blk |-> e.blk, j |-> e.j]
      BY <2>6
    <3> HIDE DEF e
    <3>5. e.j \in 0 .. N /\ k + 1 = from + e.j /\ e.j > 0
      BY <1>2, <3>1, <3>4
    <3>6. e.blk = [i \in 1 .. N |-> IF i <= e.j THEN SV!Xor(C(i), m[from + i]) ELSE C(i)]
      BY <3>3, <3>4
    <3> QED
      BY <3>4, <3>5, <3>6 DEF CmacIn, C, from
  <2> QED
    BY <2>7, <2>8 DEF CmacHas
<1> QED
  BY <1>2, <1>3, <1>4

(* All bytes of m.                                                         *)
LEMMA CmacTakes ==
    ASSUME NEW m, IsBytes(m)
    PROVE  CmacHas(SV!CmacBytes(m), m, Len(m))
<1> DEFINE len == Len(m)
<1>1. PICK at : CmacTurns(at, m)
  BY CmacBytesDef
<1>2. CmacHas(at[0], m, 0)
  <2> DEFINE s == at[0]
  <2>1. s.blk = SV!Zeros(N) /\ s.j = 0 /\ s = [blk |-> s.blk, j |-> s.j]
    BY <1>1 DEF CmacTurns
  <2> HIDE DEF s
  <2>2. s.blk = [i \in 1 .. N |-> IF i <= s.j THEN SV!Xor(SV!Chain(m)[0][i], m[0 * N + i])
                                  ELSE SV!Chain(m)[0][i]]
    <3>1. SV!Chain(m)[0] = SV!Zeros(N)
      BY ChainStep
    <3> QED
      BY <2>1, <3>1 DEF SV!Zeros
  <2>3. s.j \in 0 .. N /\ 0 = 0 * N + s.j
    BY <2>1, BlockSize
  <2>4. CmacIn(s, m, 0, 0)
    BY <2>1, <2>2, <2>3 DEF CmacIn
  <2> QED
    BY <2>4 DEF CmacHas, s
<1> DEFINE S == {k \in Nat : k <= len => CmacHas(at[k], m, k)}
<1>3. len \in Nat
  BY DEF IsBytes
<1>4. 0 \in S
  BY <1>2
<1>5. ASSUME NEW k \in S PROVE k + 1 \in S
  <2>1. k \in Nat /\ (k + 1) - 1 = k /\ k + 1 \in Nat
    OBVIOUS
  <2>2. ASSUME k + 1 <= len PROVE CmacHas(at[k + 1], m, k + 1)
    <3>1. k + 1 \in 1 .. len /\ k < len /\ k <= len
      <4> HIDE DEF len
      <4> QED
        BY <1>3, <2>1, <2>2
    <3>2. at[k + 1] = SV!CmacByte(at[k], m[k + 1])
      BY <1>1, <2>1, <3>1 DEF CmacTurns
    <3>3. CmacHas(at[k], m, k)
      BY <3>1
    <3> QED
      BY <2>1, <3>1, <3>2, <3>3, CmacByteTakes
  <2> QED
    BY <2>1, <2>2
<1> HIDE DEF S
<1>6. S = Nat
  BY <1>4, <1>5, Induction DEF S
<1>7. CmacHas(at[len], m, len)
  BY <1>3, <1>6 DEF S
<1> QED
  BY <1>1, <1>7 DEF CmacTurns

(* The open block, and how it meets the subkey at the end of siv_cmac.     *)
OpenBlock(c, rest, j) == [i \in 1 .. N |-> IF i <= j THEN SV!Xor(c[i], rest[i]) ELSE c[i]]

CodeLast(blk, j, k1, k2) ==
    IF j < N THEN SV!XorBlock([blk EXCEPT ![j + 1] = SV!Xor(@, {7})], k2)
             ELSE SV!XorBlock(blk, k1)

RfcLast(rest, j, k1, k2) ==
    IF j = N THEN SV!XorBlock(rest, k1) ELSE SV!XorBlock(SV!Pad(rest), k2)

(* Both add up to the same block.                                          *)
LEMMA LastBlock ==
    ASSUME NEW j \in 0 .. N, NEW c, NEW rest, NEW blk, NEW k1, NEW k2,
           Len(rest) = j, blk = OpenBlock(c, rest, j)
    PROVE  CodeLast(blk, j, k1, k2) = SV!XorBlock(c, RfcLast(rest, j, k1, k2))
<1> USE DEF OpenBlock, CodeLast, RfcLast
<1>1. N \in Nat \ {0}
  BY BlockSize
<1>2. CASE j = N
  <2>1. \A i \in 1 .. N : blk[i] = SV!Xor(c[i], rest[i])
    BY <1>2
  <2>2. \A i \in 1 .. N : SV!Xor(blk[i], k1[i]) = SV!Xor(c[i], SV!Xor(rest[i], k1[i]))
    BY <2>1, Octet
  <2>3. SV!XorBlock(blk, k1) = SV!XorBlock(c, SV!XorBlock(rest, k1))
    BY <2>2 DEF SV!XorBlock
  <2> QED
    BY <1>1, <1>2, <2>3
<1>3. CASE j < N
  <2> DEFINE b == [blk EXCEPT ![j + 1] = SV!Xor(@, {7})]
             p == SV!Pad(rest)
  <2>1. p = [i \in 1 .. N |-> IF i <= j THEN rest[i] ELSE IF i = j + 1 THEN {7} ELSE {}]
    <3>1. \A i \in 1 .. N : i <= j => i # j + 1
      OBVIOUS
    <3> QED
      BY <3>1 DEF SV!Pad
  <2>2. b = [i \in 1 .. N |-> IF i = j + 1 THEN SV!Xor(c[i], {7})
                              ELSE IF i <= j THEN SV!Xor(c[i], rest[i]) ELSE c[i]]
    <3>1. j + 1 \in 1 .. N /\ blk[j + 1] = c[j + 1] /\ DOMAIN blk = 1 .. N
      BY <1>1, <1>3
    <3>2. b = [i \in 1 .. N |-> IF i = j + 1 THEN SV!Xor(c[i], {7}) ELSE blk[i]]
      BY <3>1
    <3> HIDE DEF b
    <3> QED
      BY <3>2
  <2> HIDE DEF b, p
  <2>3. \A i \in 1 .. N : b[i] = SV!Xor(c[i], p[i])
    <3>1. \A i \in 1 .. N : i <= j => i # j + 1
      OBVIOUS
    <3> QED
      BY <2>1, <2>2, <3>1, Octet
  <2>4. \A i \in 1 .. N : SV!Xor(b[i], k2[i]) = SV!Xor(c[i], SV!Xor(p[i], k2[i]))
    BY <2>3, Octet
  <2>5. SV!XorBlock(b, k2) = SV!XorBlock(c, SV!XorBlock(p, k2))
    BY <2>4 DEF SV!XorBlock
  <2> QED
    BY <1>3, <2>5 DEF b, p
<1> QED
  BY <1>1, <1>2, <1>3

(* siv_cmac is CMAC of the data with xorend added.                         *)
LEMMA CmacIs ==
    ASSUME NEW data, NEW x, NEW m, m = SV!WithEnd(data, x), IsBytes(m)
    PROVE  SV!siv_cmac(data, x) = SV!Cmac(m) /\ IsBlock(SV!Cmac(m))
<1> DEFINE len == Len(m)
           s == SV!CmacBytes(m)
           k0 == SV!Encrypt(SV!Zeros(N))
           k1 == SV!cmac_dbl(k0)
           k2 == SV!cmac_dbl(k1)
           d1 == SV!Double(k0)
           d2 == SV!Double(d1)
           n1 == IF len = 0 THEN 0 ELSE (len - 1) \div N
<1>1. k1 = d1 /\ k2 = d2 /\ IsBlock(k1) /\ IsBlock(k2)
  <2>1. IsBlock(k0)
    BY BlockOps
  <2>2. k1 = d1 /\ IsBlock(k1)
    <3> HIDE DEF k0
    <3> QED
      BY <2>1, DoubleIs
  <2> HIDE DEF k1, d1
  <2> QED
    BY <2>2, DoubleIs
<1>2. PICK n \in Nat : CmacIn(s, m, len, n)
  BY CmacTakes DEF CmacHas
<1> DEFINE j == s.j
           c == SV!Chain(m)[n]
           rest == SV!Behind(m, n * N)
           from == n * N
<1>3. /\ j \in 0 .. N /\ len = from + j /\ (len > 0 => j > 0) /\ len \in Nat /\ from \in Nat
      /\ N \in Nat \ {0}
      /\ s.blk = [i \in 1 .. N |-> IF i <= j THEN SV!Xor(c[i], m[from + i]) ELSE c[i]]
  BY <1>2, BlockSize DEF CmacIn, IsBytes
<1>4. n1 = n
  <2> HIDE DEF j, len
  <2>1. CASE len = 0
    <3>1. n = 0 \/ n * N >= N
      BY <1>3
    <3> QED
      BY <1>3, <2>1, <3>1
  <2>2. CASE len > 0
    <3>1. j - 1 \in 0 .. N - 1 /\ len - 1 = from + (j - 1)
      <4> HIDE DEF from
      <4> QED
        BY <1>3, <2>2
    <3>2. (n * N + (j - 1)) \div N = n
      BY <1>3, <3>1, Blocks
    <3> QED
      BY <2>2, <3>1, <3>2
  <2> QED
    BY <1>3, <2>1, <2>2
<1>5. Len(rest) = j /\ \A i \in 1 .. j : rest[i] = m[from + i]
  <2>1. len - from = j
    <3> HIDE DEF len, from, j
    <3> QED
      BY <1>3
  <2>2. rest = [i \in 1 .. j |-> m[from + i]]
    BY <2>1 DEF SV!Behind
  <2>3. \A i \in 1 .. j : m[from + i] \in Octets
    <3>1. \A i \in 1 .. j : from + i \in 1 .. len
      <4> HIDE DEF len, from, j
      <4> QED
        BY <1>3
    <3> QED
      BY <3>1 DEF IsBytes
  <2>4. rest \in [1 .. j -> Octets]
    BY <2>2, <2>3
  <2>5. j \in Nat
    BY <1>3
  <2> HIDE DEF rest, from, j
  <2> QED
    BY <2>2, <2>4, <2>5, BytesOf
<1>6. s.blk = [i \in 1 .. N |-> IF i <= j THEN SV!Xor(c[i], rest[i]) ELSE c[i]]
  <2> HIDE DEF j, rest, from, c
  <2> QED
    BY <1>3, <1>5
<1> DEFINE last == IF j < N THEN SV!XorBlock([s.blk EXCEPT ![j + 1] = SV!Xor(@, {7})], k2)
                   ELSE SV!XorBlock(s.blk, k1)
           end == IF j = N THEN SV!XorBlock(rest, d1) ELSE SV!XorBlock(SV!Pad(rest), d2)
<1>7. SV!siv_cmac(data, x) = SV!Encrypt(last)
  BY DEF SV!siv_cmac
<1>8. SV!Cmac(m) = SV!Encrypt(SV!XorBlock(c, end))
  <2>1. SV!Cmac(m) = LET r == SV!Behind(m, n1 * N)
                         l == IF Len(r) = N THEN SV!XorBlock(r, d1) ELSE SV!XorBlock(SV!Pad(r), d2)
                     IN  SV!Encrypt(SV!XorBlock(SV!Chain(m)[n1], l))
    BY DEF SV!Cmac
  <2> HIDE DEF d1, d2, n1, j
  <2> QED
    BY <1>4, <1>5, <2>1
<1>9. last = SV!XorBlock(c, end)
  <2> DEFINE blk == s.blk
  <2>1. blk = OpenBlock(c, rest, j)
    BY <1>6 DEF OpenBlock
  <2>2. last = CodeLast(blk, j, d1, d2) /\ end = RfcLast(rest, j, d1, d2)
    <3> HIDE DEF k1, k2, d1, d2, s
    <3> QED
      BY <1>1 DEF CodeLast, RfcLast
  <2>3. j \in 0 .. N /\ Len(rest) = j
    BY <1>3, <1>5
  <2> HIDE DEF last, end, blk, j, c, rest, d1, d2
  <2>4. CodeLast(blk, j, d1, d2) = SV!XorBlock(c, RfcLast(rest, j, d1, d2))
    BY <2>1, <2>3, LastBlock
  <2> QED
    BY <2>2, <2>4
<1>10. IsBlock(last)
  <2>1. IsBlock(s.blk)
    <3>1. IsBlock(c)
      <4>1. n \in 0 .. len \div N
        <5>1. n * N <= len
          <6> HIDE DEF len, j
          <6>1. from <= len
            <7> HIDE DEF from
            <7> QED
              BY <1>3
          <6> QED
            BY <6>1
        <5> HIDE DEF len
        <5> QED
          BY <1>3, <5>1, FewerToo
      <4> QED
        BY <4>1, ChainStep
    <3>2. \A i \in 1 .. j : m[from + i] \in Octets
      <4>1. \A i \in 1 .. j : from + i \in 1 .. len
        <5> HIDE DEF len, from, j
        <5> QED
          BY <1>3
      <4> QED
        BY <4>1 DEF IsBytes
    <3>3. \A i \in 1 .. N : i <= j => i \in 1 .. j
      BY <1>3
    <3> DEFINE V(i) == IF i <= j THEN SV!Xor(c[i], m[from + i]) ELSE c[i]
    <3>4. \A i \in 1 .. N : c[i] \in Octets
      BY <3>1 DEF IsBlock
    <3> HIDE DEF c, from, j
    <3>5. \A i \in 1 .. N : V(i) \in Octets
      BY <3>2, <3>3, <3>4, Octet
    <3>6. s.blk = [i \in 1 .. N |-> V(i)]
      BY <1>3
    <3> HIDE DEF V, s
    <3> QED
      BY <3>5, <3>6 DEF IsBlock
  <2>2. ASSUME j < N PROVE IsBlock([s.blk EXCEPT ![j + 1] = SV!Xor(@, {7})])
    <3> DEFINE blk == s.blk
    <3>1. j + 1 \in 1 .. N
      BY <1>3, <2>2
    <3>2. {7} \in Octets
      BY DEF Octets, SV!Bits
    <3>3. IsBlock(blk)
      BY <2>1
    <3> HIDE DEF blk
    <3>4. IsBlock([blk EXCEPT ![j + 1] = SV!Xor(blk[j + 1], {7})])
      BY <3>1, <3>2, <3>3, Octet DEF IsBlock
    <3> QED
      BY <3>4 DEF blk
  <2> HIDE DEF s, k1, k2
  <2> QED
    BY <1>1, <2>1, <2>2, BlockOps
<1> HIDE DEF last
<1> QED
  BY <1>7, <1>8, <1>9, <1>10, BlockOps

(* siv_cmac without an xorend.                                             *)
LEMMA CmacPlain ==
    ASSUME NEW m, IsBytes(m)
    PROVE  SV!siv_cmac(m, <<>>) = SV!Cmac(m) /\ IsBlock(SV!Cmac(m))
<1>1. SV!WithEnd(m, <<>>) = m
  BY DEF SV!WithEnd, IsBytes
<1> QED
  BY <1>1, CmacIs

(* With one, of a block.                                                   *)
LEMMA CmacEnd ==
    ASSUME NEW p, IsBytes(p), Len(p) >= N, NEW d, IsBlock(d)
    PROVE  SV!siv_cmac(p, d) = SV!Cmac(SV!XorEnd(p, d)) /\ IsBlock(SV!Cmac(SV!XorEnd(p, d)))
<1> DEFINE len == Len(p)
           e == SV!XorEnd(p, d)
           V(i) == IF i <= len - N THEN p[i] ELSE SV!Xor(p[i], d[i - (len - N)])
<1>1. len \in Nat /\ N \in Nat \ {0} /\ len >= N
  BY BlockSize DEF IsBytes
<1>2. d # <<>>
  <2>1. DOMAIN d = 1 .. N /\ 1 \in 1 .. N
    BY <1>1 DEF IsBlock
  <2>2. DOMAIN <<>> = {}
    OBVIOUS
  <2> QED
    BY <2>1, <2>2
<1>3. e = [i \in 1 .. len |-> V(i)]
  BY DEF SV!XorEnd
<1>4. SV!WithEnd(p, d) = e
  <2>1. SV!WithEnd(p, d) = [i \in 1 .. len |-> IF i > len - N THEN SV!Xor(p[i], d[i - (len - N)]) ELSE p[i]]
    BY <1>2 DEF SV!WithEnd
  <2>2. \A i \in 1 .. len : i > len - N <=> ~ (i <= len - N)
    <3> HIDE DEF len
    <3> QED
      BY <1>1
  <2> HIDE DEF e, len
  <2> QED
    BY <1>3, <2>1, <2>2
<1>5. \A i \in 1 .. len : V(i) \in Octets
  <2>1. \A i \in 1 .. len : p[i] \in Octets
    BY DEF IsBytes
  <2>2. \A i \in 1 .. len : ~ (i <= len - N) => d[i - (len - N)] \in Octets
    <3>1. \A i \in 1 .. len : ~ (i <= len - N) => i - (len - N) \in 1 .. N
      <4> HIDE DEF len
      <4> QED
        BY <1>1
    <3> HIDE DEF len
    <3> QED
      BY <3>1 DEF IsBlock
  <2> HIDE DEF len
  <2> QED
    BY <2>1, <2>2, Octet
<1>6. e \in [1 .. len -> Octets]
  <2> HIDE DEF V, e, len
  <2> QED
    BY <1>3, <1>5
<1>7. IsBytes(e)
  <2> HIDE DEF e, len
  <2> QED
    BY <1>1, <1>6, BytesOf
<1> HIDE DEF e
<1> QED
  BY <1>4, <1>7, CmacIs DEF e

(* The tag of the code is the synthetic vector of RFC 5297.                *)
LEMMA TagIs ==
    ASSUME NEW a, IsBytes(a), NEW p, IsBytes(p)
    PROVE  SV!Tag(a, p) = SV!S2V(a, p) /\ IsBlock(SV!Tag(a, p))
<1> DEFINE z == SV!Zeros(N)
           c == SV!XorBlock(SV!cmac_dbl(SV!siv_cmac(z, <<>>)), SV!siv_cmac(a, <<>>))
           d == SV!XorBlock(SV!Double(SV!Cmac(z)), SV!Cmac(a))
           c2 == SV!cmac_dbl(c)
           short == [i \in 1 .. N |-> CASE i <= Len(p)     -> SV!Xor(c2[i], p[i])
                                        [] i = Len(p) + 1 -> SV!Xor(c2[i], {7})
                                        [] OTHER          -> c2[i]]
           padded == SV!XorBlock(SV!Double(d), SV!Pad(p))
<1>1. c = d /\ IsBlock(c)
  <2>1. IsBytes(z)
    BY BlockOps, BlockBytes
  <2>2. SV!siv_cmac(z, <<>>) = SV!Cmac(z) /\ IsBlock(SV!Cmac(z))
    <3> HIDE DEF z
    <3> QED
      BY <2>1, CmacPlain
  <2>3. SV!siv_cmac(a, <<>>) = SV!Cmac(a) /\ IsBlock(SV!Cmac(a))
    BY CmacPlain
  <2>4. SV!cmac_dbl(SV!Cmac(z)) = SV!Double(SV!Cmac(z)) /\ IsBlock(SV!cmac_dbl(SV!Cmac(z)))
    BY <2>2, DoubleIs
  <2> HIDE DEF z
  <2> QED
    BY <2>2, <2>3, <2>4, BlockOps
<1>2. SV!Tag(a, p) = IF Len(p) >= N THEN SV!siv_cmac(p, c) ELSE SV!siv_cmac(short, <<>>)
  BY DEF SV!Tag
<1>3. SV!S2V(a, p) = IF Len(p) >= N THEN SV!Cmac(SV!XorEnd(p, d)) ELSE SV!Cmac(padded)
  BY DEF SV!S2V
<1> HIDE DEF c, d
<1>4. CASE Len(p) >= N
  BY <1>1, <1>2, <1>3, <1>4, CmacEnd
<1>5. CASE ~ (Len(p) >= N)
  <2> DEFINE len == Len(p)
  <2>1. c2 = SV!Double(d) /\ IsBlock(c2)
    BY <1>1, DoubleIs
  <2>2. len \in Nat /\ N \in Nat \ {0} /\ len < N
    BY <1>5, BlockSize DEF IsBytes
  <2> HIDE DEF c2
  <2>3. short = [i \in 1 .. N |-> IF i <= len THEN SV!Xor(c2[i], p[i])
                                  ELSE IF i = len + 1 THEN SV!Xor(c2[i], {7}) ELSE c2[i]]
    BY <2>2
  <2>4. SV!Pad(p) = [i \in 1 .. N |-> IF i <= len THEN p[i] ELSE IF i = len + 1 THEN {7} ELSE {}]
    BY <2>2 DEF SV!Pad
  <2>5. padded = [i \in 1 .. N |-> SV!Xor(c2[i], SV!Pad(p)[i])]
    BY <2>1 DEF SV!XorBlock
  <2> HIDE DEF short, padded
  <2>6. short = padded
    <3>1. ASSUME NEW i \in 1 .. N
          PROVE  (IF i <= len THEN SV!Xor(c2[i], p[i]) ELSE IF i = len + 1 THEN SV!Xor(c2[i], {7}) ELSE c2[i])
                   = SV!Xor(c2[i], SV!Pad(p)[i])
      BY <2>4, Octet
    <3> QED
      BY <2>3, <2>5, <3>1
  <2>7. short \in [1 .. N -> Octets]
    <3>1. \A i \in 1 .. N : c2[i] \in Octets
      BY <2>1 DEF IsBlock
    <3>2. \A i \in 1 .. N : i <= len => p[i] \in Octets
      BY <2>2 DEF IsBytes
    <3>3. {7} \in Octets
      BY DEF Octets, SV!Bits
    <3> QED
      BY <2>3, <3>1, <3>2, <3>3, Octet
  <2>8. IsBytes(short)
    BY <2>2, <2>7, BytesOf
  <2> QED
    BY <1>2, <1>3, <1>5, <2>6, <2>8, CmacPlain
<1> QED
  BY <1>4, <1>5

(* The bits of a number below 256, and the number of eight bits.           *)
LEMMA BitsOfNumber ==
    ASSUME NEW n \in 0 .. 255
    PROVE  n = ((n \div 1) % 2) + 2 * ((n \div 2) % 2) + 4 * ((n \div 4) % 2) + 8 * ((n \div 8) % 2)
                 + 16 * ((n \div 16) % 2) + 32 * ((n \div 32) % 2) + 64 * ((n \div 64) % 2)
                 + 128 * ((n \div 128) % 2)
  OBVIOUS

Places(a, b, c, d, e, f, g, h) ==
    a + 2 * b + 4 * c + 8 * d + 16 * e + 32 * f + 64 * g + 128 * h

PlacesAre(n, a, b, c, d, e, f, g, h) ==
    /\ n \in 0 .. 255
    /\ (n \div 1) % 2 = a /\ (n \div 2) % 2 = b /\ (n \div 4) % 2 = c /\ (n \div 8) % 2 = d
    /\ (n \div 16) % 2 = e /\ (n \div 32) % 2 = f /\ (n \div 64) % 2 = g
    /\ (n \div 128) % 2 = h

(* The bits of a sum of weighted bits are these bits.                      *)
LEMMA NumberOfBits ==
    ASSUME NEW a \in {0, 1}, NEW b \in {0, 1}, NEW c \in {0, 1}, NEW d \in {0, 1},
           NEW e \in {0, 1}, NEW f \in {0, 1}, NEW g \in {0, 1}, NEW h \in {0, 1}
    PROVE  PlacesAre(Places(a, b, c, d, e, f, g, h), a, b, c, d, e, f, g, h)
<1> DEFINE n == Places(a, b, c, d, e, f, g, h)
<1>0. n = a + 2 * b + 4 * c + 8 * d + 16 * e + 32 * f + 64 * g + 128 * h
  BY DEF Places
<1> HIDE DEF n
<1>1. n \in 0 .. 255
  BY <1>0
<1>2. n \div 2 = b + 2 * c + 4 * d + 8 * e + 16 * f + 32 * g + 64 * h
  BY <1>0
<1>3. n \div 4 = c + 2 * d + 4 * e + 8 * f + 16 * g + 32 * h
  BY <1>0
<1>4. n \div 8 = d + 2 * e + 4 * f + 8 * g + 16 * h
  BY <1>0
<1>5. n \div 16 = e + 2 * f + 4 * g + 8 * h
  BY <1>0
<1>6. n \div 32 = f + 2 * g + 4 * h
  BY <1>0
<1>7. n \div 64 = g + 2 * h
  BY <1>0
<1>8. n \div 128 = h
  BY <1>0
<1>9. (n \div 1) % 2 = a
  BY <1>0
<1>10. (n \div 2) % 2 = b
  BY <1>2
<1>11. (n \div 4) % 2 = c
  BY <1>3
<1>12. (n \div 8) % 2 = d
  BY <1>4
<1>13. (n \div 16) % 2 = e
  BY <1>5
<1>14. (n \div 32) % 2 = f
  BY <1>6
<1>15. (n \div 64) % 2 = g
  BY <1>7
<1>16. (n \div 128) % 2 = h
  BY <1>8
<1> QED
  BY <1>1, <1>9, <1>10, <1>11, <1>12, <1>13, <1>14, <1>15, <1>16 DEF n, PlacesAre

(* The weights of the bits.                                                *)
LEMMA Weights ==
    /\ SV!Weight[0 + 1] = 1 /\ SV!Weight[1 + 1] = 2 /\ SV!Weight[2 + 1] = 4 /\ SV!Weight[3 + 1] = 8
    /\ SV!Weight[4 + 1] = 16 /\ SV!Weight[5 + 1] = 32 /\ SV!Weight[6 + 1] = 64
    /\ SV!Weight[7 + 1] = 128
  BY DEF SV!Weight

(* A bit of a byte that is made of a number.                               *)
LEMMA BitOfByte ==
    ASSUME NEW n \in Nat
    PROVE  /\ SV!Byte(n) \in Octets
           /\ \A b \in 0 .. 7 : b \in SV!Byte(n) <=> (n \div SV!Weight[b + 1]) % 2 = 1
  BY DEF SV!Byte, SV!Bits, Octets

(* Bytes and numbers below 256 are the same.                               *)
LEMMA ByteNumber ==
    /\ \A x \in Octets : SV!Val(x) \in 0 .. 255 /\ SV!Byte(SV!Val(x)) = x
    /\ \A n \in 0 .. 255 : SV!Val(SV!Byte(n)) = n
    /\ SV!Val(SV!Bits) = 255
<1>1. ASSUME NEW x \in Octets PROVE SV!Val(x) \in 0 .. 255 /\ SV!Byte(SV!Val(x)) = x
  <2> DEFINE n == SV!Val(x)
             C(b) == IF b \in x THEN 1 ELSE 0
  <2>1. n = Places(C(0), C(1), C(2), C(3), C(4), C(5), C(6), C(7))
    BY Weights DEF SV!Val, SV!Bit, Places
  <2>2. \A b : C(b) \in {0, 1} /\ (C(b) = 1 <=> b \in x)
    OBVIOUS
  <2> HIDE DEF n, C
  <2>3. /\ n \in 0 .. 255
        /\ (n \div 1) % 2 = C(0) /\ (n \div 2) % 2 = C(1) /\ (n \div 4) % 2 = C(2)
        /\ (n \div 8) % 2 = C(3) /\ (n \div 16) % 2 = C(4) /\ (n \div 32) % 2 = C(5)
        /\ (n \div 64) % 2 = C(6) /\ (n \div 128) % 2 = C(7)
    <3>1. PlacesAre(n, C(0), C(1), C(2), C(3), C(4), C(5), C(6), C(7))
      BY <2>1, <2>2, NumberOfBits
    <3> QED
      BY <3>1 DEF PlacesAre
  <2>4. \A b \in 0 .. 7 : (n \div SV!Weight[b + 1]) % 2 = C(b)
    BY <2>3, Weights
  <2>5. \A b \in 0 .. 7 : b \in SV!Byte(n) <=> b \in x
    <3>1. n \in Nat
      BY <2>3
    <3> QED
      BY <2>2, <2>4, <3>1, BitOfByte
  <2>6. SV!Byte(n) \subseteq 0 .. 7 /\ x \subseteq 0 .. 7
    BY DEF SV!Byte, SV!Bits, Octets
  <2>7. SV!Byte(n) = x
    BY <2>5, <2>6
  <2> QED
    BY <2>3, <2>7 DEF n
<1>2. ASSUME NEW n \in 0 .. 255 PROVE SV!Val(SV!Byte(n)) = n
  <2> DEFINE D(b) == (n \div SV!Weight[b + 1]) % 2
             y == SV!Byte(n)
  <2>1. n \in Nat
    OBVIOUS
  <2>2. /\ D(0) = (n \div 1) % 2 /\ D(1) = (n \div 2) % 2 /\ D(2) = (n \div 4) % 2
        /\ D(3) = (n \div 8) % 2 /\ D(4) = (n \div 16) % 2 /\ D(5) = (n \div 32) % 2
        /\ D(6) = (n \div 64) % 2 /\ D(7) = (n \div 128) % 2
    BY Weights
  <2>3. /\ D(0) \in {0, 1} /\ D(1) \in {0, 1} /\ D(2) \in {0, 1} /\ D(3) \in {0, 1}
        /\ D(4) \in {0, 1} /\ D(5) \in {0, 1} /\ D(6) \in {0, 1} /\ D(7) \in {0, 1}
    <3> HIDE DEF D
    <3> QED
      BY <2>1, <2>2
  <2>4. n = D(0) + 2 * D(1) + 4 * D(2) + 8 * D(3) + 16 * D(4) + 32 * D(5) + 64 * D(6) + 128 * D(7)
    <3> HIDE DEF D
    <3> QED
      BY <2>2, BitsOfNumber
  <2>5. \A b \in 0 .. 7 : b \in y <=> D(b) = 1
    BY <2>1, BitOfByte
  <2> HIDE DEF D, y
  <2>6. /\ SV!Bit(y, 0) = D(0) /\ SV!Bit(y, 1) = 2 * D(1) /\ SV!Bit(y, 2) = 4 * D(2)
        /\ SV!Bit(y, 3) = 8 * D(3) /\ SV!Bit(y, 4) = 16 * D(4) /\ SV!Bit(y, 5) = 32 * D(5)
        /\ SV!Bit(y, 6) = 64 * D(6) /\ SV!Bit(y, 7) = 128 * D(7)
    BY <2>3, <2>5, Weights DEF SV!Bit
  <2> QED
    BY <2>4, <2>6 DEF SV!Val, y
<1>3. SV!Val(SV!Bits) = 255
  BY Weights DEF SV!Val, SV!Bit, SV!Bits
<1> QED
  BY <1>1, <1>2, <1>3

(* A byte is one number, and the byte of this number.                      *)
LEMMA OctetValue ==
    ASSUME NEW x \in Octets
    PROVE  SV!Val(x) \in 0 .. 255 /\ SV!Byte(SV!Val(x)) = x
  BY ByteNumber

(* The other way round, from a number.                                     *)
LEMMA ValueOctet ==
    ASSUME NEW n \in 0 .. 255
    PROVE  SV!Val(SV!Byte(n)) = n
  BY ByteNumber

(* The numbers of the first bytes of a block, from the first on.           *)
Numbers(num, q) ==
    /\ num \in [0 .. N -> Nat] /\ num[0] = 0
    /\ \A i \in 1 .. N : num[i] = 256 * num[i - 1] + SV!Val(q[i])
    /\ SV!Number(q) = num[N]

(* They exist.                                                             *)
LEMMA NumberDef ==
    ASSUME NEW q, IsBlock(q)
    PROVE  \E num : Numbers(num, q)
<1> DEFINE St(g, k) == 256 * g + SV!Val(q[k])
           F == [k \in 1 .. N |-> [x \in Nat |-> St(x, k)]]
           A(g) == g = [k \in 0 .. N |-> IF k = 0 THEN 0 ELSE St(g[k - 1], k)]
           num == CHOOSE g : A(g)
<1>1. N \in Nat
  BY BlockSize
<1>2. \A x \in Nat, k \in 1 .. N : St(x, k) \in Nat
  <2>1. ASSUME NEW k \in 1 .. N PROVE SV!Val(q[k]) \in Nat
    <3>1. q[k] \in Octets
      BY DEF IsBlock
    <3>2. SV!Val(q[k]) \in 0 .. 255
      BY <3>1, OctetValue
    <3> QED
      BY <3>2
  <2> QED
    BY <2>1
<1>4. SV!Number(q) = num[N]
  BY DEF SV!Number
<1> HIDE DEF St
<1>5. StepsOn(F, N, Nat)
  BY <1>2 DEF StepsOn
<1>6. PICK g : Leads(g, 0, F, N, Nat)
  <2> HIDE DEF F
  <2>1. 0 \in Nat
    OBVIOUS
  <2> QED
    BY <1>1, <1>5, <2>1, Recursion
<1>7. A(g)
  <2>1. ASSUME NEW k \in 0 .. N, k # 0 PROVE F[k][g[k - 1]] = St(g[k - 1], k)
    <3>1. k \in 1 .. N /\ k - 1 \in 0 .. N
      BY <1>1, <2>1
    <3>2. g[k - 1] \in Nat
      <4> HIDE DEF F
      <4> QED
        BY <1>6, <3>1 DEF Leads
    <3> QED
      BY <3>1, <3>2
  <2> HIDE DEF F
  <2> QED
    BY <1>6, <2>1 DEF Leads
<1>8. A(num)
  BY <1>7
<1> HIDE DEF num
<1>9. num[0] = 0 /\ \A k \in 1 .. N : num[k] = St(num[k - 1], k)
  BY <1>1, <1>8
<1>10. \A k \in 0 .. N : num[k] \in Nat
  <2> DEFINE S == {k \in Nat : k <= N => num[k] \in Nat}
  <2>1. 0 \in S
    BY <1>9
  <2>2. ASSUME NEW k \in S PROVE k + 1 \in S
    <3>1. k \in Nat /\ (k + 1) - 1 = k /\ k + 1 \in Nat
      OBVIOUS
    <3>2. ASSUME k + 1 <= N PROVE num[k + 1] \in Nat
      <4>1. k + 1 \in 1 .. N /\ num[k] \in Nat
        BY <1>1, <3>1, <3>2
      <4>2. num[k + 1] = St(num[k], k + 1)
        BY <1>9, <3>1, <4>1
      <4> QED
        BY <1>2, <4>1, <4>2
    <3> QED
      BY <3>1, <3>2
  <2> HIDE DEF S
  <2>3. S = Nat
    BY <2>1, <2>2, Induction DEF S
  <2> QED
    BY <2>3, <1>1 DEF S
<1>11. num \in [0 .. N -> Nat]
  BY <1>8, <1>10
<1>12. Numbers(num, q)
  BY <1>4, <1>9, <1>11 DEF St, Numbers
<1> QED
  BY <1>12

(* A number, divided by 256 again and again.                               *)
Quotients(quot, x) ==
    /\ quot \in [0 .. N -> Nat] /\ quot[0] = x
    /\ \A k \in 1 .. N : quot[k] = quot[k - 1] \div 256
    /\ SV!Digits(x) = [i \in 1 .. N |-> SV!Byte(quot[N - i] % 256)]

(* They exist, too.                                                        *)
LEMMA DigitsDef ==
    ASSUME NEW x \in Nat
    PROVE  \E quot : Quotients(quot, x)
<1> DEFINE St(g) == g \div 256
           F == [k \in 1 .. N |-> [g \in Nat |-> St(g)]]
           A(g) == g = [k \in 0 .. N |-> IF k = 0 THEN x ELSE St(g[k - 1])]
           quot == CHOOSE g : A(g)
<1>1. N \in Nat
  BY BlockSize
<1>2. \A y \in Nat : St(y) \in Nat
  OBVIOUS
<1>4. SV!Digits(x) = [i \in 1 .. N |-> SV!Byte(quot[N - i] % 256)]
  BY DEF SV!Digits
<1> HIDE DEF St
<1>5. StepsOn(F, N, Nat)
  BY <1>2 DEF StepsOn
<1>6. PICK g : Leads(g, x, F, N, Nat)
  <2> HIDE DEF F
  <2> QED
    BY <1>1, <1>5, Recursion
<1>7. A(g)
  <2>1. ASSUME NEW k \in 0 .. N, k # 0 PROVE F[k][g[k - 1]] = St(g[k - 1])
    <3>1. k \in 1 .. N /\ k - 1 \in 0 .. N
      BY <1>1, <2>1
    <3>2. g[k - 1] \in Nat
      <4> HIDE DEF F
      <4> QED
        BY <1>6, <3>1 DEF Leads
    <3> QED
      BY <3>1, <3>2
  <2> HIDE DEF F
  <2> QED
    BY <1>6, <2>1 DEF Leads
<1>8. A(quot)
  BY <1>7
<1> HIDE DEF quot
<1>9. quot[0] = x /\ \A k \in 1 .. N : quot[k] = St(quot[k - 1])
  BY <1>1, <1>8
<1>10. \A k \in 0 .. N : quot[k] \in Nat
  <2> DEFINE S == {k \in Nat : k <= N => quot[k] \in Nat}
  <2>1. 0 \in S
    BY <1>9
  <2>2. ASSUME NEW k \in S PROVE k + 1 \in S
    <3>1. k \in Nat /\ (k + 1) - 1 = k /\ k + 1 \in Nat
      OBVIOUS
    <3>2. ASSUME k + 1 <= N PROVE quot[k + 1] \in Nat
      <4>1. k + 1 \in 1 .. N /\ quot[k] \in Nat
        BY <1>1, <3>1, <3>2
      <4>2. quot[k + 1] = St(quot[k])
        BY <1>9, <3>1, <4>1
      <4> QED
        BY <1>2, <4>1, <4>2
    <3> QED
      BY <3>1, <3>2
  <2> HIDE DEF S
  <2>3. S = Nat
    BY <2>1, <2>2, Induction DEF S
  <2> QED
    BY <2>3, <1>1 DEF S
<1>11. quot \in [0 .. N -> Nat]
  BY <1>8, <1>10
<1>12. Quotients(quot, x)
  BY <1>4, <1>9, <1>11 DEF St, Quotients
<1> QED
  BY <1>12

(* The bytes of the number of a block are the block.                       *)
LEMMA DigitsOfNumber ==
    ASSUME NEW q, IsBlock(q)
    PROVE  SV!Number(q) \in Nat /\ SV!Digits(SV!Number(q)) = q
<1>1. PICK num : Numbers(num, q)
  BY NumberDef
<1> DEFINE x == SV!Number(q)
<1>2. N \in Nat /\ N \in 0 .. N
  BY BlockSize
<1>3. x \in Nat /\ x = num[N]
  BY <1>1, <1>2 DEF Numbers
<1> HIDE DEF x
<1>4. PICK quot : Quotients(quot, x)
  BY <1>3, DigitsDef
<1>5. ASSUME NEW i \in 1 .. N
      PROVE  /\ num[i] \in Nat /\ num[i - 1] \in Nat /\ SV!Val(q[i]) \in 0 .. 255
             /\ num[i] \div 256 = num[i - 1] /\ num[i] % 256 = SV!Val(q[i])
             /\ SV!Byte(SV!Val(q[i])) = q[i]
  <2>1. i \in 0 .. N /\ i - 1 \in 0 .. N
    BY <1>2
  <2>2. num[i] \in Nat /\ num[i - 1] \in Nat /\ num[i] = 256 * num[i - 1] + SV!Val(q[i])
    BY <1>1, <2>1 DEF Numbers
  <2>3. SV!Val(q[i]) \in 0 .. 255 /\ SV!Byte(SV!Val(q[i])) = q[i]
    <3>1. q[i] \in Octets
      BY DEF IsBlock
    <3> QED
      BY <3>1, OctetValue
  <2> DEFINE a == num[i]
             b == num[i - 1]
             c == SV!Val(q[i])
  <2>4. a \in Nat /\ b \in Nat /\ c \in 0 .. 255 /\ a = 256 * b + c
    BY <2>2, <2>3
  <2> HIDE DEF a, b, c
  <2>5. a \div 256 = b /\ a % 256 = c
    BY ONLY <2>4
  <2> QED
    BY <2>2, <2>3, <2>5 DEF a, b, c
<1> DEFINE S == {k \in Nat : k <= N => quot[k] = num[N - k]}
<1>6. 0 \in S
  BY <1>2, <1>3, <1>4 DEF Quotients
<1>7. ASSUME NEW k \in S PROVE k + 1 \in S
  <2>1. k \in Nat /\ k + 1 \in Nat /\ (k + 1) - 1 = k
    OBVIOUS
  <2>2. ASSUME k + 1 <= N PROVE quot[k + 1] = num[N - (k + 1)]
    <3>1. k + 1 \in 1 .. N /\ k <= N /\ N - k \in 1 .. N /\ (N - k) - 1 = N - (k + 1)
      BY <1>2, <2>1, <2>2
    <3>2. quot[k + 1] = quot[k] \div 256 /\ quot[k] = num[N - k]
      BY <1>4, <2>1, <3>1 DEF Quotients
    <3>3. num[N - k] \div 256 = num[(N - k) - 1]
      BY <1>5, <3>1
    <3> QED
      BY <3>1, <3>2, <3>3
  <2> QED
    BY <2>1, <2>2
<1> HIDE DEF S
<1>8. S = Nat
  BY <1>6, <1>7, Induction DEF S
<1>9. \A i \in 1 .. N : SV!Byte(quot[N - i] % 256) = q[i]
  <2> TAKE i \in 1 .. N
  <2>1. N - i \in Nat /\ N - i <= N /\ N - (N - i) = i
    BY <1>2
  <2>2. quot[N - i] = num[i]
    BY <1>8, <2>1 DEF S
  <2> QED
    BY <1>5, <2>2
<1>10. SV!Digits(x) = q
  BY <1>4, <1>9 DEF Quotients, IsBlock
<1> QED
  BY <1>3, <1>10 DEF x

(* The code's increment is addition of one.                                *)
LEMMA IncrementIs ==
    ASSUME NEW x \in Nat
    PROVE  /\ IsBlock(SV!Digits(x))
           /\ SV!Increment(SV!Digits(x)) = SV!Digits(x + 1)
<1>1. PICK q : Quotients(q, x)
  BY DigitsDef
<1>2. PICK r : Quotients(r, x + 1)
  BY DigitsDef
<1>3. N \in Nat
  BY BlockSize
<1> DEFINE d == SV!Digits(x)
           Full(k) == \A l \in 0 .. k - 1 : q[l] % 256 = 255
           S == {k \in Nat : k <= N => r[k] = IF Full(k) THEN q[k] + 1 ELSE q[k]}
<1>4. 0 \in S
  BY <1>1, <1>2 DEF Quotients
<1>5. ASSUME NEW k \in S PROVE k + 1 \in S
  <2>1. k \in Nat /\ k + 1 \in Nat /\ (k + 1) - 1 = k
    OBVIOUS
  <2>2. ASSUME k + 1 <= N PROVE r[k + 1] = IF Full(k + 1) THEN q[k + 1] + 1 ELSE q[k + 1]
    <3>1. k + 1 \in 1 .. N /\ k <= N /\ k \in 0 .. N
      BY <1>3, <2>1, <2>2
    <3>2. /\ r[k + 1] = r[k] \div 256 /\ q[k + 1] = q[k] \div 256 /\ q[k] \in Nat
          /\ r[k] = IF Full(k) THEN q[k] + 1 ELSE q[k]
      BY <1>1, <1>2, <2>1, <3>1, SMTT(30) DEF Quotients
    <3>3. Full(k + 1) <=> Full(k) /\ q[k] % 256 = 255
      <4>1. \A l : l \in 0 .. (k + 1) - 1 <=> l \in 0 .. k - 1 \/ l = k
        BY <2>1
      <4> QED
        BY <4>1
    <3> DEFINE a == q[k]
    <3>4. a \in Nat /\ (a + 1) \div 256 = (IF a % 256 = 255 THEN a \div 256 + 1 ELSE a \div 256)
      <4>1. a \in Nat
        BY <3>2
      <4> HIDE DEF a
      <4> QED
        BY ONLY <4>1
    <3> HIDE DEF Full
    <3> QED
      BY <3>2, <3>3, <3>4
  <2> QED
    BY <2>1, <2>2
<1> HIDE DEF S
<1>6. S = Nat
  BY <1>4, <1>5, Induction DEF S
<1>7. d = [i \in 1 .. N |-> SV!Byte(q[N - i] % 256)]
      /\ SV!Digits(x + 1) = [i \in 1 .. N |-> SV!Byte(r[N - i] % 256)]
  BY <1>1, <1>2 DEF Quotients
<1>8. ASSUME NEW l \in 0 .. N PROVE q[l] \in Nat /\ q[l] % 256 \in 0 .. 255
  <2> DEFINE a == q[l]
  <2>1. a \in Nat
    BY <1>1 DEF Quotients
  <2> HIDE DEF a
  <2>2. a % 256 \in 0 .. 255
    BY ONLY <2>1
  <2> QED
    BY <2>1, <2>2 DEF a
<1>9. \A i \in 1 .. N : N - i \in 0 .. N
  BY <1>3
<1>10. IsBlock(d)
  <2>1. \A i \in 1 .. N : SV!Byte(q[N - i] % 256) \in Octets
    <3> TAKE i \in 1 .. N
    <3>1. q[N - i] % 256 \in Nat
      BY <1>8, <1>9
    <3> QED
      BY <3>1, BitOfByte
  <2> HIDE DEF d
  <2> QED
    BY <1>7, <2>1 DEF IsBlock
<1>11. ASSUME NEW i \in 1 .. N
       PROVE  d[i] = SV!Byte(q[N - i] % 256) /\ SV!Val(d[i]) = q[N - i] % 256
              /\ (d[i] = SV!Bits <=> q[N - i] % 256 = 255)
  <2>1. d[i] = SV!Byte(q[N - i] % 256)
    BY <1>7
  <2>2. SV!Val(d[i]) = q[N - i] % 256
    <3>1. q[N - i] % 256 \in 0 .. 255
      BY <1>8, <1>9
    <3> HIDE DEF d
    <3> QED
      BY <2>1, <3>1, ValueOctet
  <2>3. SV!Bits \in Octets /\ d[i] \in Octets
    BY <1>10 DEF Octets, IsBlock
  <2>4. SV!Byte(255) = SV!Bits
    BY <2>3, ByteNumber
  <2> HIDE DEF d
  <2> QED
    BY <2>1, <2>2, <2>4, ByteNumber
<1>12. ASSUME NEW i \in 1 .. N
       PROVE  (\A j \in i + 1 .. N : d[j] = SV!Bits) <=> Full(N - i)
  <2>1. \A j \in i + 1 .. N : j \in 1 .. N /\ N - j \in 0 .. (N - i) - 1
    BY <1>3
  <2>2. \A l \in 0 .. (N - i) - 1 : N - l \in i + 1 .. N /\ N - (N - l) = l
    BY <1>3
  <2> HIDE DEF d
  <2>3. ASSUME Full(N - i), NEW j \in i + 1 .. N PROVE d[j] = SV!Bits
    BY <1>11, <2>1, <2>3
  <2>4. ASSUME \A j \in i + 1 .. N : d[j] = SV!Bits, NEW l \in 0 .. (N - i) - 1
        PROVE  q[l] % 256 = 255
    BY <1>11, <2>1, <2>2, <2>4
  <2> QED
    BY <2>3, <2>4
<1>13. ASSUME NEW i \in 1 .. N
       PROVE  (IF \A j \in i + 1 .. N : d[j] = SV!Bits
               THEN SV!Byte((SV!Val(d[i]) + 1) % 256) ELSE d[i]) = SV!Byte(r[N - i] % 256)
  <2> DEFINE a == q[N - i]
  <2>1. r[N - i] = IF Full(N - i) THEN a + 1 ELSE a
    <3>1. N - i \in Nat /\ N - i <= N
      BY <1>3
    <3> HIDE DEF Full
    <3> QED
      BY <1>6, <3>1 DEF S
  <2>2. a \in Nat /\ ((a % 256) + 1) % 256 = (a + 1) % 256
    <3>1. a \in Nat
      BY <1>8, <1>9
    <3> HIDE DEF a
    <3> QED
      BY ONLY <3>1
  <2> HIDE DEF Full, d
  <2> QED
    BY <1>11, <1>12, <2>1, <2>2
<1>14. SV!Increment(d) = SV!Digits(x + 1)
  <2> HIDE DEF d
  <2> QED
    BY <1>7, <1>13, ZenonT(40) DEF SV!Increment
<1> QED
  BY <1>10, <1>14

(* Counters are blocks.                                                    *)
LEMMA CounterType ==
    /\ \A v : IsBlock(v) => IsBlock(SV!Increment(v))
    /\ \A v : IsBlock(v) => IsBlock(SV!Mask(v))
<1>1. ASSUME NEW v, IsBlock(v) PROVE IsBlock(SV!Increment(v))
  <2>1. ASSUME NEW i \in 1 .. N PROVE v[i] \in Octets /\ SV!Byte((SV!Val(v[i]) + 1) % 256) \in Octets
    <3>1. v[i] \in Octets
      BY <1>1 DEF IsBlock
    <3>2. SV!Val(v[i]) \in 0 .. 255
      BY <3>1, OctetValue
    <3>3. (SV!Val(v[i]) + 1) % 256 \in Nat
      BY <3>2
    <3> QED
      BY <3>1, <3>3, BitOfByte
  <2> QED
    BY <2>1 DEF SV!Increment, IsBlock
<1>2. ASSUME NEW v, IsBlock(v) PROVE IsBlock(SV!Mask(v))
  <2>1. \A i \in 1 .. N : v[i] \in Octets /\ v[i] \ {7} \in Octets
    BY <1>2 DEF IsBlock, Octets
  <2> QED
    BY <2>1 DEF SV!Mask, IsBlock
<1> QED
  BY <1>1, <1>2

(* The states of the loop of siv_ctr.                                      *)
CtrStates == [cnt : [1 .. N -> Octets], blk : [1 .. N -> Octets], j : 0 .. N, dst : Seq(Octets)]

(* What a turn does to each part of it.                                    *)
NextCnt(s) == IF s.j >= N THEN SV!Increment(s.cnt) ELSE s.cnt
NextBlk(s) == IF s.j >= N THEN SV!Encrypt(s.cnt) ELSE s.blk
Offs(s) == IF s.j >= N THEN 0 ELSE s.j

(* The turn, part by part.                                                 *)
LEMMA CtrByteIs ==
    ASSUME NEW s \in CtrStates, NEW b \in Octets
    PROVE  /\ SV!CtrByte(s, b) = [cnt |-> NextCnt(s), blk |-> NextBlk(s), j |-> Offs(s) + 1,
                                  dst |-> Append(s.dst, SV!Xor(b, NextBlk(s)[Offs(s) + 1]))]
           /\ SV!CtrByte(s, b) \in CtrStates
<1> DEFINE t == IF s.j >= N THEN [s EXCEPT !.blk = SV!Encrypt(s.cnt), !.cnt = SV!Increment(@), !.j = 0]
                ELSE s
<1>1. SV!CtrByte(s, b) = [t EXCEPT !.dst = Append(@, SV!Xor(b, t.blk[t.j + 1])), !.j = @ + 1]
  BY DEF SV!CtrByte
<1>2. s = [cnt |-> s.cnt, blk |-> s.blk, j |-> s.j, dst |-> s.dst]
  BY DEF CtrStates
<1>3. t = [cnt |-> NextCnt(s), blk |-> NextBlk(s), j |-> Offs(s), dst |-> s.dst]
  BY <1>2 DEF NextCnt, NextBlk, Offs
<1> HIDE DEF t
<1>4. /\ t.cnt = NextCnt(s) /\ t.blk = NextBlk(s) /\ t.j = Offs(s) /\ t.dst = s.dst
      /\ t = [cnt |-> t.cnt, blk |-> t.blk, j |-> t.j, dst |-> t.dst]
  BY <1>3
<1>5. SV!CtrByte(s, b) = [cnt |-> t.cnt, blk |-> t.blk, j |-> t.j + 1,
                          dst |-> Append(t.dst, SV!Xor(b, t.blk[t.j + 1]))]
  BY <1>1, <1>4
<1>6. /\ NextCnt(s) \in [1 .. N -> Octets] /\ NextBlk(s) \in [1 .. N -> Octets]
      /\ Offs(s) \in 0 .. N - 1 /\ Offs(s) + 1 \in 1 .. N
  <2>1. s.cnt \in [1 .. N -> Octets] /\ s.blk \in [1 .. N -> Octets] /\ s.j \in 0 .. N
    BY DEF CtrStates
  <2>2. SV!Increment(s.cnt) \in [1 .. N -> Octets] /\ SV!Encrypt(s.cnt) \in [1 .. N -> Octets]
    BY <2>1, CounterType, BlockOps DEF IsBlock
  <2> QED
    BY <2>1, <2>2, BlockSize DEF NextCnt, NextBlk, Offs
<1>7. SV!Xor(b, NextBlk(s)[Offs(s) + 1]) \in Octets
  BY <1>6, Octet
<1>8. Append(s.dst, SV!Xor(b, NextBlk(s)[Offs(s) + 1])) \in Seq(Octets)
  <2>1. s.dst \in Seq(Octets)
    BY DEF CtrStates
  <2> QED
    BY <1>7, <2>1
<1>9. Offs(s) + 1 \in 0 .. N
  BY <1>6, BlockSize
<1>10. SV!CtrByte(s, b) = [cnt |-> NextCnt(s), blk |-> NextBlk(s), j |-> Offs(s) + 1,
                           dst |-> Append(s.dst, SV!Xor(b, NextBlk(s)[Offs(s) + 1]))]
  BY <1>4, <1>5
<1> QED
  BY <1>6, <1>8, <1>9, <1>10 DEF CtrStates

(* The loop of siv_ctr, turn by turn.                                      *)
CtrTurns(at, p, v) ==
    /\ at[0] = [cnt |-> SV!Mask(v), blk |-> SV!Zeros(N), j |-> N, dst |-> <<>>]
    /\ \A k \in 1 .. Len(p) : at[k] = SV!CtrByte(at[k - 1], p[k])
    /\ \A k \in 0 .. Len(p) : at[k] \in CtrStates
    /\ SV!siv_ctr(p, v) = at[Len(p)].dst

(* These states exist, turn by turn.                                       *)
LEMMA CtrDef ==
    ASSUME NEW p, IsBytes(p), NEW v, IsBlock(v)
    PROVE  \E at : CtrTurns(at, p, v)
<1> DEFINE n == Len(p)
           z == [cnt |-> SV!Mask(v), blk |-> SV!Zeros(N), j |-> N, dst |-> <<>>]
           St(g, k) == SV!CtrByte(g, p[k])
           F == [k \in 1 .. n |-> [x \in CtrStates |-> St(x, k)]]
           A(g) == g = [k \in 0 .. n |-> IF k = 0 THEN z ELSE St(g[k - 1], k)]
           at == CHOOSE g : A(g)
<1>1. n \in Nat
  BY DEF IsBytes
<1>2. ASSUME NEW x \in CtrStates, NEW k \in 1 .. n PROVE St(x, k) \in CtrStates
  <2>1. p[k] \in Octets
    BY DEF IsBytes
  <2> QED
    BY <2>1, CtrByteIs
<1>3. z \in CtrStates
  <2>1. SV!Mask(v) \in [1 .. N -> Octets] /\ SV!Zeros(N) \in [1 .. N -> Octets]
    BY CounterType, BlockOps DEF IsBlock
  <2>2. N \in 0 .. N /\ <<>> \in Seq(Octets)
    BY BlockSize
  <2> QED
    BY <2>1, <2>2 DEF CtrStates
<1>4. SV!siv_ctr(p, v) = at[n].dst
  BY DEF SV!siv_ctr
<1> HIDE DEF St, n, z
<1>5. StepsOn(F, n, CtrStates)
  BY <1>2 DEF StepsOn
<1>6. PICK g : Leads(g, z, F, n, CtrStates)
  <2> HIDE DEF F
  <2> QED
    BY <1>1, <1>3, <1>5, Recursion
<1>7. A(g)
  <2>1. ASSUME NEW k \in 0 .. n, k # 0 PROVE F[k][g[k - 1]] = St(g[k - 1], k)
    <3>1. k \in 1 .. n /\ k - 1 \in 0 .. n
      BY <1>1, <2>1
    <3>2. g[k - 1] \in CtrStates
      <4> HIDE DEF F
      <4> QED
        BY <1>6, <3>1 DEF Leads
    <3> QED
      BY <3>1, <3>2
  <2> HIDE DEF F
  <2> QED
    BY <1>6, <2>1 DEF Leads
<1>8. A(at)
  BY <1>7
<1> HIDE DEF at
<1>9. at[0] = z /\ \A k \in 1 .. n : at[k] = St(at[k - 1], k)
  BY <1>1, <1>8
<1>10. \A k \in 0 .. n : at[k] \in CtrStates
  <2> DEFINE S == {k \in Nat : k <= n => at[k] \in CtrStates}
  <2>1. 0 \in S
    BY <1>3, <1>9
  <2>2. ASSUME NEW k \in S PROVE k + 1 \in S
    <3>1. k \in Nat /\ (k + 1) - 1 = k /\ k + 1 \in Nat
      OBVIOUS
    <3>2. ASSUME k + 1 <= n PROVE at[k + 1] \in CtrStates
      <4>1. k + 1 \in 1 .. n /\ at[k] \in CtrStates
        BY <1>1, <3>1, <3>2
      <4>2. at[k + 1] = St(at[k], k + 1)
        BY <1>9, <3>1, <4>1
      <4> QED
        BY <1>2, <4>1, <4>2
    <3> QED
      BY <3>1, <3>2
  <2> HIDE DEF S
  <2>3. S = Nat
    BY <2>1, <2>2, Induction DEF S
  <2> QED
    BY <2>3, <1>1 DEF S
<1>11. CtrTurns(at, p, v)
  BY <1>4, <1>9, <1>10 DEF St, n, z, CtrTurns
<1> QED
  BY <1>11

(* A byte of the result of RFC 5297.                                       *)
CtrOut(p, v, i) ==
    SV!Xor(p[i], SV!Encrypt(SV!Plus(SV!Mask(v), (i - 1) \div N))[1 + ((i - 1) % N)])

(* The state s of the loop after k bytes of p: n blocks of key stream are  *)
(* made, and j bytes of the last are used.                                 *)
CtrIn(s, p, v, k, n) ==
    /\ s \in CtrStates /\ s.j \in 1 .. N
    /\ k + N = n * N + s.j
    /\ s.cnt = SV!Plus(SV!Mask(v), n)
    /\ k > 0 => s.blk = SV!Encrypt(SV!Plus(SV!Mask(v), n - 1))
    /\ s.dst = [i \in 1 .. k |-> CtrOut(p, v, i)]

CtrHas(s, p, v, k) == \E n \in Nat : CtrIn(s, p, v, k, n)

(* The masked tag, and the counter that is one more.                       *)
LEMMA PlusIs ==
    ASSUME NEW v, IsBlock(v), NEW n \in Nat
    PROVE  /\ SV!Plus(SV!Mask(v), 0) = SV!Mask(v)
           /\ SV!Increment(SV!Plus(SV!Mask(v), n)) = SV!Plus(SV!Mask(v), n + 1)
           /\ IsBlock(SV!Plus(SV!Mask(v), n))
<1> DEFINE q == SV!Mask(v)
           x == SV!Number(q)
<1>1. x \in Nat /\ SV!Digits(x) = q
  <2>1. IsBlock(q)
    BY CounterType
  <2> HIDE DEF q
  <2> QED
    BY <2>1, DigitsOfNumber
<1> HIDE DEF x, q
<1>2. x + 0 = x /\ x + n \in Nat /\ (x + n) + 1 = x + (n + 1)
  BY <1>1
<1>3. SV!Increment(SV!Digits(x + n)) = SV!Digits((x + n) + 1) /\ IsBlock(SV!Digits(x + n))
  BY <1>2, IncrementIs
<1> QED
  BY <1>1, <1>2, <1>3 DEF SV!Plus, x, q

(* A turn of the loop: the counter goes on only when a block is used up.   *)
LEMMA CtrByteTakes ==
    ASSUME NEW p, IsBytes(p), NEW v, IsBlock(v), NEW k \in Nat, k < Len(p),
           NEW s, CtrHas(s, p, v, k)
    PROVE  CtrHas(SV!CtrByte(s, p[k + 1]), p, v, k + 1)
<1>1. PICK n \in Nat : CtrIn(s, p, v, k, n)
  BY DEF CtrHas
<1> DEFINE e == SV!CtrByte(s, p[k + 1])
           q == SV!Mask(v)
           x == SV!Xor(p[k + 1], NextBlk(s)[Offs(s) + 1])
           j == s.j
<1>2. p[k + 1] \in Octets
  BY DEF IsBytes
<1>3. e \in CtrStates /\ e = [cnt |-> NextCnt(s), blk |-> NextBlk(s), j |-> Offs(s) + 1,
                              dst |-> Append(s.dst, x)]
  BY <1>1, <1>2, CtrByteIs DEF CtrIn
<1> HIDE DEF e
<1>4. e.cnt = NextCnt(s) /\ e.blk = NextBlk(s) /\ e.j = Offs(s) + 1 /\ e.dst = Append(s.dst, x)
  BY <1>3
<1>5. j \in 1 .. N /\ k + N = n * N + j /\ N \in Nat \ {0} /\ n * N \in Nat
  <2>1. j \in 1 .. N /\ k + N = n * N + j
    BY <1>1 DEF CtrIn
  <2>2. n * N \in Nat
    BY BlockSize
  <2> QED
    BY <2>1, <2>2, BlockSize
<1>6. s.dst = [i \in 1 .. k |-> CtrOut(p, v, i)]
  BY <1>1 DEF CtrIn
<1>7. ASSUME x = CtrOut(p, v, k + 1) PROVE e.dst = [i \in 1 .. k + 1 |-> CtrOut(p, v, i)]
  <2> DEFINE d == s.dst
  <2>1. d = [i \in 1 .. k |-> d[i]] /\ \A i \in 1 .. k : d[i] = CtrOut(p, v, i)
    BY <1>6
  <2> HIDE DEF d, x
  <2>2. Append(d, x) = [i \in 1 .. k + 1 |-> IF i = k + 1 THEN x ELSE d[i]]
    BY <2>1, AppendAny
  <2>3. \A i \in 1 .. k + 1 : (IF i = k + 1 THEN x ELSE d[i]) = CtrOut(p, v, i)
    BY <1>7, <2>1
  <2> QED
    BY <1>4, <2>2, <2>3 DEF d
<1>8. CASE j = N
  <2>1. NextCnt(s) = SV!Increment(s.cnt) /\ NextBlk(s) = SV!Encrypt(s.cnt) /\ Offs(s) = 0
    BY <1>5, <1>8 DEF NextCnt, NextBlk, Offs
  <2>2. s.cnt = SV!Plus(q, n)
    BY <1>1 DEF CtrIn
  <2>3. k = n * N + 0 /\ 0 \in 0 .. N - 1 /\ (n + 1) * N = n * N + N /\ (n + 1) - 1 = n
    BY <1>5, <1>8
  <2>4. e.cnt = SV!Plus(q, n + 1) /\ e.blk = SV!Encrypt(SV!Plus(q, (n + 1) - 1)) /\ e.j = 1
    <3>1. SV!Increment(SV!Plus(q, n)) = SV!Plus(q, n + 1)
      BY PlusIs
    <3> QED
      BY <1>4, <2>1, <2>2, <2>3, <3>1
  <2>5. ((k + 1) - 1) \div N = n /\ ((k + 1) - 1) % N = 0
    <3>1. (n * N + 0) \div N = n /\ (n * N + 0) % N = 0
      BY <1>5, <2>3, Blocks, ZenonT(40)
    <3> QED
      BY <2>3, <3>1
  <2>6. x = CtrOut(p, v, k + 1)
    BY <2>1, <2>2, <2>5 DEF CtrOut
  <2>7. (k + 1) + N = (n + 1) * N + e.j /\ e.j \in 1 .. N
    <3> DEFINE a == n * N
               b == (n + 1) * N
    <3>1. a \in Nat /\ k = a /\ b = a + N /\ e.j = 1 /\ N \in Nat \ {0}
      BY <1>5, <2>3, <2>4
    <3> HIDE DEF a, b
    <3>2. (k + 1) + N = b + e.j /\ e.j \in 1 .. N
      BY ONLY <3>1
    <3> QED
      BY <3>2 DEF b
  <2> HIDE DEF x, q
  <2>8. CtrIn(e, p, v, k + 1, n + 1)
    BY <1>3, <1>7, <2>4, <2>6, <2>7 DEF CtrIn, q
  <2> QED
    BY <2>8 DEF CtrHas, e
<1>9. CASE j < N
  <2>1. NextCnt(s) = s.cnt /\ NextBlk(s) = s.blk /\ Offs(s) = j
    BY <1>5, <1>9 DEF NextCnt, NextBlk, Offs
  <2>2. n # 0
    BY <1>5, <1>9
  <2>3. n - 1 \in Nat /\ k = (n - 1) * N + j /\ j \in 0 .. N - 1 /\ k > 0
    <3>1. n - 1 \in Nat /\ n * N = (n - 1) * N + N /\ (n - 1) * N \in Nat
      BY <1>5, <2>2
    <3> DEFINE a == n * N
               b == (n - 1) * N
    <3>2. a \in Nat /\ b \in Nat /\ a = b + N /\ k + N = a + j /\ j \in 1 .. N /\ N \in Nat
      BY <1>5, <3>1
    <3> HIDE DEF a, b, j
    <3>3. k = b + j /\ k > 0
      BY ONLY <3>2, k \in Nat
    <3> QED
      BY <1>5, <1>9, <3>1, <3>3 DEF b
  <2>4. s.blk = SV!Encrypt(SV!Plus(q, n - 1)) /\ s.cnt = SV!Plus(q, n)
    BY <1>1, <2>3 DEF CtrIn
  <2>5. ((k + 1) - 1) \div N = n - 1 /\ ((k + 1) - 1) % N = j
    <3>1. ((n - 1) * N + j) \div N = n - 1 /\ ((n - 1) * N + j) % N = j
      <4> DEFINE m == n - 1
      <4>1. m \in Nat
        BY <2>3
      <4> HIDE DEF m, j
      <4>2. (m * N + j) \div N = m /\ (m * N + j) % N = j
        BY <1>5, <2>3, <4>1, Blocks
      <4> QED
        BY <4>2 DEF m
    <3>2. (k + 1) - 1 = k
      OBVIOUS
    <3> HIDE DEF j
    <3> QED
      BY <2>3, <3>1, <3>2
  <2>6. x = CtrOut(p, v, k + 1)
    <3>1. 1 + j = j + 1
      BY <1>5
    <3> QED
      BY <2>1, <2>4, <2>5, <3>1 DEF CtrOut
  <2>7. (k + 1) + N = n * N + e.j /\ e.j \in 1 .. N
    <3>1. e.j = j + 1
      BY <1>4, <2>1
    <3> DEFINE a == n * N
    <3>2. a \in Nat /\ k + N = a + j
      BY <1>5
    <3> HIDE DEF a, j
    <3> QED
      BY <1>5, <1>9, <3>1, <3>2
  <2>8. e.cnt = SV!Plus(q, n) /\ e.blk = SV!Encrypt(SV!Plus(q, n - 1))
    BY <1>4, <2>1, <2>4
  <2> HIDE DEF x, q
  <2>9. CtrIn(e, p, v, k + 1, n)
    BY <1>3, <1>7, <2>6, <2>7, <2>8 DEF CtrIn, q
  <2> QED
    BY <2>9 DEF CtrHas, e
<1> QED
  BY <1>5, <1>8, <1>9

(* siv_ctr is the counter mode of RFC 5297.                                *)
LEMMA CtrIs ==
    ASSUME NEW p, IsBytes(p), NEW v, IsBlock(v)
    PROVE  /\ SV!siv_ctr(p, v) = SV!Ctr(p, v)
           /\ SV!Ctr(p, v) = [i \in 1 .. Len(p) |-> CtrOut(p, v, i)]
           /\ SV!Ctr(p, v) \in [1 .. Len(p) -> Octets]
<1> DEFINE len == Len(p)
           q == SV!Mask(v)
<1>1. SV!Ctr(p, v) = [i \in 1 .. len |-> CtrOut(p, v, i)]
  BY DEF SV!Ctr, CtrOut
<1>2. PICK at : CtrTurns(at, p, v)
  BY CtrDef
<1>3. len \in Nat /\ N \in Nat \ {0}
  BY BlockSize DEF IsBytes
<1>4. CtrHas(at[0], p, v, 0)
  <2> DEFINE s == at[0]
  <2>1. s \in CtrStates
    BY <1>2, <1>3 DEF CtrTurns
  <2>2. s.cnt = q /\ s.j = N /\ s.dst = <<>>
    BY <1>2 DEF CtrTurns
  <2> HIDE DEF s
  <2>3. 0 + N = 0 * N + s.j /\ s.j \in 1 .. N
    BY <1>3, <2>2
  <2>4. s.cnt = SV!Plus(q, 0)
    BY <2>2, PlusIs
  <2>5. s.dst = [i \in 1 .. 0 |-> CtrOut(p, v, i)]
    BY <2>2
  <2>6. CtrIn(s, p, v, 0, 0)
    BY <2>1, <2>3, <2>4, <2>5 DEF CtrIn
  <2> QED
    BY <2>6 DEF CtrHas, s
<1> DEFINE S == {k \in Nat : k <= len => CtrHas(at[k], p, v, k)}
<1>5. 0 \in S
  BY <1>4
<1>6. ASSUME NEW k \in S PROVE k + 1 \in S
  <2>1. k \in Nat /\ (k + 1) - 1 = k /\ k + 1 \in Nat
    OBVIOUS
  <2>2. ASSUME k + 1 <= len PROVE CtrHas(at[k + 1], p, v, k + 1)
    <3>1. k + 1 \in 1 .. len /\ k < len /\ k <= len
      <4> HIDE DEF len
      <4> QED
        BY <1>3, <2>1, <2>2
    <3>2. at[k + 1] = SV!CtrByte(at[k], p[k + 1])
      BY <1>2, <2>1, <3>1 DEF CtrTurns
    <3>3. CtrHas(at[k], p, v, k)
      BY <3>1
    <3> QED
      BY <2>1, <3>1, <3>2, <3>3, CtrByteTakes
  <2> QED
    BY <2>1, <2>2
<1> HIDE DEF S
<1>7. S = Nat
  BY <1>5, <1>6, Induction DEF S
<1>8. CtrHas(at[len], p, v, len)
  BY <1>3, <1>7 DEF S
<1>9. SV!siv_ctr(p, v) = [i \in 1 .. len |-> CtrOut(p, v, i)] /\ at[len].dst \in Seq(Octets)
  <2>1. PICK n \in Nat : CtrIn(at[len], p, v, len, n)
    BY <1>8 DEF CtrHas
  <2>2. at[len].dst = [i \in 1 .. len |-> CtrOut(p, v, i)] /\ at[len] \in CtrStates
    BY <2>1 DEF CtrIn
  <2>3. SV!siv_ctr(p, v) = at[len].dst
    BY <1>2 DEF CtrTurns
  <2> QED
    BY <2>2, <2>3 DEF CtrStates
<1>10. SV!Ctr(p, v) \in [1 .. len -> Octets]
  <2> DEFINE d == at[len].dst
  <2>1. d \in Seq(Octets)
    BY <1>9
  <2>2. d = SV!Ctr(p, v)
    BY <1>1, <1>2, <1>9 DEF CtrTurns
  <2>3. DOMAIN d = 1 .. len
    BY <1>1, <2>2
  <2> HIDE DEF d
  <2> QED
    BY <1>3, <2>1, <2>2, <2>3
<1> QED
  BY <1>1, <1>9, <1>10

(* Counter mode twice gives the message back.                              *)
LEMMA CtrTwice ==
    ASSUME NEW p, IsBytes(p), NEW v, IsBlock(v)
    PROVE  SV!siv_ctr(SV!siv_ctr(p, v), v) = p
<1> DEFINE len == Len(p)
           c == SV!Ctr(p, v)
           K(i) == SV!Encrypt(SV!Plus(SV!Mask(v), (i - 1) \div N))[1 + ((i - 1) % N)]
<1>1. c = [i \in 1 .. len |-> SV!Xor(p[i], K(i))] /\ c \in [1 .. len -> Octets] /\ len \in Nat
  BY CtrIs DEF CtrOut, IsBytes
<1>2. SV!siv_ctr(p, v) = c
  BY CtrIs
<1> HIDE DEF c
<1>3. Len(c) = len /\ IsBytes(c)
  <2> HIDE DEF len
  <2> QED
    BY <1>1, BytesOf
<1>4. SV!siv_ctr(c, v) = [i \in 1 .. len |-> SV!Xor(c[i], K(i))]
  BY <1>3, CtrIs DEF CtrOut
<1> HIDE DEF K
<1>5. ASSUME NEW i \in 1 .. len PROVE SV!Xor(c[i], K(i)) = p[i]
  BY <1>1, Octet
<1>6. p = [i \in 1 .. len |-> p[i]]
  BY DEF IsBytes
<1> QED
  BY <1>2, <1>4, <1>5, <1>6

(* Encryption and decryption of any plaintext with any associated data.    *)
LEMMA SivIs ==
    ASSUME NEW a, IsBytes(a), NEW p, IsBytes(p)
    PROVE  /\ SV!aes256_encrypt_siv(a, p) = SV!S2V(a, p) \o SV!Ctr(p, SV!S2V(a, p))
           /\ SV!aes256_decrypt_siv(a, SV!aes256_encrypt_siv(a, p)) = [pt |-> p, ok |-> TRUE]
<1> DEFINE t == SV!Tag(a, p)
           b == SV!siv_ctr(p, t)
           c == SV!aes256_encrypt_siv(a, p)
           len == Len(p)
<1>1. t = SV!S2V(a, p) /\ IsBlock(t)
  BY TagIs
<1>2. b = SV!Ctr(p, t) /\ b \in [1 .. len -> Octets] /\ SV!siv_ctr(b, t) = p
  <2> HIDE DEF t
  <2> QED
    BY <1>1, CtrIs, CtrTwice
<1>3. c = t \o b
  BY DEF SV!aes256_encrypt_siv
<1>4. len \in Nat /\ N \in Nat
  BY BlockSize DEF IsBytes
<1> HIDE DEF t, b, c, len
<1>5. Len(c) = N + len /\ c = [i \in 1 .. N + len |-> IF i <= N THEN t[i] ELSE b[i - N]]
  <2>1. t = [i \in 1 .. N |-> t[i]] /\ b = [i \in 1 .. len |-> b[i]]
    BY <1>1, <1>2 DEF IsBlock
  <2>2. c = [i \in 1 .. N + len |-> IF i <= N THEN t[i] ELSE b[i - N]]
    BY <1>3, <1>4, <2>1, Joined
  <2>3. Len(c) = N + len
    <3>1. t \in Seq(Octets) /\ Len(t) = N
      BY <1>1, <1>4 DEF IsBlock
    <3>2. b \in Seq(Octets) /\ Len(b) = len
      BY <1>2, <1>4
    <3>3. Len(t \o b) = Len(t) + Len(b)
      BY <3>1, <3>2
    <3> QED
      BY <1>3, <3>1, <3>2, <3>3
  <2> QED
    BY <2>2, <2>3
<1>6. [i \in 1 .. N |-> c[i]] = t
  <2>1. \A i \in 1 .. N : c[i] = t[i]
    BY <1>4, <1>5
  <2> QED
    BY <1>1, <2>1 DEF IsBlock
<1>7. SV!Behind(c, N) = b
  <2>1. Len(c) - N = len
    BY <1>4, <1>5
  <2>2. \A i \in 1 .. len : c[N + i] = b[i]
    <3> TAKE i \in 1 .. len
    <3>1. N + i \in 1 .. N + len /\ ~ (N + i <= N) /\ (N + i) - N = i
      BY <1>4
    <3> QED
      BY <1>5, <3>1
  <2>3. SV!Behind(c, N) = [i \in 1 .. len |-> c[N + i]]
    BY <2>1 DEF SV!Behind
  <2> QED
    BY <1>2, <2>2, <2>3
<1>8. SV!aes256_decrypt_siv(a, c)
        = [pt |-> SV!siv_ctr(b, t), ok |-> SV!Tag(a, SV!siv_ctr(b, t)) = t]
  BY <1>6, <1>7 DEF SV!aes256_decrypt_siv
<1>9. SV!aes256_decrypt_siv(a, c) = [pt |-> p, ok |-> TRUE]
  BY <1>2, <1>8 DEF t
<1> QED
  BY <1>1, <1>2, <1>3, <1>9 DEF c

(* A sequence of bytes in the sense of the module Sequences.               *)
LEMMA SeqBytes ==
    ASSUME NEW m \in Seq(Octets)
    PROVE  IsBytes(m)
  BY DEF IsBytes

(* For associated data and plaintext of every length, made of any bytes,   *)
(* for blocks of every length and any bytes of the counter that are        *)
(* masked, what aes256_encrypt_siv and its loops over bytes give is what   *)
(* RFC 5297 and RFC 4493 say of blocks; aes256_decrypt_siv accepts it and  *)
(* gives the plaintext back; and the counter carries like a number.        *)
THEOREM AesSivIsRfc == SV!Spec => []SivIsRfc
<1> DEFINE Inv == ad \in Seq(Octets) /\ pt \in Seq(Octets)
<1>1. SV!Init => Inv
  BY DEF SV!Init
<1>2. Inv /\ [SV!Next]_(SV!vars) => Inv'
  <2> SUFFICES ASSUME Inv, [SV!Next]_(SV!vars) PROVE Inv'
    OBVIOUS
  <2>1. AdBytes \subseteq Octets /\ PtBytes \subseteq Octets
    BY AesSivBytesFit DEF SV!BytesFit, Octets
  <2>2. CASE \E b \in AdBytes : SV!LongerAd(b)
    BY <2>1, <2>2 DEF SV!LongerAd
  <2>3. CASE \E b \in PtBytes : SV!LongerPt(b)
    BY <2>1, <2>3 DEF SV!LongerPt
  <2>4. CASE UNCHANGED SV!vars
    BY <2>4 DEF SV!vars
  <2> QED
    BY <2>2, <2>3, <2>4 DEF SV!Next
<1>3. Inv => SivIsRfc
  <2> SUFFICES ASSUME Inv PROVE SivIsRfc
    OBVIOUS
  <2>1. IsBytes(ad) /\ IsBytes(pt)
    BY SeqBytes
  <2>2. SV!EncryptIsRfc /\ SV!DecryptInverts
    BY <2>1, SivIs DEF SV!EncryptIsRfc, SV!DecryptInverts
  <2>3. ASSUME Len(pt) = N PROVE SV!siv_ctr(SV!Zeros(3 * N), pt) = SV!Ctr(SV!Zeros(3 * N), pt)
    <3>1. IsBlock(pt)
      BY <2>3 DEF IsBlock
    <3>2. IsBytes(SV!Zeros(3 * N))
      <4> DEFINE m == SV!Zeros(3 * N)
                 n == 3 * N
      <4>1. n \in Nat /\ m \in [1 .. n -> Octets]
        BY BlockSize DEF SV!Zeros, Octets
      <4> HIDE DEF m, n
      <4>2. IsBytes(m)
        BY <4>1, BytesOf
      <4> QED
        BY <4>2 DEF m
    <3> QED
      BY <3>1, <3>2, CtrIs
  <2> QED
    BY <2>2, <2>3 DEF SivIsRfc, SV!CounterCarries
<1> QED
  BY <1>1, <1>2, <1>3, PTL DEF SV!Spec

-----------------------------------------------------------------------------
(* The permutation of SHA-3: rows and states.                              *)

(* Rows and states by their places.                                        *)
LEMMA RowIs ==
    ASSUME NEW f
    PROVE  \A x \in 0 .. 4 : KE!Row(f)[x + 1] = f[x]
<1>1. \A x \in 0 .. 4 : x = 0 \/ x = 1 \/ x = 2 \/ x = 3 \/ x = 4
  OBVIOUS
<1> QED
  BY <1>1 DEF KE!Row

LEMMA StateIs ==
    ASSUME NEW f
    PROVE  KE!State(f) = [l \in 1 .. 25 |-> f[l - 1]]
<1> DEFINE s == KE!State(f)
<1>1. /\ s[1] = f[0] /\ s[2] = f[1] /\ s[3] = f[2] /\ s[4] = f[3] /\ s[5] = f[4]
      /\ s[6] = f[5] /\ s[7] = f[6] /\ s[8] = f[7] /\ s[9] = f[8] /\ s[10] = f[9]
      /\ s[11] = f[10] /\ s[12] = f[11] /\ s[13] = f[12] /\ s[14] = f[13] /\ s[15] = f[14]
      /\ s[16] = f[15] /\ s[17] = f[16] /\ s[18] = f[17] /\ s[19] = f[18] /\ s[20] = f[19]
      /\ s[21] = f[20] /\ s[22] = f[21] /\ s[23] = f[22] /\ s[24] = f[23] /\ s[25] = f[24]
  BY DEF KE!State
<1>2. s = [l \in 1 .. 25 |-> s[l]]
  BY DEF KE!State
<1> HIDE DEF s
<1>3. \A l \in 1 .. 25 : s[l] = f[l - 1]
  BY <1>1
<1> QED
  BY <1>2, <1>3 DEF s

(* The parities of the columns.                                            *)
LEMMA ParitiesAre ==
    ASSUME NEW a \in KE!Lanes, NEW x \in 0 .. 4
    PROVE  /\ KE!Parities(a)[x + 1] = KE!FipsParities(a)[x + 1]
           /\ KE!Parities(a)[x + 1] \in SUBSET KE!Bits
<1> DEFINE code == KE!Xor(KE!Xor(KE!Xor(a[x + 1], a[x + 6]), KE!Xor(a[x + 11], a[x + 16])), a[x + 21])
           bit(y, b) == IF b \in KE!At(a, x, y) THEN 1 ELSE 0
           fips == {b \in KE!Bits : (bit(0, b) + bit(1, b) + bit(2, b) + bit(3, b) + bit(4, b)) % 2 = 1}
<1>1. KE!Parities(a)[x + 1] = code
  BY RowIs DEF KE!Parities
<1>2. KE!FipsParities(a)[x + 1] = fips
  BY RowIs DEF KE!FipsParities
<1>3. \A l \in 1 .. 25 : a[l] \in SUBSET KE!Bits
  BY DEF KE!Lanes
<1>4. code \in SUBSET KE!Bits
  <2>1. \A p, q \in SUBSET KE!Bits : KE!Xor(p, q) \in SUBSET KE!Bits
    BY DEF KE!Xor
  <2>2. x + 1 \in 1 .. 25 /\ x + 6 \in 1 .. 25 /\ x + 11 \in 1 .. 25 /\ x + 16 \in 1 .. 25 /\ x + 21 \in 1 .. 25
    OBVIOUS
  <2> QED
    BY <1>3, <2>1, <2>2
<1>5. /\ KE!At(a, x, 0) = a[x + 1] /\ KE!At(a, x, 1) = a[x + 6] /\ KE!At(a, x, 2) = a[x + 11]
      /\ KE!At(a, x, 3) = a[x + 16] /\ KE!At(a, x, 4) = a[x + 21]
  <2>1. x % 5 = x
    OBVIOUS
  <2> QED
    BY <2>1 DEF KE!At
<1>6. ASSUME NEW b \in KE!Bits PROVE b \in fips <=> b \in code
  <2> DEFINE B(n) == IF b \in a[x + n] THEN 1 ELSE 0
  <2>1. b \in fips <=> (B(1) + B(6) + B(11) + B(16) + B(21)) % 2 = 1
    BY <1>5
  <2>2. b \in code <=>
             (((b \in a[x + 1] <=> b \in a[x + 6]) <=> (b \in a[x + 11] <=> b \in a[x + 16]))
                <=> b \in a[x + 21])
    BY DEF KE!Xor
  <2> HIDE DEF code, fips
  <2> QED
    BY <2>1, <2>2
<1>7. fips \subseteq KE!Bits
  OBVIOUS
<1> HIDE DEF code, fips
<1>8. fips = code
  BY <1>4, <1>6, <1>7
<1> QED
  BY <1>1, <1>2, <1>4, <1>8

(* The walk of rho, step by step.                                          *)
LEMMA WalkDef ==
    /\ KE!Walk[0] = <<1, 0>>
    /\ \A t \in 1 .. 23 : KE!Walk[t] = <<KE!Walk[t - 1][2], (2 * KE!Walk[t - 1][1] + 3 * KE!Walk[t - 1][2]) % 5>>
<1> DEFINE X == Nat \X Nat
           Step(p) == <<p[2], (2 * p[1] + 3 * p[2]) % 5>>
           G == [t \in 1 .. 23 |-> [p \in X |-> Step(p)]]
           A(h) == h = [t \in 0 .. 23 |-> IF t = 0 THEN <<1, 0>> ELSE Step(h[t - 1])]
           walk == CHOOSE h : A(h)
<1>1. KE!Walk = walk
  BY DEF KE!Walk
<1>2. \A p \in X : Step(p) \in X
  OBVIOUS
<1>3. <<1, 0>> \in X
  OBVIOUS
<1> HIDE DEF Step, X
<1>4. StepsOn(G, 23, X)
  BY <1>2 DEF StepsOn
<1>5. PICK g : Leads(g, <<1, 0>>, G, 23, X)
  <2> HIDE DEF G
  <2> QED
    BY <1>3, <1>4, Recursion
<1>6. A(g)
  <2>1. ASSUME NEW t \in 0 .. 23, t # 0 PROVE G[t][g[t - 1]] = Step(g[t - 1])
    <3>1. t \in 1 .. 23 /\ t - 1 \in 0 .. 23
      BY <2>1
    <3>2. g[t - 1] \in X
      <4> HIDE DEF G
      <4> QED
        BY <1>5, <3>1 DEF Leads
    <3> QED
      BY <3>1, <3>2
  <2> HIDE DEF G
  <2> QED
    BY <1>5, <2>1 DEF Leads
<1>7. A(walk)
  BY <1>6
<1> HIDE DEF walk
<1>8. walk[0] = <<1, 0>> /\ \A t \in 1 .. 23 : walk[t] = Step(walk[t - 1])
  BY <1>7
<1> QED
  BY <1>1, <1>8 DEF Step

(* The lanes in the order of the walk.                                     *)
Walked ==
    <<1, 10, 7, 11, 17, 18, 3, 5, 16, 8, 21, 24,
      4, 15, 23, 19, 13, 12, 2, 20, 14, 22, 9, 6>>

LEMMA WalkIs ==
    /\ \A t \in 0 .. 23 : KE!Walk[t][1] + 5 * KE!Walk[t][2] = Walked[t + 1]
    /\ \A t, u \in 0 .. 23 : Walked[t + 1] = Walked[u + 1] => t = u
<1> DEFINE Is(t, x, y) == KE!Walk[t][1] = x /\ KE!Walk[t][2] = y
<1>1. \A t \in 0 .. 22, x, y \in Nat : Is(t, x, y) => Is(t + 1, y, (2 * x + 3 * y) % 5)
  <2> SUFFICES ASSUME NEW t \in 0 .. 22, NEW x \in Nat, NEW y \in Nat, Is(t, x, y)
               PROVE  Is(t + 1, y, (2 * x + 3 * y) % 5)
    OBVIOUS
  <2>1. t + 1 \in 1 .. 23 /\ (t + 1) - 1 = t
    OBVIOUS
  <2>2. KE!Walk[t + 1] = <<KE!Walk[t][2], (2 * KE!Walk[t][1] + 3 * KE!Walk[t][2]) % 5>>
    BY <2>1, WalkDef
  <2> QED
    BY <2>2
<1>2. Is(0, 1, 0)
  BY WalkDef
<1> HIDE DEF Is
<1>3. /\ Is(1, 0, 2) /\ Is(2, 2, 1) /\ Is(3, 1, 2)
      /\ Is(4, 2, 3) /\ Is(5, 3, 3) /\ Is(6, 3, 0)
  BY <1>1, <1>2
<1>4. /\ Is(7, 0, 1) /\ Is(8, 1, 3) /\ Is(9, 3, 1)
      /\ Is(10, 1, 4) /\ Is(11, 4, 4) /\ Is(12, 4, 0)
  BY <1>1, <1>3
<1>5. /\ Is(13, 0, 3) /\ Is(14, 3, 4) /\ Is(15, 4, 3)
      /\ Is(16, 3, 2) /\ Is(17, 2, 2) /\ Is(18, 2, 0)
  BY <1>1, <1>4
<1>6. /\ Is(19, 0, 4) /\ Is(20, 4, 2) /\ Is(21, 2, 4)
      /\ Is(22, 4, 1) /\ Is(23, 1, 1)
  BY <1>1, <1>5
<1>7. ASSUME NEW t \in 0 .. 23 PROVE KE!Walk[t][1] + 5 * KE!Walk[t][2] = Walked[t + 1]
  BY <1>2, <1>3, <1>4, <1>5, <1>6 DEF Is, Walked
<1>8. \A t, u \in 0 .. 23 : Walked[t + 1] = Walked[u + 1] => t = u
  BY DEF Walked
<1> QED
  BY <1>7, <1>8

(* The offset of a lane, by the step that reaches it.                      *)
LEMMA RhoOffsetAt ==
    ASSUME NEW t \in 0 .. 23
    PROVE  Walked[t + 1] # 0 => KE!RhoOffset(Walked[t + 1]) = (((t + 1) * (t + 2)) \div 2) % 64
<1> DEFINE l == Walked[t + 1]
           Reaches(u) == u \in 0 .. 23 /\ KE!Walk[u][1] + 5 * KE!Walk[u][2] = l
           step == CHOOSE u \in 0 .. 23 : KE!Walk[u][1] + 5 * KE!Walk[u][2] = l
<1>1. Reaches(t) /\ \A u : Reaches(u) => u = t
  BY WalkIs
<1>2. step = t
  BY <1>1
<1>3. KE!RhoOffset(l) = IF l = 0 THEN 0 ELSE (((step + 1) * (step + 2)) \div 2) % 64
  BY DEF KE!RhoOffset
<1> HIDE DEF l, step
<1>4. l # 0 => KE!RhoOffset(l) = (((t + 1) * (t + 2)) \div 2) % 64
  BY <1>2, <1>3
<1> QED
  BY <1>4 DEF l

(* The code picks the lanes as pi moves them, and rotates them as rho does. *)
LEMMA LanesPicked ==
    ASSUME NEW x \in 0 .. 4, NEW y \in 0 .. 4
    PROVE  /\ KE!Lane[y + 1][x + 1] = ((x + 3 * y) % 5) + 5 * x
           /\ KE!Offset[y + 1][x + 1] = KE!RhoOffset(((x + 3 * y) % 5) + 5 * x)
           /\ KE!Offset[y + 1][x + 1] \in Nat
<1> DEFINE L(n) == KE!RhoOffset(n)
<1>1. L(0) = 0
  BY DEF KE!RhoOffset
<1>2. \A t \in 0 .. 23 : Walked[t + 1] # 0 => L(Walked[t + 1]) = (((t + 1) * (t + 2)) \div 2) % 64
  BY RhoOffsetAt
<1> HIDE DEF L
<1>3. \A t \in 0 .. 23 : Walked[t + 1] # 0
  BY DEF Walked
<1>4. /\ L(0) = 0 /\ L(1) = 1 /\ L(2) = 62 /\ L(3) = 28 /\ L(4) = 27
      /\ L(5) = 36 /\ L(6) = 44 /\ L(7) = 6 /\ L(8) = 55 /\ L(9) = 20
      /\ L(10) = 3 /\ L(11) = 10 /\ L(12) = 43 /\ L(13) = 25 /\ L(14) = 39
      /\ L(15) = 41 /\ L(16) = 45 /\ L(17) = 15 /\ L(18) = 21 /\ L(19) = 8
      /\ L(20) = 18 /\ L(21) = 2 /\ L(22) = 61 /\ L(23) = 56 /\ L(24) = 14
  BY <1>1, <1>2, <1>3 DEF Walked
<1>5. /\ KE!Lane[y + 1][x + 1] = ((x + 3 * y) % 5) + 5 * x
      /\ KE!Offset[y + 1][x + 1] = L(KE!Lane[y + 1][x + 1])
      /\ KE!Offset[y + 1][x + 1] \in Nat
  <2>1. CASE y = 0
    BY <1>4, <2>1 DEF KE!Lane, KE!Offset
  <2>2. CASE y = 1
    BY <1>4, <2>2 DEF KE!Lane, KE!Offset
  <2>3. CASE y = 2
    BY <1>4, <2>3 DEF KE!Lane, KE!Offset
  <2>4. CASE y = 3
    BY <1>4, <2>4 DEF KE!Lane, KE!Offset
  <2>5. CASE y = 4
    BY <1>4, <2>5 DEF KE!Lane, KE!Offset
  <2> QED
    BY <2>1, <2>2, <2>3, <2>4, <2>5
<1> QED
  BY <1>5 DEF L

(* Words of 64 bits.                                                       *)
LEMMA LaneOps ==
    ASSUME NEW p \in SUBSET KE!Bits, NEW q \in SUBSET KE!Bits, NEW n \in Int
    PROVE  KE!Xor(p, q) \in SUBSET KE!Bits /\ KE!ROL(p, n) \in SUBSET KE!Bits
<1>1. KE!Xor(p, q) \in SUBSET KE!Bits
  BY DEF KE!Xor
<1>2. KE!ROL(p, n) \in SUBSET KE!Bits
  BY DEF KE!ROL, KE!Bits
<1> QED
  BY <1>1, <1>2

(* Theta, of the code and of the standard.                                 *)
LEMMA ThetaIs ==
    ASSUME NEW a \in KE!Lanes, NEW l \in 0 .. 24
    PROVE  /\ KE!FipsTheta(a)[l + 1] = KE!Xor(a[l + 1], KE!In(KE!Theta(a), l))
           /\ KE!In(KE!Theta(a), l) \in SUBSET KE!Bits
<1> DEFINE c == KE!Parities(a)
           f == KE!FipsParities(a)
           x == l % 5
<1>1. x \in 0 .. 4 /\ (x + 4) % 5 = (l + 4) % 5 /\ (x + 1) % 5 = (l + 1) % 5
  OBVIOUS
<1>2. (l + 4) % 5 \in 0 .. 4 /\ (l + 1) % 5 \in 0 .. 4
  OBVIOUS
<1>3. \A z \in 0 .. 4 : c[z + 1] = f[z + 1] /\ c[z + 1] \in SUBSET KE!Bits /\ 1 + z = z + 1
  BY ParitiesAre
<1>4. KE!FipsTheta(a)[l + 1] = KE!Xor(a[l + 1], KE!Xor(KE!In(f, l + 4), KE!ROL(KE!In(f, l + 1), 1)))
  <2> DEFINE body(k) == KE!Xor(a[k + 1], KE!Xor(KE!In(f, k + 4), KE!ROL(KE!In(f, k + 1), 1)))
  <2>1. KE!FipsTheta(a) = KE!State([k \in 0 .. 24 |-> body(k)])
    BY DEF KE!FipsTheta
  <2> HIDE DEF body
  <2>2. KE!FipsTheta(a)[l + 1] = body(l)
    BY <2>1, StateIs
  <2> QED
    BY <2>2 DEF body
<1>5. KE!Theta(a)[x + 1] = KE!Xor(KE!In(c, x + 4), KE!ROL(KE!In(c, x + 1), 1))
  <2> DEFINE body(k) == KE!Xor(KE!In(c, k + 4), KE!ROL(KE!In(c, k + 1), 1))
  <2>1. KE!Theta(a) = KE!Row([k \in 0 .. 4 |-> body(k)])
    BY DEF KE!Theta
  <2> HIDE DEF body, x
  <2>2. KE!Theta(a)[x + 1] = body(x)
    BY <1>1, <2>1, RowIs
  <2> QED
    BY <2>2 DEF body
<1>6. KE!In(c, x + 4) = KE!In(f, l + 4) /\ KE!In(c, x + 1) = KE!In(f, l + 1)
  <2> HIDE DEF c, f, x
  <2> QED
    BY <1>1, <1>2, <1>3 DEF KE!In
<1>7. KE!In(KE!Theta(a), l) = KE!Theta(a)[x + 1]
  BY <1>1, <1>3 DEF KE!In
<1>8. KE!Theta(a)[x + 1] \in SUBSET KE!Bits
  <2> HIDE DEF c, f, x
  <2>1. KE!In(c, x + 4) \in SUBSET KE!Bits /\ KE!In(c, x + 1) \in SUBSET KE!Bits
    BY <1>1, <1>2, <1>3 DEF KE!In
  <2> QED
    BY <1>5, <2>1, LaneOps
<1> HIDE DEF c, f, x
<1> QED
  BY <1>4, <1>5, <1>6, <1>7, <1>8

(* A lane the code picks is the one that rho and pi put there.             *)
LEMMA PickedIs ==
    ASSUME NEW a \in KE!Lanes, NEW x \in 0 .. 4, NEW y \in 0 .. 4
    PROVE  /\ KE!FipsPi(KE!FipsRho(KE!FipsTheta(a)))[1 + x + 5 * y] = KE!Picked(a, KE!Theta(a), y, x)
           /\ KE!Picked(a, KE!Theta(a), y, x) \in SUBSET KE!Bits
<1> DEFINE th == KE!FipsTheta(a)
           rh == KE!FipsRho(th)
           p == KE!FipsPi(rh)
           L == ((x + 3 * y) % 5) + 5 * x
           l == x + 5 * y
<1>1. L \in 0 .. 24 /\ l \in 0 .. 24 /\ l + 1 = 1 + x + 5 * y /\ l \div 5 = y /\ l % 5 = x
  OBVIOUS
<1>2. (l + 3 * (l \div 5)) % 5 = (x + 3 * y) % 5
  OBVIOUS
<1>3. th[L + 1] = KE!Xor(a[L + 1], KE!In(KE!Theta(a), L))
  <2> HIDE DEF L
  <2> QED
    BY <1>1, ThetaIs
<1> HIDE DEF th
<1>4. rh[L + 1] = KE!ROL(th[L + 1], KE!RhoOffset(L))
  <2> DEFINE body(k) == KE!ROL(th[k + 1], KE!RhoOffsets[k + 1])
             offset(k) == KE!RhoOffset(k)
  <2>1. rh = KE!State([k \in 0 .. 24 |-> body(k)])
    BY DEF KE!FipsRho
  <2>2. KE!RhoOffsets = KE!State([k \in 0 .. 24 |-> offset(k)])
    BY DEF KE!RhoOffsets
  <2> HIDE DEF L, rh, body, offset
  <2>3. rh[L + 1] = body(L) /\ KE!RhoOffsets[L + 1] = offset(L)
    BY <1>1, <2>1, <2>2, StateIs
  <2> QED
    BY <2>3 DEF body, offset
<1> HIDE DEF rh
<1>5. p[l + 1] = rh[L + 1]
  <2> DEFINE body(k) == KE!At(rh, k + 3 * (k \div 5), k)
  <2>1. p = KE!State([k \in 0 .. 24 |-> body(k)])
    BY DEF KE!FipsPi
  <2>2. body(l) = rh[1 + ((l + 3 * (l \div 5)) % 5) + 5 * (l % 5)]
    <3>1. x % 5 = x
      OBVIOUS
    <3> HIDE DEF l
    <3> QED
      BY <1>1, <3>1 DEF KE!At
  <2>3. body(l) = rh[L + 1]
    <3>1. 1 + ((l + 3 * (l \div 5)) % 5) + 5 * (l % 5) = L + 1
      BY <1>1, <1>2
    <3> QED
      BY <2>2, <3>1
  <2> HIDE DEF p, body, l, L
  <2>4. p[l + 1] = body(l)
    BY <1>1, <2>1, StateIs
  <2> QED
    BY <2>3, <2>4
<1>6. KE!Picked(a, KE!Theta(a), y, x) = KE!ROL(KE!Xor(a[L + 1], KE!In(KE!Theta(a), L)), KE!RhoOffset(L))
  <2> DEFINE lane == KE!Lane[y + 1][x + 1]
             off == KE!Offset[y + 1][x + 1]
  <2>1. KE!Picked(a, KE!Theta(a), y, x) = KE!ROL(KE!Xor(a[lane + 1], KE!In(KE!Theta(a), lane)), off)
    BY DEF KE!Picked
  <2>2. lane = L /\ off = KE!RhoOffset(L)
    BY LanesPicked
  <2> HIDE DEF lane, off, L
  <2> QED
    BY <2>1, <2>2
<1>7. p[1 + x + 5 * y] = KE!Picked(a, KE!Theta(a), y, x)
  <2> HIDE DEF l, L, p
  <2> QED
    BY <1>1, <1>3, <1>4, <1>5, <1>6
<1>8. KE!Picked(a, KE!Theta(a), y, x) \in SUBSET KE!Bits
  <2>1. a[L + 1] \in SUBSET KE!Bits /\ KE!In(KE!Theta(a), L) \in SUBSET KE!Bits
    <3>1. L + 1 \in 1 .. 25
      BY <1>1
    <3> HIDE DEF L
    <3> QED
      BY <1>1, <3>1, ThetaIs DEF KE!Lanes
  <2>2. KE!RhoOffset(L) \in Int
    BY LanesPicked
  <2> HIDE DEF L
  <2> DEFINE q == KE!Xor(a[L + 1], KE!In(KE!Theta(a), L))
  <2>3. q \in SUBSET KE!Bits
    BY <2>1, <2>2, LaneOps
  <2>4. KE!Picked(a, KE!Theta(a), y, x) = KE!ROL(q, KE!RhoOffset(L))
    BY <1>6
  <2> HIDE DEF q
  <2> QED
    BY <2>2, <2>3, <2>4, LaneOps
<1> QED
  BY <1>7, <1>8 DEF p, rh, th

(* A pass over the rows does theta, rho, pi and chi.                       *)
LEMMA RowsAre ==
    ASSUME NEW a \in KE!Lanes
    PROVE  /\ KE!Rows(a) = KE!FipsChi(KE!FipsPi(KE!FipsRho(KE!FipsTheta(a))))
           /\ KE!Rows(a) \in KE!Lanes
<1> DEFINE d == KE!Theta(a)
           p == KE!FipsPi(KE!FipsRho(KE!FipsTheta(a)))
           pick(y, x) == KE!Picked(a, d, y, x)
           row(y) == KE!Row([x \in 0 .. 4 |-> pick(y, x)])
           bc == KE!Row([y \in 0 .. 4 |-> row(y)])
           code(l) == KE!Chi(bc[1 + (l \div 5)], l)
           fips(l) == {b \in KE!Bits : (b \in p[l + 1]) # (b \notin KE!At(p, l + 1, l \div 5)
                                                          /\ b \in KE!At(p, l + 2, l \div 5))}
<1>1. \A x, y \in 0 .. 4 : p[1 + x + 5 * y] = pick(y, x) /\ pick(y, x) \in SUBSET KE!Bits
  BY PickedIs
<1>2. KE!Rows(a) = KE!State([l \in 0 .. 24 |-> code(l)])
  BY DEF KE!Rows
<1>3. KE!FipsChi(p) = KE!State([l \in 0 .. 24 |-> fips(l)])
  BY DEF KE!FipsChi
<1> HIDE DEF p, pick
<1>4. \A x, y \in 0 .. 4 : row(y)[x + 1] = pick(y, x)
  BY RowIs
<1> HIDE DEF row
<1>5. \A y \in 0 .. 4 : bc[y + 1] = row(y)
  BY RowIs
<1> HIDE DEF bc
<1>6. ASSUME NEW l \in 0 .. 24 PROVE code(l) = fips(l) /\ code(l) \in SUBSET KE!Bits
  <2> DEFINE y == l \div 5
             x(n) == (l + n) % 5
             c(n) == pick(y, x(n))
  <2>1. y \in 0 .. 4 /\ x(0) \in 0 .. 4 /\ x(1) \in 0 .. 4 /\ x(2) \in 0 .. 4 /\ l + 0 = l
    OBVIOUS
  <2>2. 1 + x(0) + 5 * y = l + 1 /\ y % 5 = y /\ 1 + y = y + 1
    OBVIOUS
  <2>3. \A n \in {0, 1, 2} : KE!In(bc[1 + y], l + n) = c(n)
    <3> SUFFICES ASSUME NEW n \in {0, 1, 2} PROVE KE!In(bc[1 + y], l + n) = c(n)
      OBVIOUS
    <3>1. KE!In(bc[1 + y], l + n) = bc[1 + y][1 + x(n)]
      BY DEF KE!In
    <3>2. x(n) \in 0 .. 4 /\ 1 + x(n) = x(n) + 1
      BY <2>1
    <3> HIDE DEF x, y
    <3> QED
      BY <1>4, <1>5, <2>1, <2>2, <3>1, <3>2
  <2>4. code(l) = KE!Xor(c(0), c(2) \ c(1))
    <3>1. code(l) = KE!Xor(KE!In(bc[1 + y], l), KE!In(bc[1 + y], l + 2) \ KE!In(bc[1 + y], l + 1))
      BY DEF KE!Chi
    <3> HIDE DEF code, c, y
    <3> QED
      BY <2>1, <2>3, <3>1
  <2>5. p[l + 1] = c(0) /\ KE!At(p, l + 1, y) = c(1) /\ KE!At(p, l + 2, y) = c(2)
    <3>1. \A n : KE!At(p, l + n, y) = p[1 + x(n) + 5 * (y % 5)]
      BY DEF KE!At
    <3> HIDE DEF x, y
    <3>2. p[1 + x(0) + 5 * y] = c(0) /\ p[1 + x(1) + 5 * y] = c(1) /\ p[1 + x(2) + 5 * y] = c(2)
      BY <1>1, <2>1
    <3> HIDE DEF c
    <3> QED
      BY <2>2, <3>1, <3>2
  <2>6. c(0) \in SUBSET KE!Bits /\ c(1) \in SUBSET KE!Bits /\ c(2) \in SUBSET KE!Bits
    <3> HIDE DEF x, y
    <3> QED
      BY <1>1, <2>1
  <2>7. fips(l) = {b \in KE!Bits : (b \in c(0)) # (b \notin c(1) /\ b \in c(2))}
    <3>1. fips(l) = {b \in KE!Bits : (b \in p[l + 1]) # (b \notin KE!At(p, l + 1, y)
                                                          /\ b \in KE!At(p, l + 2, y))}
      OBVIOUS
    <3> HIDE DEF fips, c, y
    <3> QED
      BY <2>5, <3>1
  <2> HIDE DEF c, code, fips
  <2>8. {b \in KE!Bits : (b \in c(0)) # (b \notin c(1) /\ b \in c(2))} = KE!Xor(c(0), c(2) \ c(1))
    BY <2>6 DEF KE!Xor
  <2>9. KE!Xor(c(0), c(2) \ c(1)) \in SUBSET KE!Bits
    BY <2>6 DEF KE!Xor
  <2> QED
    BY <2>4, <2>7, <2>8, <2>9
<1> HIDE DEF code, fips
<1>7. KE!Rows(a) = [l \in 1 .. 25 |-> code(l - 1)]
  <2>1. \A l \in 1 .. 25 : l - 1 \in 0 .. 24
    OBVIOUS
  <2> QED
    BY <1>2, <2>1, StateIs
<1>8. KE!FipsChi(p) = [l \in 1 .. 25 |-> fips(l - 1)]
  <2>1. \A l \in 1 .. 25 : l - 1 \in 0 .. 24
    OBVIOUS
  <2> QED
    BY <1>3, <2>1, StateIs
<1>9. \A l \in 1 .. 25 : code(l - 1) = fips(l - 1) /\ code(l - 1) \in SUBSET KE!Bits
  BY <1>6
<1>10. KE!Rows(a) = KE!FipsChi(p) /\ KE!Rows(a) \in KE!Lanes
  BY <1>7, <1>8, <1>9 DEF KE!Lanes
<1> QED
  BY <1>10 DEF p

(* The bits that the shift register gives, step by step: seven for each    *)
(* round constant.                                                         *)
Given ==
    << 1, 0, 0, 0, 0, 0, 0, 0, 1, 0, 1, 1, 0, 0, 0, 1, 1, 1, 1, 0, 1, 0, 0, 0, 0, 1, 1, 1,
       1, 1, 1, 1, 1, 0, 0, 1, 0, 0, 0, 0, 1, 0, 1, 0, 0, 1, 1, 1, 1, 1, 0, 1, 0, 1, 0, 1,
       0, 1, 1, 1, 0, 0, 0, 0, 0, 1, 1, 0, 0, 0, 1, 0, 1, 0, 1, 1, 0, 0, 1, 1, 0, 0, 1, 0,
       1, 1, 1, 1, 1, 1, 0, 1, 1, 1, 1, 0, 0, 1, 1, 0, 1, 1, 1, 0, 1, 1, 1, 0, 0, 1, 0, 1,
       0, 1, 0, 0, 1, 0, 1, 0, 0, 0, 1, 0, 0, 1, 0, 1, 1, 0, 1, 0, 0, 0, 1, 1, 0, 0, 1, 1,
       1, 0, 0, 1, 1, 1, 1, 0, 0, 0, 1, 1, 0, 1, 1, 0, 0, 0, 0, 1, 0, 0, 0, 1, 0, 1, 1, 1 >>

LEMMA ConstantsAre ==
    ASSUME NEW r \in 0 .. 23
    PROVE  /\ KE!KeccakF_RoundConstants[r + 1] \subseteq {KE!Place[j + 1] : j \in 0 .. 6}
           /\ \A j \in 0 .. 6 : KE!Place[j + 1] \in KE!KeccakF_RoundConstants[r + 1] <=> Given[j + 7 * r + 1] = 1
<1>1. \A n : n \in {KE!Place[j + 1] : j \in 0 .. 6} <=> n \in {0, 1, 3, 7, 15, 31, 63}
  BY DEF KE!Place
<1>2. CASE r \in 0 .. 3
  BY <1>1, <1>2 DEF KE!KeccakF_RoundConstants, KE!Place, Given
<1>3. CASE r \in 4 .. 7
  BY <1>1, <1>3 DEF KE!KeccakF_RoundConstants, KE!Place, Given
<1>4. CASE r \in 8 .. 11
  BY <1>1, <1>4 DEF KE!KeccakF_RoundConstants, KE!Place, Given
<1>5. CASE r \in 12 .. 15
  BY <1>1, <1>5 DEF KE!KeccakF_RoundConstants, KE!Place, Given
<1>6. CASE r \in 16 .. 19
  BY <1>1, <1>6 DEF KE!KeccakF_RoundConstants, KE!Place, Given
<1>7. CASE r \in 20 .. 23
  BY <1>1, <1>7 DEF KE!KeccakF_RoundConstants, KE!Place, Given
<1> QED
  BY <1>2, <1>3, <1>4, <1>5, <1>6, <1>7

(* Each bit depends on four of the last eight.                             *)
LEMMA Recurrence ==
    ASSUME NEW t \in 8 .. 167
    PROVE  Given[t + 1] = (Given[t - 7] + Given[t - 3] + Given[t - 2] + Given[t - 1]) % 2
<1>1. CASE t \in 8 .. 23
  BY <1>1 DEF Given
<1>2. CASE t \in 24 .. 39
  BY <1>2 DEF Given
<1>3. CASE t \in 40 .. 55
  BY <1>3 DEF Given
<1>4. CASE t \in 56 .. 71
  BY <1>4 DEF Given
<1>5. CASE t \in 72 .. 87
  BY <1>5 DEF Given
<1>6. CASE t \in 88 .. 103
  BY <1>6 DEF Given
<1>7. CASE t \in 104 .. 119
  BY <1>7 DEF Given
<1>8. CASE t \in 120 .. 135
  BY <1>8 DEF Given
<1>9. CASE t \in 136 .. 151
  BY <1>9 DEF Given
<1>10. CASE t \in 152 .. 167
  BY <1>10 DEF Given
<1> QED
  BY <1>1, <1>2, <1>3, <1>4, <1>5, <1>6, <1>7, <1>8, <1>9, <1>10

LEMMA GivenBits ==
    /\ \A t \in 0 .. 167 : Given[t + 1] \in {0, 1}
    /\ Given[1] = 1 /\ \A t \in 1 .. 7 : Given[t + 1] = 0
  BY DEF Given

(* The register, by recursion.                                             *)
LEMMA LfsrDef ==
    /\ KE!Lfsr[0] = {0}
    /\ \A t \in 1 .. 167 : KE!Lfsr[t] = KE!Shifted(KE!Lfsr[t - 1])
<1> DEFINE X == SUBSET Nat
           Step(s) == KE!Shifted(s)
           G == [t \in 1 .. 167 |-> [s \in X |-> Step(s)]]
           A(h) == h = [t \in 0 .. 167 |-> IF t = 0 THEN {0} ELSE Step(h[t - 1])]
           lfsr == CHOOSE h : A(h)
<1>1. KE!Lfsr = lfsr
  BY DEF KE!Lfsr
<1>2. ASSUME NEW s \in X PROVE Step(s) \in X
  <2> DEFINE up == {k + 1 : k \in s}
  <2>1. up \in X /\ KE!Xor(up, {0, 4, 5, 6, 8}) \in X
    BY DEF KE!Xor
  <2>2. Step(s) = IF 8 \in up THEN KE!Xor(up, {0, 4, 5, 6, 8}) ELSE up
    BY DEF KE!Shifted
  <2> HIDE DEF up, X
  <2> QED
    BY <2>1, <2>2
<1>3. {0} \in X
  OBVIOUS
<1> HIDE DEF Step, X
<1>4. StepsOn(G, 167, X)
  BY <1>2 DEF StepsOn
<1>5. PICK g : Leads(g, {0}, G, 167, X)
  <2> HIDE DEF G
  <2> QED
    BY <1>3, <1>4, Recursion
<1>6. A(g)
  <2>1. ASSUME NEW t \in 0 .. 167, t # 0 PROVE G[t][g[t - 1]] = Step(g[t - 1])
    <3>1. t \in 1 .. 167 /\ t - 1 \in 0 .. 167
      BY <2>1
    <3>2. g[t - 1] \in X
      <4> HIDE DEF G
      <4> QED
        BY <1>5, <3>1 DEF Leads
    <3> QED
      BY <3>1, <3>2
  <2> HIDE DEF G
  <2> QED
    BY <1>5, <2>1 DEF Leads
<1>7. A(lfsr)
  BY <1>6
<1> HIDE DEF lfsr
<1>8. lfsr[0] = {0} /\ \A t \in 1 .. 167 : lfsr[t] = Step(lfsr[t - 1])
  BY <1>7
<1> QED
  BY <1>1, <1>8 DEF Step

(* A shift.                                                                *)
LEMMA ShiftedIs ==
    ASSUME NEW s \in SUBSET (0 .. 7)
    PROVE  /\ KE!Shifted(s) \in SUBSET (0 .. 7)
           /\ 0 \in KE!Shifted(s) <=> 7 \in s
           /\ \A k \in {0, 1, 2, 6} : k + 1 \in KE!Shifted(s) <=> k \in s
           /\ \A k \in {3, 4, 5} : k + 1 \in KE!Shifted(s) <=> (k \in s <=> 7 \notin s)
<1> DEFINE up == {k + 1 : k \in s}
<1>1. KE!Shifted(s) = IF 8 \in up THEN KE!Xor(up, {0, 4, 5, 6, 8}) ELSE up
  BY DEF KE!Shifted
<1>2. up \in SUBSET (1 .. 8) /\ \A k \in 0 .. 7 : k + 1 \in up <=> k \in s
  OBVIOUS
<1> HIDE DEF up
<1>3. 8 \in up <=> 7 \in s
  <2>1. 7 + 1 \in up <=> 7 \in s
    BY <1>2
  <2> QED
    BY <2>1
<1>4. CASE 7 \in s
  <2>1. \A n : n \in KE!Shifted(s) <=> ((n \in up /\ n \notin {0, 4, 5, 6, 8}) \/ (n \in {0, 4, 5, 6, 8} /\ n \notin up))
    BY <1>1, <1>3, <1>4 DEF KE!Xor
  <2>2. KE!Shifted(s) \in SUBSET (0 .. 7)
    <3>1. \A n : n \in up => n \in 1 .. 8
      BY <1>2
    <3> QED
      BY <1>3, <1>4, <2>1, <3>1
  <2>3. 0 \in KE!Shifted(s)
    BY <1>2, <2>1
  <2>4. ASSUME NEW k \in 0 .. 6 PROVE k + 1 \in KE!Shifted(s) <=> (k \in s <=> k + 1 \notin {4, 5, 6})
    <3>1. k + 1 \in up <=> k \in s
      BY <1>2
    <3>2. k + 1 \in {0, 4, 5, 6, 8} <=> k + 1 \in {4, 5, 6}
      OBVIOUS
    <3> QED
      BY <2>1, <3>1, <3>2
  <2> QED
    BY <1>4, <2>2, <2>3, <2>4
<1>5. CASE 7 \notin s
  <2>1. KE!Shifted(s) = up
    BY <1>1, <1>3, <1>5
  <2> QED
    BY <1>2, <1>3, <1>5, <2>1
<1> QED
  BY <1>4, <1>5

(* The register, by the bits it has given.                                 *)
Bit(n, s) == IF n \in s THEN 1 ELSE 0

RegisterIs(s, t) ==
    /\ s \in SUBSET (0 .. 7)
    /\ Bit(0, s) = Given[t + 1] /\ Bit(1, s) = Given[t] /\ Bit(2, s) = Given[t - 1] /\ Bit(3, s) = Given[t - 2]
    /\ Bit(4, s) = (Given[t - 3] + Given[t + 1]) % 2
    /\ Bit(5, s) = (Given[t - 4] + Given[t] + Given[t + 1]) % 2
    /\ Bit(6, s) = (Given[t - 5] + Given[t - 1] + Given[t] + Given[t + 1]) % 2
    /\ Bit(7, s) = (Given[t - 6] + Given[t - 2] + Given[t - 1] + Given[t]) % 2

LEMMA RegisterShifted ==
    ASSUME NEW t \in 8 .. 166, NEW s, RegisterIs(s, t)
    PROVE  RegisterIs(KE!Shifted(s), t + 1)
<1> DEFINE n == KE!Shifted(s)
           g(k) == Given[t - k]
<1>1. /\ \A k \in {-2, -1, 0, 1, 2, 3, 4, 5, 6} : g(k) \in {0, 1}
      /\ Given[t + 1] = g(-1) /\ Given[t + 2] = g(-2) /\ Given[t] = g(0)
  <2>1. \A k \in {-2, -1, 0, 1, 2, 3, 4, 5, 6} : t - k - 1 \in 0 .. 167 /\ (t - k - 1) + 1 = t - k
    OBVIOUS
  <2>2. t - (-1) = t + 1 /\ t - (-2) = t + 2 /\ t - 0 = t
    OBVIOUS
  <2> QED
    BY <2>1, <2>2, GivenBits
<1>2. g(-2) = (g(6) + g(2) + g(1) + g(0)) % 2
  <2>1. t + 1 \in 8 .. 167 /\ (t + 1) + 1 = t + 2 /\ (t + 1) - 7 = t - 6
        /\ (t + 1) - 3 = t - 2 /\ (t + 1) - 2 = t - 1 /\ (t + 1) - 1 = t
    OBVIOUS
  <2>2. Given[(t + 1) + 1] = (Given[(t + 1) - 7] + Given[(t + 1) - 3] + Given[(t + 1) - 2] + Given[(t + 1) - 1]) % 2
    BY <2>1, Recurrence
  <2> HIDE DEF g
  <2>3. Given[t + 2] = (Given[t - 6] + Given[t - 2] + Given[t - 1] + Given[t]) % 2
    BY <2>1, <2>2
  <2> QED
    BY <1>1, <2>3 DEF g
<1>3. /\ s \in SUBSET (0 .. 7)
      /\ Bit(0, s) = g(-1) /\ Bit(1, s) = g(0) /\ Bit(2, s) = g(1) /\ Bit(3, s) = g(2)
      /\ Bit(4, s) = (g(3) + g(-1)) % 2
      /\ Bit(5, s) = (g(4) + g(0) + g(-1)) % 2
      /\ Bit(6, s) = (g(5) + g(1) + g(0) + g(-1)) % 2
      /\ Bit(7, s) = (g(6) + g(2) + g(1) + g(0)) % 2
  BY <1>1 DEF RegisterIs
<1>4. /\ n \in SUBSET (0 .. 7)
      /\ Bit(0, n) = Bit(7, s) /\ Bit(1, n) = Bit(0, s) /\ Bit(2, n) = Bit(1, s) /\ Bit(3, n) = Bit(2, s)
      /\ Bit(7, n) = Bit(6, s)
      /\ Bit(4, n) = (Bit(3, s) + Bit(7, s)) % 2
      /\ Bit(5, n) = (Bit(4, s) + Bit(7, s)) % 2
      /\ Bit(6, n) = (Bit(5, s) + Bit(7, s)) % 2
  <2>1. /\ n \in SUBSET (0 .. 7)
        /\ 0 \in n <=> 7 \in s
        /\ \A k \in {0, 1, 2, 6} : k + 1 \in n <=> k \in s
        /\ \A k \in {3, 4, 5} : k + 1 \in n <=> (k \in s <=> 7 \notin s)
    BY <1>3, ShiftedIs
  <2> HIDE DEF n, g
  <2>2. /\ (1 \in n <=> 0 \in s) /\ (2 \in n <=> 1 \in s) /\ (3 \in n <=> 2 \in s) /\ (7 \in n <=> 6 \in s)
        /\ 4 \in n <=> (3 \in s <=> 7 \notin s)
        /\ 5 \in n <=> (4 \in s <=> 7 \notin s)
        /\ 6 \in n <=> (5 \in s <=> 7 \notin s)
    <3>1. 0 + 1 = 1 /\ 1 + 1 = 2 /\ 2 + 1 = 3 /\ 6 + 1 = 7 /\ 3 + 1 = 4 /\ 4 + 1 = 5 /\ 5 + 1 = 6
      OBVIOUS
    <3> QED
      BY <2>1, <3>1
  <2> QED
    BY <2>1, <2>2 DEF Bit
<1>5. /\ Bit(0, n) = g(-2) /\ Bit(1, n) = g(-1) /\ Bit(2, n) = g(0) /\ Bit(3, n) = g(1)
      /\ Bit(4, n) = (g(2) + g(-2)) % 2
      /\ Bit(5, n) = (g(3) + g(-1) + g(-2)) % 2
      /\ Bit(6, n) = (g(4) + g(0) + g(-1) + g(-2)) % 2
      /\ Bit(7, n) = (g(5) + g(1) + g(0) + g(-1)) % 2
  <2> HIDE DEF n, g
  <2> QED
    BY <1>1, <1>2, <1>3, <1>4
<1>6. /\ (t + 1) + 1 = t + 2 /\ (t + 1) - 1 = t /\ (t + 1) - 2 = t - 1 /\ (t + 1) - 3 = t - 2
      /\ (t + 1) - 4 = t - 3 /\ (t + 1) - 5 = t - 4 /\ (t + 1) - 6 = t - 5
  OBVIOUS
<1> HIDE DEF n
<1>7. RegisterIs(n, t + 1)
  BY <1>1, <1>4, <1>5, <1>6 DEF RegisterIs
<1> QED
  BY <1>7 DEF n

(* The first bit of the register at every step.                            *)
LEMMA LfsrIs ==
    ASSUME NEW t \in 0 .. 167
    PROVE  0 \in KE!Lfsr[t] <=> Given[t + 1] = 1
<1> DEFINE P(n) == IF n <= 7 THEN KE!Lfsr[n] = {n} ELSE RegisterIs(KE!Lfsr[n], n)
           T == {n \in Nat : n <= 167 => P(n)}
<1>1. 0 \in T
  BY LfsrDef
<1>2. ASSUME NEW n \in T PROVE n + 1 \in T
  <2>1. ASSUME n + 1 <= 167 PROVE P(n + 1)
    <3>1. n \in Nat /\ n + 1 \in 1 .. 167 /\ (n + 1) - 1 = n /\ P(n)
      BY <2>1
    <3>2. KE!Lfsr[n + 1] = KE!Shifted(KE!Lfsr[n])
      BY <3>1, LfsrDef
    <3>3. CASE n <= 6
      <4>1. KE!Lfsr[n] = {n} /\ n \in 0 .. 6
        BY <3>1, <3>3
      <4>2. KE!Shifted({n}) = {n + 1}
        BY <4>1 DEF KE!Shifted
      <4>3. n + 1 <= 7
        BY <4>1
      <4> QED
        BY <3>2, <4>1, <4>2, <4>3
    <3>4. CASE n = 7
      <4>1. KE!Lfsr[8] = KE!Shifted({7})
        BY <3>1, <3>2, <3>4
      <4>2. KE!Shifted({7}) = KE!Xor({8}, {0, 4, 5, 6, 8})
        BY DEF KE!Shifted
      <4>3. KE!Xor({8}, {0, 4, 5, 6, 8}) = {0, 4, 5, 6}
        BY DEF KE!Xor
      <4>4. RegisterIs({0, 4, 5, 6}, 8)
        BY DEF RegisterIs, Given, Bit
      <4> QED
        BY <3>4, <4>1, <4>2, <4>3, <4>4
    <3>5. CASE n >= 8
      <4>1. n \in 8 .. 166 /\ RegisterIs(KE!Lfsr[n], n) /\ ~(n + 1 <= 7)
        BY <3>1, <3>5, <2>1
      <4>2. RegisterIs(KE!Shifted(KE!Lfsr[n]), n + 1)
        BY <4>1, RegisterShifted
      <4> QED
        BY <3>2, <4>1, <4>2
    <3> QED
      BY <3>1, <3>3, <3>4, <3>5
  <2> HIDE DEF P
  <2> QED
    BY <2>1
<1>3. T = Nat
  <2> HIDE DEF T
  <2>1. T \subseteq Nat
    BY DEF T
  <2> QED
    BY <1>1, <1>2, <2>1, Induction
<1>4. P(t)
  <2> HIDE DEF P
  <2> QED
    BY <1>3
<1>5. CASE t <= 7
  <2>1. KE!Lfsr[t] = {t}
    BY <1>4, <1>5
  <2>2. 0 \in KE!Lfsr[t] <=> t = 0
    BY <2>1
  <2>3. CASE t = 0
    BY <2>2, <2>3, GivenBits
  <2>4. CASE t # 0
    BY <1>5, <2>2, <2>4, GivenBits
  <2> QED
    BY <2>3, <2>4
<1>6. CASE ~(t <= 7)
  <2>1. Bit(0, KE!Lfsr[t]) = Given[t + 1]
    BY <1>4, <1>6 DEF RegisterIs
  <2> QED
    BY <2>1 DEF Bit
<1> QED
  BY <1>5, <1>6

(* The round constants of the code are those of the register.              *)
LEMMA RoundConstantIs ==
    ASSUME NEW r \in 0 .. 23
    PROVE  /\ KE!RoundConstant(r) = KE!KeccakF_RoundConstants[r + 1]
           /\ KE!RoundConstant(r) \in SUBSET KE!Bits
<1>1. \A j \in 0 .. 6 : j + 7 * r \in 0 .. 167
  OBVIOUS
<1>2. \A j \in 0 .. 6 : 0 \in KE!Lfsr[j + 7 * r] <=> KE!Place[j + 1] \in KE!KeccakF_RoundConstants[r + 1]
  <2> SUFFICES ASSUME NEW j \in 0 .. 6
               PROVE  0 \in KE!Lfsr[j + 7 * r] <=> KE!Place[j + 1] \in KE!KeccakF_RoundConstants[r + 1]
    OBVIOUS
  <2> DEFINE t == j + 7 * r
  <2>1. t \in 0 .. 167
    BY <1>1
  <2>2. KE!Place[j + 1] \in KE!KeccakF_RoundConstants[r + 1] <=> Given[t + 1] = 1
    BY ConstantsAre
  <2> HIDE DEF t
  <2>3. 0 \in KE!Lfsr[t] <=> Given[t + 1] = 1
    BY <2>1, LfsrIs
  <2> QED
    BY <2>2, <2>3 DEF t
<1>3. KE!RoundConstant(r) = {KE!Place[j + 1] : j \in {i \in 0 .. 6 : 0 \in KE!Lfsr[i + 7 * r]}}
  BY DEF KE!RoundConstant
<1>4. KE!KeccakF_RoundConstants[r + 1] \subseteq {KE!Place[j + 1] : j \in 0 .. 6}
  BY ConstantsAre
<1>5. KE!RoundConstant(r) = KE!KeccakF_RoundConstants[r + 1]
  BY <1>2, <1>3, <1>4
<1>6. \A j \in 0 .. 6 : KE!Place[j + 1] \in KE!Bits
  BY DEF KE!Place, KE!Bits
<1> QED
  BY <1>3, <1>5, <1>6

(* One round, of the code and of the standard.                             *)
LEMMA KeccakRoundIs ==
    ASSUME NEW a \in KE!Lanes, NEW r \in 0 .. 23
    PROVE  /\ KE!Round(a, r) = KE!FipsRound(a, r)
           /\ KE!Round(a, r) \in KE!Lanes
<1> DEFINE rows == KE!Rows(a)
           fips == KE!FipsChi(KE!FipsPi(KE!FipsRho(KE!FipsTheta(a))))
           c == KE!KeccakF_RoundConstants[r + 1]
           d == KE!RoundConstant(r)
           E(s, k) == [s EXCEPT ![1] = KE!Xor(s[1], k)]
<1>1. KE!Round(a, r) = E(rows, c)
  BY DEF KE!Round
<1>2. KE!FipsRound(a, r) = E(fips, d)
  BY DEF KE!FipsRound
<1>3. rows = fips /\ rows \in KE!Lanes
  BY RowsAre
<1>4. d = c /\ d \in SUBSET KE!Bits
  BY RoundConstantIs
<1> HIDE DEF rows, fips, c, d
<1>5. E(rows, c) = E(fips, d)
  <2> HIDE DEF E
  <2> QED
    BY <1>3, <1>4
<1>6. E(rows, c) \in KE!Lanes
  <2>1. rows[1] \in SUBSET KE!Bits
    BY <1>3 DEF KE!Lanes
  <2>2. KE!Xor(rows[1], c) \in SUBSET KE!Bits
    BY <1>4, <2>1 DEF KE!Xor
  <2> QED
    BY <1>3, <2>2 DEF KE!Lanes
<1> QED
  BY <1>1, <1>2, <1>5, <1>6

(* The inductive invariant of the permutation.                             *)
PermutationInv ==
    /\ lanes \in KE!Lanes /\ keccakF = lanes
    /\ keccakRound \in {0, 2, 4, 6, 8, 10, 12, 14, 16, 18, 20, 22, 24}

(* From every state of 25 lanes, the rounds of keccak_f1600 are those of   *)
(* the standard: one pass over the rows is theta, rho, pi and chi, the     *)
(* offsets are those of the walk, the constants those of the register.     *)
THEOREM KeccakIsStandard == KE!Spec => []KeccakIsFips
<1> USE DEF KE!vars
<1>1. ASSUME KE!Init PROVE PermutationInv
  BY <1>1, KeccakStartsGiven DEF KE!Init, KE!StartsGiven, PermutationInv
<1>2. ASSUME PermutationInv, [KE!Next]_KE!vars PROVE PermutationInv'
  <2>1. CASE KE!TwoRounds
    <3> DEFINE r == keccakRound
               one == KE!Round(lanes, r)
               two == KE!Round(one, r + 1)
    <3>1. r \in 0 .. 23 /\ r + 1 \in 0 .. 23
      BY <1>2, <2>1 DEF PermutationInv, KE!TwoRounds
    <3>2. one = KE!FipsRound(lanes, r) /\ one \in KE!Lanes
      BY <1>2, <3>1, KeccakRoundIs DEF PermutationInv
    <3>3. /\ lanes' = two /\ keccakF' = KE!FipsRound(KE!FipsRound(keccakF, r), r + 1)
          /\ keccakRound' = r + 2
      BY <2>1 DEF KE!TwoRounds
    <3> HIDE DEF one
    <3>4. two = KE!FipsRound(one, r + 1) /\ two \in KE!Lanes
      BY <3>1, <3>2, KeccakRoundIs
    <3>5. keccakF' = lanes' /\ lanes' \in KE!Lanes
      BY <1>2, <3>2, <3>3, <3>4 DEF PermutationInv
    <3>6. keccakRound' \in {0, 2, 4, 6, 8, 10, 12, 14, 16, 18, 20, 22, 24}
      BY <1>2, <2>1, <3>3 DEF PermutationInv, KE!TwoRounds
    <3> QED
      BY <3>5, <3>6 DEF PermutationInv
  <2>2. CASE UNCHANGED KE!vars
    BY <1>2, <2>2 DEF PermutationInv
  <2> QED
    BY <1>2, <2>1, <2>2 DEF KE!Next
<1>3. PermutationInv => KeccakIsFips
  BY DEF PermutationInv, KeccakIsFips, KE!RoundsAreFips
<1> QED
  BY <1>1, <1>2, <1>3, PTL DEF KE!Spec

-----------------------------------------------------------------------------
(* The rounds of SHA-512: words and their numbers.                         *)

(* The width of a word is a number.                                        *)
LEMMA WordWidth == Width \in Nat \ {0}
  BY Sha512RoundsGiven DEF SR!RoundsGiven

(* The halves of a number that the bits of its word are read from.         *)
Halves(half, n) ==
    /\ half \in [0 .. Width -> Nat]
    /\ half[0] = n
    /\ \A b \in 1 .. Width : half[b] = half[b - 1] \div 2

(* A word from a number.                                                   *)
LEMMA WordDef ==
    ASSUME NEW n \in Nat
    PROVE  \E half : /\ Halves(half, n)
                     /\ SR!Word(n) = {b \in 0 .. Width - 1 : half[b] % 2 = 1}
<1> DEFINE F == [b \in 1 .. Width |-> [x \in Nat |-> x \div 2]]
           A(g) == g = [b \in 0 .. Width |-> IF b = 0 THEN n ELSE g[b - 1] \div 2]
           half == CHOOSE g : A(g)
<1>1. SR!Word(n) = {b \in 0 .. Width - 1 : half[b] % 2 = 1}
  BY DEF SR!Word, SR!Bits
<1>2. \A x \in Nat : x \div 2 \in Nat
  OBVIOUS
<1>3. StepsOn(F, Width, Nat)
  BY <1>2 DEF StepsOn
<1>4. PICK g : Leads(g, n, F, Width, Nat)
  <2> HIDE DEF F
  <2> QED
    BY <1>3, WordWidth, Recursion
<1>5. A(g)
  <2>1. ASSUME NEW b \in 0 .. Width, b # 0 PROVE F[b][g[b - 1]] = g[b - 1] \div 2
    <3>1. b \in 1 .. Width /\ b - 1 \in 0 .. Width
      BY WordWidth, <2>1
    <3>2. g[b - 1] \in Nat
      <4> HIDE DEF F
      <4> QED
        BY <1>4, <3>1 DEF Leads
    <3> QED
      BY <3>1, <3>2
  <2> HIDE DEF F
  <2> QED
    BY <1>4, <2>1 DEF Leads
<1>6. A(half)
  BY <1>5
<1> HIDE DEF half
<1>7. half[0] = n /\ \A b \in 1 .. Width : half[b] = half[b - 1] \div 2
  BY <1>6, WordWidth
<1> DEFINE T == {b \in Nat : b <= Width => half[b] \in Nat}
<1>8. T = Nat
  <2>1. 0 \in T
    BY <1>7
  <2>2. ASSUME NEW b \in T PROVE b + 1 \in T
    <3>1. ASSUME b + 1 <= Width PROVE half[b + 1] \in Nat
      <4>1. b \in Nat /\ b + 1 \in 1 .. Width /\ (b + 1) - 1 = b
        BY WordWidth, <3>1
      <4>2. half[b] \in Nat
        BY <3>1, <4>1, WordWidth
      <4>3. half[b + 1] = half[b] \div 2
        BY <1>7, <4>1
      <4> QED
        BY <4>2, <4>3
    <3> QED
      BY <3>1
  <2> HIDE DEF T
  <2>3. T \subseteq Nat
    BY DEF T
  <2> QED
    BY <2>1, <2>2, <2>3, Induction
<1>9. half \in [0 .. Width -> Nat]
  <2>1. \A b \in 0 .. Width : half[b] \in Nat
    BY <1>8, WordWidth
  <2>2. half = [b \in 0 .. Width |-> half[b]]
    <3> DEFINE body(b) == IF b = 0 THEN n ELSE half[b - 1] \div 2
    <3>1. half = [b \in 0 .. Width |-> body(b)]
      BY <1>6
    <3> HIDE DEF body
    <3> QED
      BY <3>1
  <2> QED
    BY <2>1, <2>2
<1> QED
  BY <1>1, <1>7, <1>9 DEF Halves

(* The digits of a word, from the highest.                                 *)
Digit(x, k) == IF Width - k \in x THEN 1 ELSE 0

Ups(up, x) ==
    /\ up \in [0 .. Width -> Nat]
    /\ up[0] = 0
    /\ \A k \in 1 .. Width : up[k] = Digit(x, k) + 2 * up[k - 1]

(* A number from a word.                                                   *)
LEMMA NumDef ==
    ASSUME NEW x
    PROVE  \E up : Ups(up, x) /\ SR!Num(x) = up[Width]
<1> DEFINE F == [k \in 1 .. Width |-> [n \in Nat |-> Digit(x, k) + 2 * n]]
           A(g) == g = [k \in 0 .. Width |-> IF k = 0 THEN 0 ELSE Digit(x, k) + 2 * g[k - 1]]
           up == CHOOSE g : A(g)
<1>1. SR!Num(x) = up[Width]
  BY DEF SR!Num, Digit
<1>2. \A k : Digit(x, k) \in Nat
  BY DEF Digit
<1>3. StepsOn(F, Width, Nat)
  BY <1>2 DEF StepsOn
<1>4. PICK g : Leads(g, 0, F, Width, Nat)
  <2> HIDE DEF F
  <2>1. 0 \in Nat
    OBVIOUS
  <2> QED
    BY <1>3, <2>1, WordWidth, Recursion
<1>5. A(g)
  <2>1. ASSUME NEW k \in 0 .. Width, k # 0 PROVE F[k][g[k - 1]] = Digit(x, k) + 2 * g[k - 1]
    <3>1. k \in 1 .. Width /\ k - 1 \in 0 .. Width
      BY WordWidth, <2>1
    <3>2. g[k - 1] \in Nat
      <4> HIDE DEF F
      <4> QED
        BY <1>4, <3>1 DEF Leads
    <3> QED
      BY <3>1, <3>2
  <2> HIDE DEF F
  <2> QED
    BY <1>4, <2>1 DEF Leads
<1>6. A(up)
  BY <1>5
<1> HIDE DEF up
<1>7. up = g
  <2>1. up[0] = 0 /\ g[0] = 0
    BY <1>5, <1>6, WordWidth
  <2> DEFINE T == {k \in Nat : k <= Width => up[k] = g[k]}
  <2>2. ASSUME NEW k \in T PROVE k + 1 \in T
    <3>1. ASSUME k + 1 <= Width PROVE up[k + 1] = g[k + 1]
      <4>1. k \in Nat /\ k + 1 \in 0 .. Width /\ (k + 1) - 1 = k /\ k + 1 # 0
        BY WordWidth, <3>1
      <4>2. up[k] = g[k]
        BY <3>1, <4>1, WordWidth
      <4>3. up[k + 1] = Digit(x, k + 1) + 2 * up[k] /\ g[k + 1] = Digit(x, k + 1) + 2 * g[k]
        BY <1>5, <1>6, <4>1
      <4> QED
        BY <4>2, <4>3
    <3> QED
      BY <3>1
  <2>3. T = Nat
    <3>1. 0 \in T
      BY <2>1
    <3> HIDE DEF T
    <3>2. T \subseteq Nat
      BY DEF T
    <3> QED
      BY <2>2, <3>1, <3>2, Induction
  <2>4. \A k \in 0 .. Width : up[k] = g[k]
    BY <2>3, WordWidth
  <2> DEFINE body(h, k) == IF k = 0 THEN 0 ELSE Digit(x, k) + 2 * h[k - 1]
  <2>5. up = [k \in 0 .. Width |-> body(up, k)] /\ g = [k \in 0 .. Width |-> body(g, k)]
    BY <1>5, <1>6
  <2> HIDE DEF body
  <2> QED
    BY <2>4, <2>5
<1>8. Ups(up, x)
  <2>1. g \in [0 .. Width -> Nat]
    <3> HIDE DEF F
    <3> QED
      BY <1>4 DEF Leads
  <2> QED
    BY <1>5, <1>7, <2>1, WordWidth DEF Ups
<1> QED
  BY <1>1, <1>8

(* Half of a number, and what is left.                                     *)
LEMMA Halved ==
    ASSUME NEW n \in Nat
    PROVE  n = 2 * (n \div 2) + (n % 2)
  OBVIOUS

(* What a number has above the digits of a word, carried down to them.     *)
Doubles(d, q) ==
    /\ d \in [0 .. Width -> Nat]
    /\ d[0] = q
    /\ \A k \in 1 .. Width : d[k] = 2 * d[k - 1]

LEMMA DoublesExist ==
    ASSUME NEW q \in Nat
    PROVE  \E d : Doubles(d, q)
<1> DEFINE F == [k \in 1 .. Width |-> [n \in Nat |-> 2 * n]]
<1>1. StepsOn(F, Width, Nat)
  BY DEF StepsOn
<1>2. PICK g : Leads(g, q, F, Width, Nat)
  <2> HIDE DEF F
  <2> QED
    BY <1>1, WordWidth, Recursion
<1>3. \A k \in 1 .. Width : k # 0 /\ k - 1 \in 0 .. Width /\ k \in 0 .. Width
  BY WordWidth
<1>4. g \in [0 .. Width -> Nat] /\ g[0] = q /\ \A k \in 1 .. Width : g[k] = F[k][g[k - 1]]
  <2> HIDE DEF F
  <2> QED
    BY <1>2, <1>3, WordWidth DEF Leads
<1>5. \A k \in 1 .. Width : g[k] = 2 * g[k - 1]
  BY <1>3, <1>4
<1> QED
  BY <1>4, <1>5 DEF Doubles

(* A number is that of its word, but for what is above the digits.         *)
LEMMA NumOfWord ==
    ASSUME NEW n \in Nat
    PROVE  /\ SR!Num(SR!Word(n)) \in Nat
           /\ \E q \in Nat : \E d : Doubles(d, q) /\ n = SR!Num(SR!Word(n)) + d[Width]
<1> DEFINE x == SR!Word(n)
<1>1. PICK half : Halves(half, n) /\ x = {b \in 0 .. Width - 1 : half[b] % 2 = 1}
  BY WordDef
<1> HIDE DEF x
<1>2. PICK up : Ups(up, x) /\ SR!Num(x) = up[Width]
  BY NumDef
<1>3. half[Width] \in Nat
  BY <1>1, WordWidth DEF Halves
<1>4. PICK d : Doubles(d, half[Width])
  BY <1>3, DoublesExist
<1> DEFINE T == {k \in Nat : k <= Width => half[Width - k] = up[k] + d[k]}
<1>5. 0 \in T
  BY <1>2, <1>3, <1>4, WordWidth DEF Ups, Doubles
<1>6. ASSUME NEW k \in T PROVE k + 1 \in T
  <2>1. ASSUME k + 1 <= Width PROVE half[Width - (k + 1)] = up[k + 1] + d[k + 1]
    <3> DEFINE b == Width - (k + 1)
    <3>1. k \in Nat /\ k + 1 \in 1 .. Width /\ (k + 1) - 1 = k /\ k \in 0 .. Width
      BY WordWidth, <2>1
    <3>2. b \in 0 .. Width - 1 /\ b + 1 \in 1 .. Width /\ (b + 1) - 1 = b /\ b + 1 = Width - k /\ b \in 0 .. Width
      BY WordWidth, <2>1, <3>1
    <3>3. half[b + 1] = up[k] + d[k]
      BY <3>1, <3>2, <2>1, WordWidth
    <3>4. up[k + 1] = Digit(x, k + 1) + 2 * up[k] /\ d[k + 1] = 2 * d[k]
      BY <1>2, <1>4, <3>1 DEF Ups, Doubles
    <3> HIDE DEF b
    <3>5. half[b + 1] = half[b] \div 2
      BY <1>1, <3>2 DEF Halves
    <3>6. half[b] \in Nat /\ up[k] \in Nat /\ d[k] \in Nat
      BY <1>1, <1>2, <1>4, <3>1, <3>2 DEF Halves, Ups, Doubles
    <3>7. Digit(x, k + 1) = half[b] % 2
      <4>1. b \in x <=> half[b] % 2 = 1
        BY <1>1, <3>2
      <4>2. Digit(x, k + 1) = IF b \in x THEN 1 ELSE 0
        BY DEF Digit, b
      <4> QED
        BY <4>1, <4>2, <3>6
    <3>8. half[b] = 2 * (half[b] \div 2) + (half[b] % 2)
      BY <3>6, Halved
    <3>9. half[b] = up[k + 1] + d[k + 1]
      BY <3>3, <3>4, <3>5, <3>6, <3>7, <3>8
    <3> QED
      BY <3>9 DEF b
  <2> QED
    BY <2>1
<1>7. T = Nat
  <2> HIDE DEF T
  <2>1. T \subseteq Nat
    BY DEF T
  <2> QED
    BY <1>5, <1>6, <2>1, Induction
<1>8. half[0] = up[Width] + d[Width]
  BY <1>7, WordWidth
<1>9. up[Width] \in Nat /\ half[0] = n
  BY <1>1, <1>2, WordWidth DEF Halves, Ups
<1> QED
  BY <1>2, <1>3, <1>4, <1>8, <1>9 DEF x

(* What is above the digits does not count.                                *)
LEMMA WordOfMore ==
    ASSUME NEW n \in Nat, NEW q \in Nat, NEW d, Doubles(d, q)
    PROVE  SR!Word(n + d[Width]) = SR!Word(n)
<1>1. d[Width] \in Nat
  BY WordWidth DEF Doubles
<1>2. PICK half : Halves(half, n) /\ SR!Word(n) = {b \in 0 .. Width - 1 : half[b] % 2 = 1}
  BY WordDef
<1> DEFINE m == n + d[Width]
<1>3. m \in Nat
  BY <1>1
<1>4. PICK more : Halves(more, m) /\ SR!Word(m) = {b \in 0 .. Width - 1 : more[b] % 2 = 1}
  <2> HIDE DEF m
  <2> QED
    BY <1>3, WordDef
<1> DEFINE T == {b \in Nat : b <= Width => more[b] = half[b] + d[Width - b]}
<1>5. 0 \in T
  BY <1>2, <1>4, WordWidth DEF Halves
<1> HIDE DEF m
<1>6. ASSUME NEW b \in T PROVE b + 1 \in T
  <2>1. ASSUME b + 1 <= Width PROVE more[b + 1] = half[b + 1] + d[Width - (b + 1)]
    <3> DEFINE k == Width - b
    <3>1. b \in Nat /\ b + 1 \in 1 .. Width /\ (b + 1) - 1 = b /\ b \in 0 .. Width /\ b + 1 \in 0 .. Width
      BY WordWidth, <2>1
    <3>2. k \in 1 .. Width /\ k - 1 \in 0 .. Width /\ k - 1 = Width - (b + 1)
      BY WordWidth, <2>1, <3>1
    <3>3. more[b] = half[b] + d[k]
      BY <3>1, <3>2, <2>1, WordWidth
    <3> HIDE DEF k
    <3>4. half[b + 1] = half[b] \div 2 /\ more[b + 1] = more[b] \div 2
      BY <1>2, <1>4, <3>1 DEF Halves
    <3>5. d[k] = 2 * d[k - 1] /\ d[k - 1] \in Nat /\ half[b] \in Nat
      BY <1>2, <3>1, <3>2 DEF Halves, Doubles
    <3>6. (half[b] + 2 * d[k - 1]) \div 2 = (half[b] \div 2) + d[k - 1]
      BY <3>5
    <3> QED
      BY <3>2, <3>3, <3>4, <3>5, <3>6
  <2> QED
    BY <2>1
<1>7. T = Nat
  <2> HIDE DEF T
  <2>1. T \subseteq Nat
    BY DEF T
  <2> QED
    BY <1>5, <1>6, <2>1, Induction
<1>8. ASSUME NEW b \in 0 .. Width - 1 PROVE more[b] % 2 = half[b] % 2
  <2>1. more[b] = half[b] + d[Width - b]
    BY <1>7, WordWidth
  <2> DEFINE k == Width - b
  <2>2. k \in 1 .. Width /\ k - 1 \in 0 .. Width /\ b \in 0 .. Width
    BY WordWidth
  <2>3. d[k] = 2 * d[k - 1] /\ d[k - 1] \in Nat /\ half[b] \in Nat
    BY <1>2, <2>2 DEF Halves, Doubles
  <2>4. (half[b] + 2 * d[k - 1]) % 2 = half[b] % 2
    BY <2>3
  <2> QED
    BY <2>1, <2>3, <2>4
<1> QED
  BY <1>2, <1>4, <1>8 DEF m

(* Sums of words are sums of numbers.                                      *)
LEMMA WordSum ==
    ASSUME NEW m \in Nat, NEW n \in Nat
    PROVE  SR!Word(m + SR!Num(SR!Word(n))) = SR!Word(m + n)
<1> DEFINE p == SR!Num(SR!Word(n))
<1>1. p \in Nat
  BY NumOfWord
<1>2. PICK q, d : q \in Nat /\ Doubles(d, q) /\ n = p + d[Width]
  BY NumOfWord
<1> HIDE DEF p
<1>3. d[Width] \in Nat
  BY <1>2, WordWidth DEF Doubles
<1>4. m + p \in Nat /\ (m + p) + d[Width] = m + n
  BY <1>1, <1>2, <1>3
<1>5. SR!Word((m + p) + d[Width]) = SR!Word(m + p)
  BY <1>2, <1>4, WordOfMore
<1> QED
  BY <1>4, <1>5 DEF p

(* Words, and their sums.                                                  *)
Words == SUBSET (0 .. Width - 1)

LEMMA WordOps ==
    ASSUME NEW x, NEW y
    PROVE  /\ SR!Num(x) \in Nat
           /\ SR!Plus(x, y) \in Words
<1>1. \A z : SR!Num(z) \in Nat
  <2> SUFFICES ASSUME NEW z PROVE SR!Num(z) \in Nat
    OBVIOUS
  <2>1. PICK up : Ups(up, z) /\ SR!Num(z) = up[Width]
    BY NumDef
  <2> QED
    BY <2>1, WordWidth DEF Ups
<1>2. \A n \in Nat : SR!Word(n) \in Words
  BY WordDef DEF Words
<1>3. SR!Num(x) + SR!Num(y) \in Nat
  BY <1>1
<1> QED
  BY <1>1, <1>2, <1>3 DEF SR!Plus

(* Four words are added in any order.                                      *)
LEMMA FourWords ==
    ASSUME NEW a, NEW b, NEW c, NEW e
    PROVE  /\ SR!Plus(SR!Plus(a, b), SR!Plus(c, e)) =
                SR!Word(SR!Num(a) + SR!Num(b) + SR!Num(c) + SR!Num(e))
           /\ SR!Plus(SR!Plus(a, SR!Plus(b, c)), e) = SR!Plus(SR!Plus(a, b), SR!Plus(c, e))
<1> DEFINE na == SR!Num(a)
           nb == SR!Num(b)
           nc == SR!Num(c)
           ne == SR!Num(e)
           NW(n) == SR!Num(SR!Word(n))
<1>1. na \in Nat /\ nb \in Nat /\ nc \in Nat /\ ne \in Nat
  BY WordOps
<1>2. \A m, n \in Nat : SR!Word(m + NW(n)) = SR!Word(m + n) /\ NW(n) \in Nat
  BY WordSum, NumOfWord
<1>3. /\ SR!Plus(SR!Plus(a, b), SR!Plus(c, e)) = SR!Word(NW(na + nb) + NW(nc + ne))
      /\ SR!Plus(SR!Plus(a, SR!Plus(b, c)), e) = SR!Word(NW(na + NW(nb + nc)) + ne)
  BY DEF SR!Plus
<1> HIDE DEF na, nb, nc, ne, NW
<1>4. SR!Word(NW(na + nb) + NW(nc + ne)) = SR!Word(na + nb + nc + ne)
  <2>1. na + nb \in Nat /\ nc + ne \in Nat
    BY <1>1
  <2>2. SR!Word(NW(na + nb) + NW(nc + ne)) = SR!Word(NW(na + nb) + (nc + ne))
    BY <1>2, <2>1
  <2>3. NW(na + nb) + (nc + ne) = (nc + ne) + NW(na + nb)
    BY <1>2, <2>1
  <2>4. SR!Word((nc + ne) + NW(na + nb)) = SR!Word((nc + ne) + (na + nb))
    BY <1>2, <2>1
  <2>5. (nc + ne) + (na + nb) = na + nb + nc + ne
    BY <1>1
  <2> QED
    BY <2>2, <2>3, <2>4, <2>5
<1>5. SR!Word(NW(na + NW(nb + nc)) + ne) = SR!Word(na + nb + nc + ne)
  <2>1. nb + nc \in Nat /\ NW(nb + nc) \in Nat
    BY <1>1, <1>2
  <2>2. na + NW(nb + nc) \in Nat
    BY <1>1, <2>1
  <2>3. NW(na + NW(nb + nc)) \in Nat
    BY <1>2, <2>2
  <2>4. NW(na + NW(nb + nc)) + ne = ne + NW(na + NW(nb + nc))
    BY <1>1, <2>3
  <2>5. SR!Word(ne + NW(na + NW(nb + nc))) = SR!Word(ne + (na + NW(nb + nc)))
    BY <1>1, <1>2, <2>2
  <2>6. ne + (na + NW(nb + nc)) = (ne + na) + NW(nb + nc)
    BY <1>1, <2>1
  <2>7. SR!Word((ne + na) + NW(nb + nc)) = SR!Word((ne + na) + (nb + nc))
    <3>1. ne + na \in Nat
      BY <1>1
    <3> QED
      BY <1>2, <2>1, <3>1
  <2>8. (ne + na) + (nb + nc) = na + nb + nc + ne
    BY <1>1
  <2> QED
    BY <2>4, <2>5, <2>6, <2>7, <2>8
<1>6. SR!Word(na + nb + nc + ne) = SR!Word(SR!Num(a) + SR!Num(b) + SR!Num(c) + SR!Num(e))
  BY DEF na, nb, nc, ne
<1> QED
  BY <1>3, <1>4, <1>5, <1>6

(* The functions of the code are those of the standard.                    *)
LEMMA ChMaj ==
    ASSUME NEW x \in Words, NEW y \in Words, NEW z \in Words
    PROVE  /\ SR!Ch(x, y, z) = SR!FipsCh(x, y, z)
           /\ SR!Maj(x, y, z) = SR!FipsMaj(x, y, z)
<1>1. SR!Ch(x, y, z) = SR!FipsCh(x, y, z)
  BY DEF SR!Ch, SR!FipsCh, SR!Xor, SR!Not, SR!Bits, Words
<1>2. SR!Maj(x, y, z) = SR!FipsMaj(x, y, z)
  BY DEF SR!Maj, SR!FipsMaj, SR!Xor, SR!Xor3, Words
<1> QED
  BY <1>1, <1>2

(* A function of numbers from 1 is a sequence.                             *)
LEMMA TupleIs ==
    ASSUME NEW V, NEW n \in Nat, NEW s \in [1 .. n -> V]
    PROVE  s \in Seq(V) /\ Len(s) = n
  OBVIOUS

(* What is written behind the first sixteen words.                         *)
NewWord(w, t) ==
    SR!Word(SR!Num(SR!Gamma1(w[t - 2])) + SR!Num(w[t - 7]) + SR!Num(SR!Gamma0(w[t - 15])) + SR!Num(w[t - 16]))

IsScheduleTo(w, n) ==
    /\ w \in Seq(Words) /\ Len(w) = n
    /\ \A t \in 17 .. n : w[t] = NewWord(w, t)

LEMMA NextWordIs ==
    ASSUME NEW w \in Seq(Words)
    PROVE  /\ SR!NextWord(w) \in Seq(Words)
           /\ \A n \in Nat : n >= 16 /\ IsScheduleTo(w, n) => IsScheduleTo(SR!NextWord(w), n + 1)
<1> DEFINE n == Len(w)
           new == SR!Plus(SR!Plus(SR!Gamma1(w[n - 1]), w[n - 6]), SR!Plus(SR!Gamma0(w[n - 14]), w[n - 15]))
           more == SR!NextWord(w)
<1>1. more = Append(w, new)
  BY DEF SR!NextWord
<1>2. new \in Words
  BY WordOps
<1>3. new = SR!Word(SR!Num(SR!Gamma1(w[n - 1])) + SR!Num(w[n - 6])
                      + SR!Num(SR!Gamma0(w[n - 14])) + SR!Num(w[n - 15]))
  BY FourWords
<1> HIDE DEF new, more
<1>4. /\ more \in Seq(Words) /\ Len(more) = n + 1
      /\ more[n + 1] = new /\ \A t \in 1 .. n : more[t] = w[t]
  BY <1>1, <1>2
<1>5. n \in Nat
  OBVIOUS
<1>6. ASSUME n >= 16, IsScheduleTo(w, n) PROVE IsScheduleTo(more, n + 1)
  <2> SUFFICES ASSUME NEW t \in 17 .. n + 1 PROVE more[t] = NewWord(more, t)
    BY <1>4 DEF IsScheduleTo
  <2> HIDE DEF n
  <2>1. t - 2 \in 1 .. n /\ t - 7 \in 1 .. n /\ t - 15 \in 1 .. n /\ t - 16 \in 1 .. n
    BY <1>5, <1>6
  <2>2. NewWord(more, t) = NewWord(w, t)
    BY <1>4, <2>1 DEF NewWord
  <2>3. CASE t \in 17 .. n
    BY <1>4, <1>5, <1>6, <2>2, <2>3 DEF IsScheduleTo
  <2>4. CASE t = n + 1
    <3>1. t - 2 = n - 1 /\ t - 7 = n - 6 /\ t - 15 = n - 14 /\ t - 16 = n - 15
      BY <1>5, <2>4
    <3>2. NewWord(w, t) = new
      BY <1>3, <3>1 DEF NewWord
    <3> QED
      BY <1>4, <2>2, <2>4, <3>2
  <2> QED
    BY <1>5, <2>3, <2>4
<1>7. \A k \in Nat : IsScheduleTo(w, k) => k = n
  BY DEF IsScheduleTo
<1> HIDE DEF n
<1> QED
  BY <1>4, <1>6, <1>7 DEF more

(* The message schedule of the code.                                       *)
LEMMA ScheduleIs ==
    ASSUME NEW block \in [1 .. 16 -> Words]
    PROVE  IsScheduleTo(SR!Schedule(block), 80)
<1> DEFINE X == Seq(Words)
           F == [k \in 1 .. 64 |-> [v \in X |-> SR!NextWord(v)]]
           A(g) == g = [k \in 0 .. 64 |-> IF k = 0 THEN block ELSE SR!NextWord(g[k - 1])]
           w == CHOOSE g : A(g)
<1>1. SR!Schedule(block) = w[64]
  BY DEF SR!Schedule
<1>2. block \in X /\ IsScheduleTo(block, 16)
  <2>1. block \in X /\ Len(block) = 16
    BY TupleIs
  <2> QED
    BY <2>1 DEF IsScheduleTo
<1>3. StepsOn(F, 64, X)
  BY NextWordIs DEF StepsOn
<1>4. PICK g : Leads(g, block, F, 64, X)
  <2> HIDE DEF F, X
  <2> QED
    BY <1>2, <1>3, Recursion
<1>5. A(g)
  <2>1. ASSUME NEW k \in 0 .. 64, k # 0 PROVE F[k][g[k - 1]] = SR!NextWord(g[k - 1])
    <3>1. k \in 1 .. 64 /\ k - 1 \in 0 .. 64
      BY <2>1
    <3>2. g[k - 1] \in X
      <4> HIDE DEF F, X
      <4> QED
        BY <1>4, <3>1 DEF Leads
    <3> QED
      BY <3>1, <3>2
  <2> HIDE DEF F, X
  <2> QED
    BY <1>4, <2>1 DEF Leads
<1>6. A(w)
  BY <1>5
<1> HIDE DEF w
<1>7. w[0] = block /\ \A k \in 1 .. 64 : w[k] = SR!NextWord(w[k - 1])
  BY <1>6
<1> DEFINE T == {k \in Nat : k <= 64 => IsScheduleTo(w[k], 16 + k)}
<1>8. 0 \in T
  <2>1. IsScheduleTo(w[0], 16 + 0)
    BY <1>2, <1>7
  <2> QED
    BY <2>1
<1>9. ASSUME NEW k \in T PROVE k + 1 \in T
  <2>1. ASSUME k + 1 <= 64 PROVE IsScheduleTo(w[k + 1], 16 + (k + 1))
    <3>1. k \in Nat /\ k + 1 \in 1 .. 64 /\ (k + 1) - 1 = k /\ 16 + (k + 1) = (16 + k) + 1
      BY <2>1
    <3>2. IsScheduleTo(w[k], 16 + k) /\ w[k] \in Seq(Words)
      BY <2>1, <3>1 DEF IsScheduleTo
    <3>3. w[k + 1] = SR!NextWord(w[k])
      BY <1>7, <3>1
    <3>4. 16 + k \in Nat /\ 16 + k >= 16
      BY <3>1
    <3>5. IsScheduleTo(SR!NextWord(w[k]), (16 + k) + 1)
      BY <3>2, <3>4, NextWordIs
    <3> QED
      BY <3>1, <3>3, <3>5
  <2> QED
    BY <2>1
<1>10. T = Nat
  <2> HIDE DEF T
  <2>1. T \subseteq Nat
    BY DEF T
  <2> QED
    BY <1>8, <1>9, <2>1, Induction
<1>11. IsScheduleTo(w[64], 16 + 64)
  BY <1>10
<1> QED
  BY <1>1, <1>11

(* The names of the words in one round and the next.                       *)
LEMMA Roles ==
    ASSUME NEW r \in 0 .. 7
    PROVE  /\ \A k \in 0 .. 7 : SR!Role(r, k) \in 1 .. 8
           /\ \A k, m \in 0 .. 7 : SR!Role(r, k) = SR!Role(r, m) => k = m
           /\ SR!Role(r + 1, 0) = SR!Role(r, 7)
           /\ \A k \in 1 .. 7 : SR!Role(r + 1, k) = SR!Role(r, k - 1)
  BY DEF SR!Role

(* The words of the code are those of the standard, by their names.        *)
SameWords(s, v, r) ==
    /\ s \in [1 .. 8 -> Words] /\ v \in [1 .. 8 -> Words]
    /\ \A k \in 0 .. 7 : s[SR!Role(r, k)] = v[k + 1]

(* The rounds, by what they compute of all of the words.                   *)
LEMMA RNDIs ==
    ASSUME NEW s, NEW w, NEW t, NEW r, NEW a, NEW b,
           SR!T0(SR!Named(s, r), w, t + r) = a, SR!T1(SR!Named(s, r)) = b
    PROVE  SR!RND(s, w, t, r) =
             [s EXCEPT ![SR!Role(r, 3)] = SR!Plus(s[SR!Role(r, 3)], a), ![SR!Role(r, 7)] = SR!Plus(a, b)]
  BY DEF SR!RND

LEMMA FipsRoundIs ==
    ASSUME NEW v, NEW w, NEW t, NEW a, NEW b, SR!FipsT1(v, w, t) = a, SR!FipsT2(v) = b
    PROVE  SR!FipsRound(v, w, t) =
             [k \in 1 .. 8 |-> IF k = 1 THEN SR!Plus(a, b)
                               ELSE IF k = 5 THEN SR!Plus(v[4], a) ELSE v[k - 1]]
  BY DEF SR!FipsRound

(* A round makes words of words.                                           *)
LEMMA RoundTypes ==
    ASSUME NEW s \in [1 .. 8 -> Words], NEW w, NEW t, NEW r
    PROVE  /\ SR!RND(s, w, t, r) \in [1 .. 8 -> Words]
           /\ SR!FipsRound(s, w, t) \in [1 .. 8 -> Words]
<1>1. \A x, y : SR!Plus(x, y) \in Words
  BY WordOps
<1>2. SR!RND(s, w, t, r) \in [1 .. 8 -> Words]
  BY <1>1, RNDIs
<1>3. SR!FipsRound(s, w, t) \in [1 .. 8 -> Words]
  BY <1>1, FipsRoundIs
<1> QED
  BY <1>2, <1>3

LEMMA RoundKeeps ==
    ASSUME NEW s, NEW v, NEW w, NEW t \in Nat, NEW r \in 0 .. 7, SameWords(s, v, r)
    PROVE  SameWords(SR!RND(s, w, t, r), SR!FipsRound(v, w, t + r), r + 1)
<1> DEFINE R(k) == SR!Role(r, k)
           t0 == SR!Plus(SR!Plus(v[8], SR!Plus(SR!Sigma1(v[5]), SR!Ch(v[5], v[6], v[7]))),
                         SR!Plus(RoundK[t + r + 1], w[t + r + 1]))
           t1 == SR!Plus(SR!Sigma0(v[1]), SR!Maj(v[1], v[2], v[3]))
           top == SR!Plus(t0, t1)
           mid == SR!Plus(v[4], t0)
<1>1. /\ \A k \in 1 .. 8 : v[k] \in Words
      /\ s \in [1 .. 8 -> Words]
  BY DEF SameWords
<1>2. SR!FipsT1(v, w, t + r) = t0 /\ SR!FipsT2(v) = t1
  <2>1. /\ SR!FipsCh(v[5], v[6], v[7]) = SR!Ch(v[5], v[6], v[7])
        /\ SR!FipsMaj(v[1], v[2], v[3]) = SR!Maj(v[1], v[2], v[3])
    BY <1>1, ChMaj
  <2>2. SR!FipsT1(v, w, t + r) =
          SR!Plus(SR!Plus(v[8], SR!Sigma1(v[5])),
                  SR!Plus(SR!FipsCh(v[5], v[6], v[7]), SR!Plus(RoundK[t + r + 1], w[t + r + 1])))
    BY DEF SR!FipsT1
  <2>3. SR!FipsT2(v) = SR!Plus(SR!Sigma0(v[1]), SR!FipsMaj(v[1], v[2], v[3]))
    BY DEF SR!FipsT2
  <2> QED
    BY <2>1, <2>2, <2>3, FourWords
<1>3. /\ s[R(0)] = v[1] /\ s[R(1)] = v[2] /\ s[R(2)] = v[3] /\ s[R(3)] = v[4]
      /\ s[R(4)] = v[5] /\ s[R(5)] = v[6] /\ s[R(6)] = v[7] /\ s[R(7)] = v[8]
  BY DEF SameWords
<1> DEFINE E(x, y) == [s EXCEPT ![R(3)] = x, ![R(7)] = y]
<1>4. SR!RND(s, w, t, r) = E(mid, top)
  <2> DEFINE named == SR!Named(s, r)
  <2>1. SR!RND(s, w, t, r) =
          E(SR!Plus(s[R(3)], SR!T0(named, w, t + r)), SR!Plus(SR!T0(named, w, t + r), SR!T1(named)))
    BY DEF SR!RND
  <2>2. \A k \in 0 .. 7 : named[k] = s[R(k)]
    BY DEF SR!Named
  <2> HIDE DEF E, R, named
  <2>3. SR!T0(named, w, t + r) = t0 /\ SR!T1(named) = t1
    BY <1>3, <2>2 DEF SR!T0, SR!T1
  <2>4. SR!Plus(s[R(3)], t0) = mid /\ SR!Plus(t0, t1) = top
    BY <1>3
  <2> HIDE DEF mid, top, t0, t1
  <2> QED
    BY <2>1, <2>3, <2>4
<1>5. SR!FipsRound(v, w, t + r) =
        [k \in 1 .. 8 |-> IF k = 1 THEN top ELSE IF k = 5 THEN mid ELSE v[k - 1]]
  <2> DEFINE f0 == SR!FipsT1(v, w, t + r)
             f1 == SR!FipsT2(v)
  <2>1. SR!FipsRound(v, w, t + r) =
          [k \in 1 .. 8 |-> IF k = 1 THEN SR!Plus(f0, f1) ELSE IF k = 5 THEN SR!Plus(v[4], f0) ELSE v[k - 1]]
    BY DEF SR!FipsRound
  <2>2. SR!Plus(f0, f1) = top /\ SR!Plus(v[4], f0) = mid
    BY <1>2
  <2> HIDE DEF f0, f1, top, mid
  <2> QED
    BY <2>1, <2>2
<1>6. top \in Words /\ mid \in Words
  BY WordOps
<1> HIDE DEF top, mid
<1> DEFINE n == SR!RND(s, w, t, r)
           f == SR!FipsRound(v, w, t + r)
<1>7. n \in [1 .. 8 -> Words] /\ f \in [1 .. 8 -> Words]
  BY RoundTypes DEF SameWords
<1>8. /\ f[1] = top /\ f[2] = v[1] /\ f[3] = v[2] /\ f[4] = v[3]
      /\ f[5] = mid /\ f[6] = v[5] /\ f[7] = v[6] /\ f[8] = v[7]
  BY <1>5
<1>9. n[R(7)] = top /\ n[R(3)] = mid /\ \A k \in {0, 1, 2, 4, 5, 6} : n[R(k)] = s[R(k)]
  <2>1. /\ \A k \in {0, 1, 2, 4, 5, 6} : R(k) \in 1 .. 8 /\ R(k) # R(3) /\ R(k) # R(7)
        /\ R(3) # R(7) /\ R(3) \in 1 .. 8 /\ R(7) \in 1 .. 8
    BY Roles
  <2> HIDE DEF R
  <2> QED
    BY <1>1, <1>4, <2>1
<1>10. ASSUME NEW k \in 0 .. 7 PROVE n[SR!Role(r + 1, k)] = f[k + 1]
  <2>1. SR!Role(r + 1, 0) = R(7)
    BY Roles
  <2>2. \A j \in 1 .. 7 : SR!Role(r + 1, j) = R(j - 1)
    BY Roles
  <2> HIDE DEF R, n, f
  <2>3. CASE k = 0
    BY <1>8, <1>9, <2>1, <2>3
  <2>4. CASE k \in 1 .. 7
    <3>1. n[SR!Role(r + 1, k)] = n[R(k - 1)]
      BY <2>2, <2>4
    <3>2. n[R(k - 1)] = f[k + 1]
      <4>1. k = 1 \/ k = 2 \/ k = 3 \/ k = 4 \/ k = 5 \/ k = 6 \/ k = 7
        BY <2>4
      <4> QED
        BY <1>3, <1>8, <1>9, <4>1
    <3> QED
      BY <3>1, <3>2
  <2> QED
    BY <2>3, <2>4
<1> QED
  BY <1>7, <1>10 DEF SameWords

(* The words after each round of a turn.                                   *)
TurnIs(at, fat, s, w, t) ==
    /\ at[0] = s /\ fat[0] = s
    /\ \A r \in 0 .. 7 : /\ at[r + 1] = SR!RND(at[r], w, t, r)
                         /\ fat[r + 1] = SR!FipsRound(fat[r], w, t + r)
    /\ SR!Turn(s, w, t) = at[8]
    /\ SR!FipsTurn(s, w, t) = fat[8]

LEMMA TurnDef ==
    ASSUME NEW s \in [1 .. 8 -> Words], NEW w, NEW t \in Nat
    PROVE  \E at, fat : TurnIs(at, fat, s, w, t)
<1> DEFINE X == [1 .. 8 -> Words]
           F == [r \in 1 .. 8 |-> [x \in X |-> SR!RND(x, w, t, r - 1)]]
           G == [r \in 1 .. 8 |-> [x \in X |-> SR!FipsRound(x, w, t + (r - 1))]]
           A(h) == h = [r \in 0 .. 8 |-> IF r = 0 THEN s ELSE SR!RND(h[r - 1], w, t, r - 1)]
           B(h) == h = [r \in 0 .. 8 |-> IF r = 0 THEN s ELSE SR!FipsRound(h[r - 1], w, t + (r - 1))]
           at == CHOOSE h : A(h)
           fat == CHOOSE h : B(h)
<1>1. SR!Turn(s, w, t) = at[8]
  BY DEF SR!Turn
<1>2. SR!FipsTurn(s, w, t) = fat[8]
  BY DEF SR!FipsTurn
<1>3. StepsOn(F, 8, X) /\ StepsOn(G, 8, X)
  BY RoundTypes DEF StepsOn
<1>4. /\ \E g : Leads(g, s, F, 8, X)
      /\ \E g : Leads(g, s, G, 8, X)
  <2> HIDE DEF F, G
  <2>1. s \in X /\ 8 \in Nat
    OBVIOUS
  <2> HIDE DEF X
  <2> QED
    BY <1>3, <2>1, Recursion
<1>5. PICK f : Leads(f, s, F, 8, X)
  BY <1>4
<1>6. PICK g : Leads(g, s, G, 8, X)
  BY <1>4
<1>7. \A r \in 0 .. 8 : f[r] \in X /\ g[r] \in X
  <2> HIDE DEF F, G, X
  <2> QED
    BY <1>5, <1>6 DEF Leads
<1>8. A(f)
  <2>1. ASSUME NEW r \in 0 .. 8, r # 0 PROVE F[r][f[r - 1]] = SR!RND(f[r - 1], w, t, r - 1)
    <3>1. r \in 1 .. 8 /\ r - 1 \in 0 .. 8
      BY <2>1
    <3> QED
      BY <1>7, <3>1
  <2> HIDE DEF F, X
  <2> QED
    BY <1>5, <2>1 DEF Leads
<1>9. B(g)
  <2>1. ASSUME NEW r \in 0 .. 8, r # 0 PROVE G[r][g[r - 1]] = SR!FipsRound(g[r - 1], w, t + (r - 1))
    <3>1. r \in 1 .. 8 /\ r - 1 \in 0 .. 8
      BY <2>1
    <3> QED
      BY <1>7, <3>1
  <2> HIDE DEF G, X
  <2> QED
    BY <1>6, <2>1 DEF Leads
<1>10. A(at) /\ B(fat)
  BY <1>8, <1>9
<1> HIDE DEF at, fat
<1>11. \A r \in 0 .. 7 : r + 1 \in 0 .. 8 /\ r + 1 # 0 /\ (r + 1) - 1 = r
  OBVIOUS
<1>12. /\ at[0] = s /\ \A r \in 0 .. 7 : at[r + 1] = SR!RND(at[r], w, t, r)
       /\ fat[0] = s /\ \A r \in 0 .. 7 : fat[r + 1] = SR!FipsRound(fat[r], w, t + r)
  BY <1>10, <1>11
<1>13. TurnIs(at, fat, s, w, t)
  BY <1>1, <1>2, <1>12 DEF TurnIs
<1> QED
  BY <1>13

(* After a turn of eight rounds every word has its own name again.         *)
LEMMA TurnKeeps ==
    ASSUME NEW s \in [1 .. 8 -> Words], NEW w, NEW t \in Nat
    PROVE  /\ SR!Turn(s, w, t) = SR!FipsTurn(s, w, t)
           /\ SR!Turn(s, w, t) \in [1 .. 8 -> Words]
<1>1. PICK at, fat : TurnIs(at, fat, s, w, t)
  BY TurnDef
<1> DEFINE T == {r \in Nat : r <= 8 => SameWords(at[r], fat[r], r)}
<1>2. 0 \in T
  <2>1. \A k \in 0 .. 7 : SR!Role(0, k) = k + 1
    BY DEF SR!Role
  <2>2. SameWords(s, s, 0)
    BY <2>1 DEF SameWords
  <2> QED
    BY <1>1, <2>2 DEF TurnIs
<1>3. ASSUME NEW r \in T PROVE r + 1 \in T
  <2>1. ASSUME r + 1 <= 8 PROVE SameWords(at[r + 1], fat[r + 1], r + 1)
    <3>1. r \in 0 .. 7 /\ SameWords(at[r], fat[r], r)
      BY <2>1
    <3>2. at[r + 1] = SR!RND(at[r], w, t, r) /\ fat[r + 1] = SR!FipsRound(fat[r], w, t + r)
      BY <1>1, <3>1 DEF TurnIs
    <3>3. SameWords(SR!RND(at[r], w, t, r), SR!FipsRound(fat[r], w, t + r), r + 1)
      BY <3>1, RoundKeeps
    <3> QED
      BY <3>2, <3>3
  <2> QED
    BY <2>1
<1>4. T = Nat
  <2> HIDE DEF T
  <2>1. T \subseteq Nat
    BY DEF T
  <2> QED
    BY <1>2, <1>3, <2>1, Induction
<1>5. SameWords(at[8], fat[8], 8)
  BY <1>4
<1>6. at[8] = fat[8]
  <2>1. \A k \in 0 .. 7 : SR!Role(8, k) = k + 1
    BY DEF SR!Role
  <2>2. \A k \in 1 .. 8 : k - 1 \in 0 .. 7 /\ (k - 1) + 1 = k
    OBVIOUS
  <2>3. \A k \in 1 .. 8 : at[8][k] = fat[8][k]
    BY <1>5, <2>1, <2>2 DEF SameWords
  <2> QED
    BY <1>5, <2>3 DEF SameWords
<1> QED
  BY <1>1, <1>5, <1>6 DEF TurnIs, SameWords

(* The inductive invariant of the rounds.                                  *)
RoundsInv ==
    /\ roundDone \in Nat
    /\ roundS \in [1 .. 8 -> Words] /\ roundF = roundS
    /\ roundIn[1] \in [1 .. 8 -> Words]
    /\ IsScheduleTo(roundW, 80)

(* For words of any width, whatever the state and the block, and whatever  *)
(* the constants: the eight rounds of each turn, which name the words      *)
(* differently instead of moving them, are those of the standard, and the  *)
(* message schedule is the standard's.                                     *)
THEOREM Sha512RoundsAreStandard == SR!Spec => []Sha512RoundsAreFips
<1> USE DEF SR!vars
<1>1. ASSUME SR!Init PROVE RoundsInv
  <2>1. roundIn[1] \in [1 .. 8 -> Words] /\ roundIn[2] \in [1 .. 16 -> Words]
    BY <1>1, Sha512RoundsGiven DEF SR!Init, SR!RoundsGiven, SR!Bits, Words
  <2>2. IsScheduleTo(SR!Schedule(roundIn[2]), 80)
    BY <2>1, ScheduleIs
  <2> QED
    BY <1>1, <2>1, <2>2 DEF SR!Init, RoundsInv
<1>2. ASSUME RoundsInv, [SR!Next]_SR!vars PROVE RoundsInv'
  <2> USE <1>2 DEF RoundsInv
  <2>1. CASE SR!EightRounds
    <3>1. /\ SR!Turn(roundS, roundW, roundDone) = SR!FipsTurn(roundS, roundW, roundDone)
          /\ SR!Turn(roundS, roundW, roundDone) \in [1 .. 8 -> Words]
      BY TurnKeeps
    <3> QED
      BY <2>1, <3>1 DEF SR!EightRounds
  <2>2. CASE SR!Feedback
    <3> DEFINE P(k) == SR!Plus(roundIn[1][k], roundS[k])
    <3>1. \A k \in 1 .. 8 : P(k) \in Words
      BY WordOps
    <3>2. roundS' = [k \in 1 .. 8 |-> P(k)]
      BY <2>2 DEF SR!Feedback
    <3>3. roundF' = <<P(1), P(2), P(3), P(4), P(5), P(6), P(7), P(8)>>
      BY <2>2 DEF SR!Feedback
    <3>4. roundDone' \in Nat /\ UNCHANGED <<roundIn, roundW>>
      BY <2>2 DEF SR!Feedback
    <3> HIDE DEF P
    <3>5. roundS' = roundF'
      BY <3>2, <3>3
    <3> QED
      BY <3>1, <3>2, <3>4, <3>5
  <2>3. CASE UNCHANGED SR!vars
    BY <2>3
  <2> QED
    BY <2>1, <2>2, <2>3 DEF SR!Next
<1>3. RoundsInv => Sha512RoundsAreFips
  BY DEF RoundsInv, Sha512RoundsAreFips, SR!RoundsAreFips, IsScheduleTo, NewWord
<1> QED
  BY <1>1, <1>2, <1>3, PTL DEF SR!Spec

-----------------------------------------------------------------------------
(* Strings.                                                                *)

(* A digit stands for its value.                                           *)
LEMMA DigitValue ==
    ASSUME NEW d \in 0 .. 15
    PROVE  UT!from_hex(UT!Lower[d + 1]) = d
<1> DEFINE c == UT!Lower[d + 1]
           at == {i \in 1 .. 16 : UT!Lower[i] = c \/ UT!Upper[i] = c}
<1>1. \A i \in 1 .. 16 : UT!Lower[i] = c => i = d + 1
  BY DEF UT!Lower
<1>2. \A i \in 1 .. 16 : UT!Upper[i] = c => i = d + 1
  BY DEF UT!Lower, UT!Upper
<1>3. at = {d + 1}
  BY <1>1, <1>2
<1>4. UT!Least({d + 1}) = d + 1
  BY DEF UT!Least
<1>5. UT!from_hex(c) = IF at = {} THEN -1 ELSE UT!Least(at) - 1
  BY DEF UT!from_hex
<1> HIDE DEF at, c
<1>6. UT!from_hex(c) = d
  BY <1>3, <1>4, <1>5
<1> QED
  BY <1>6 DEF c

(* What a cell of memory may hold, and a memory.                           *)
Characters == {UT!NUL, "untouched", "e", "4", "/"} \cup {UT!Lower[i] : i \in 1 .. 16}

Cells == Characters \cup Int \cup UNION {{str[i] : i \in 1 .. Len(str)} : str \in Encodings}

Memories == [1 .. MemLen -> Cells]

(* Digits are characters, and two of them are put into a memory.           *)
LEMMA DigitsPut ==
    ASSUME NEW m \in Memories, NEW b \in 0 .. 255, NEW at \in Int
    PROVE  /\ Len(UT!Digits(b)) = 2
           /\ \A n \in {1, 2} : UT!Digits(b)[n] \in Cells \ {UT!NUL}
           /\ UT!Put(m, at, UT!Digits(b)) =
                [i \in 1 .. MemLen |-> IF i = at THEN UT!Digits(b)[1] ELSE IF i = at + 1 THEN UT!Digits(b)[2]
                                       ELSE IF i = at + 2 THEN UT!NUL ELSE m[i]]
           /\ UT!Put(m, at, UT!Digits(b)) \in Memories
<1>1. ASSUME NEW d \in 0 .. 15 PROVE UT!Lower[d + 1] \in Cells \ {UT!NUL}
  <2>1. UT!Lower[d + 1] # UT!NUL
    BY DEF UT!Lower, UT!NUL
  <2>2. d + 1 \in 1 .. 16
    OBVIOUS
  <2> QED
    BY <2>1, <2>2 DEF Cells, Characters
<1>2. b \div 16 \in 0 .. 15 /\ b % 16 \in 0 .. 15
  OBVIOUS
<1>3. UT!Digits(b) = <<UT!Lower[(b \div 16) + 1], UT!Lower[(b % 16) + 1]>>
  BY <1>2 DEF UT!Digits
<1>4. Len(UT!Digits(b)) = 2 /\ \A n \in {1, 2} : UT!Digits(b)[n] \in Cells \ {UT!NUL}
  BY <1>1, <1>2, <1>3
<1>5. UT!Put(m, at, UT!Digits(b)) =
        [i \in 1 .. MemLen |-> IF i = at THEN UT!Digits(b)[1] ELSE IF i = at + 1 THEN UT!Digits(b)[2]
                               ELSE IF i = at + 2 THEN UT!NUL ELSE m[i]]
  BY <1>4 DEF UT!Put
<1>6. UT!Put(m, at, UT!Digits(b)) \in Memories
  <2>1. UT!NUL \in Cells
    BY DEF Cells, Characters
  <2> QED
    BY <1>4, <1>5, <2>1 DEF Memories
<1> QED
  BY <1>4, <1>5, <1>6

(* "e4/" in a memory.                                                      *)
LEMMA PrefixPut ==
    ASSUME NEW m \in Memories
    PROVE  /\ UT!Put(m, 1, <<"e", "4", "/">>) =
                [i \in 1 .. MemLen |-> IF i <= 3 THEN <<"e", "4", "/">>[i]
                                       ELSE IF i = 4 THEN UT!NUL ELSE m[i]]
           /\ UT!Put(m, 1, <<"e", "4", "/">>) \in Memories
<1> DEFINE str == <<"e", "4", "/">>
           P == [i \in 1 .. MemLen |-> IF i <= 3 THEN str[i] ELSE IF i = 4 THEN UT!NUL ELSE m[i]]
<1>1. Len(str) = 3 /\ \A n \in 1 .. 3 : str[n] \in Cells
  BY DEF Cells, Characters
<1>2. UT!NUL \in Cells
  BY DEF Cells, Characters
<1> HIDE DEF str
<1>3. MemLen \in Nat
  BY E4UtilStringsGiven DEF UT!StringsGiven
<1>4. UT!Put(m, 1, str) = P
  BY <1>1, <1>3 DEF UT!Put
<1>5. P \in Memories
  BY <1>1, <1>2, <1>3 DEF Memories
<1> QED
  BY <1>4, <1>5 DEF str

(* The memory of e4c_derive_control_topic, pair of digits by pair.         *)
TopicTurns(put, m, id) ==
    /\ put[0] = UT!Put(m, 1, <<"e", "4", "/">>)
    /\ \A k \in 1 .. E4_ID_LEN : put[k] = UT!Put(put[k - 1], 2 + 2 * k, UT!Digits(id[k]))
    /\ UT!Topic(m, id) = put[E4_ID_LEN]

(* The loop of e4c_derive_control_topic.                                   *)
LEMMA TopicDef ==
    ASSUME NEW m \in Memories, NEW id \in [1 .. E4_ID_LEN -> 0 .. 255]
    PROVE  \E put : TopicTurns(put, m, id)
<1> DEFINE n == E4_ID_LEN
           z == UT!Put(m, 1, <<"e", "4", "/">>)
           St(x, k) == UT!Put(x, 2 + 2 * k, UT!Digits(id[k]))
           F == [k \in 1 .. n |-> [x \in Memories |-> St(x, k)]]
           A(g) == g = [k \in 0 .. n |-> IF k = 0 THEN z ELSE St(g[k - 1], k)]
           at == CHOOSE g : A(g)
<1>1. n \in Nat
  BY E4UtilStringsGiven DEF UT!StringsGiven
<1>2. \A x \in Memories, k \in 1 .. n : St(x, k) \in Memories
  <2> SUFFICES ASSUME NEW x \in Memories, NEW k \in 1 .. n PROVE St(x, k) \in Memories
    OBVIOUS
  <2>1. id[k] \in 0 .. 255 /\ 2 + 2 * k \in Int
    BY <1>1
  <2> QED
    BY <2>1, DigitsPut
<1>3. z \in Memories
  BY PrefixPut
<1>4. UT!Topic(m, id) = at[n]
  BY DEF UT!Topic
<1> HIDE DEF St, n, z
<1>5. StepsOn(F, n, Memories)
  BY <1>2 DEF StepsOn
<1>6. PICK g : Leads(g, z, F, n, Memories)
  <2> HIDE DEF F
  <2> QED
    BY <1>1, <1>3, <1>5, Recursion
<1>7. A(g)
  <2>1. ASSUME NEW k \in 0 .. n, k # 0 PROVE F[k][g[k - 1]] = St(g[k - 1], k)
    <3>1. k \in 1 .. n /\ k - 1 \in 0 .. n
      BY <1>1, <2>1
    <3>2. g[k - 1] \in Memories
      <4> HIDE DEF F
      <4> QED
        BY <1>6, <3>1 DEF Leads
    <3> QED
      BY <3>1, <3>2
  <2> HIDE DEF F
  <2> QED
    BY <1>6, <2>1 DEF Leads
<1>8. A(at)
  BY <1>7
<1> HIDE DEF at
<1>9. at[0] = z /\ \A k \in 1 .. n : at[k] = St(at[k - 1], k)
  BY <1>1, <1>8
<1>10. TopicTurns(at, m, id)
  BY <1>4, <1>9 DEF St, n, z, TopicTurns
<1> QED
  BY <1>10

(* The memory after k pairs of digits.                                     *)
TopicUpTo(m, id, k) ==
    [i \in 1 .. MemLen |->
        IF i <= 3 THEN <<"e", "4", "/">>[i]
        ELSE IF i <= 3 + 2 * k THEN UT!Digits(id[(i - 2) \div 2])[1 + (i % 2)]
        ELSE IF i = 4 + 2 * k THEN UT!NUL ELSE m[i]]

(* A pair more.                                                            *)
LEMMA TopicOneMore ==
    ASSUME NEW m \in Memories, NEW id \in [1 .. E4_ID_LEN -> 0 .. 255], NEW k \in 1 .. E4_ID_LEN,
           TopicUpTo(m, id, k - 1) \in Memories
    PROVE  /\ UT!Put(TopicUpTo(m, id, k - 1), 2 + 2 * k, UT!Digits(id[k])) = TopicUpTo(m, id, k)
           /\ TopicUpTo(m, id, k) \in Memories
<1> DEFINE t == TopicUpTo(m, id, k - 1)
           D(j) == UT!Digits(id[j])
           e(i) == <<"e", "4", "/">>[i]
           next == [i \in 1 .. MemLen |-> IF i = 2 + 2 * k THEN D(k)[1] ELSE IF i = 3 + 2 * k THEN D(k)[2]
                                          ELSE IF i = 4 + 2 * k THEN UT!NUL ELSE t[i]]
<1>1. E4_ID_LEN \in Nat /\ MemLen \in Nat
  BY E4UtilStringsGiven DEF UT!StringsGiven
<1>2. id[k] \in 0 .. 255 /\ 2 + 2 * k \in Int /\ k \in Int /\ k >= 1
  BY <1>1
<1>3. UT!Put(t, 2 + 2 * k, D(k)) = next /\ next \in Memories
  <2> DEFINE at == 2 + 2 * k
             put == [i \in 1 .. MemLen |-> IF i = at THEN UT!Digits(id[k])[1]
                                           ELSE IF i = at + 1 THEN UT!Digits(id[k])[2]
                                           ELSE IF i = at + 2 THEN UT!NUL ELSE t[i]]
  <2>1. at \in Int /\ at = 2 + 2 * k /\ at + 1 = 3 + 2 * k /\ at + 2 = 4 + 2 * k
    BY <1>2
  <2> HIDE DEF t, at
  <2>2. UT!Put(t, at, UT!Digits(id[k])) = put /\ UT!Put(t, at, UT!Digits(id[k])) \in Memories
    <3>1. t \in Memories
      BY DEF t
    <3> QED
      BY <1>2, <2>1, <3>1, DigitsPut, ZenonT(40)
  <2>3. put = next
    BY <2>1
  <2> QED
    BY <2>1, <2>2, <2>3
<1>4. t = [i \in 1 .. MemLen |->
             IF i <= 3 THEN e(i) ELSE IF i <= 3 + 2 * (k - 1) THEN D((i - 2) \div 2)[1 + (i % 2)]
             ELSE IF i = 4 + 2 * (k - 1) THEN UT!NUL ELSE m[i]]
  BY DEF TopicUpTo
<1>5. TopicUpTo(m, id, k) = [i \in 1 .. MemLen |->
             IF i <= 3 THEN e(i) ELSE IF i <= 3 + 2 * k THEN D((i - 2) \div 2)[1 + (i % 2)]
             ELSE IF i = 4 + 2 * k THEN UT!NUL ELSE m[i]]
  BY DEF TopicUpTo
<1>6. /\ ((2 + 2 * k) - 2) \div 2 = k /\ (2 + 2 * k) % 2 = 0
      /\ ((3 + 2 * k) - 2) \div 2 = k /\ (3 + 2 * k) % 2 = 1
  BY <1>2
<1> HIDE DEF t, e, D
<1>7. next = TopicUpTo(m, id, k)
  <2> SUFFICES ASSUME NEW i \in 1 .. MemLen PROVE next[i] = TopicUpTo(m, id, k)[i]
    BY <1>5
  <2>1. i \in Int /\ i >= 1
    BY <1>1
  <2>2. t[i] = IF i <= 3 THEN e(i) ELSE IF i <= 1 + 2 * k THEN D((i - 2) \div 2)[1 + (i % 2)]
               ELSE IF i = 2 + 2 * k THEN UT!NUL ELSE m[i]
    BY <1>2, <1>4, <2>1
  <2>3. TopicUpTo(m, id, k)[i] =
          IF i <= 3 THEN e(i) ELSE IF i <= 3 + 2 * k THEN D((i - 2) \div 2)[1 + (i % 2)]
          ELSE IF i = 4 + 2 * k THEN UT!NUL ELSE m[i]
    BY <1>5
  <2>4. CASE i = 2 + 2 * k
    <3>1. (i - 2) \div 2 = k /\ 1 + (i % 2) = 1 /\ i > 3 /\ i <= 3 + 2 * k
      BY <1>2, <1>6, <2>4
    <3> QED
      BY <2>3, <2>4, <3>1
  <2>5. CASE i = 3 + 2 * k
    <3>1. (i - 2) \div 2 = k /\ 1 + (i % 2) = 2 /\ i > 3 /\ i # 2 + 2 * k
      BY <1>2, <1>6, <2>5
    <3> QED
      BY <2>3, <2>5, <3>1
  <2>6. CASE i # 2 + 2 * k /\ i # 3 + 2 * k
    BY <1>2, <2>1, <2>2, <2>3, <2>6
  <2> QED
    BY <2>4, <2>5, <2>6
<1> QED
  BY <1>3, <1>7 DEF t, D

(* What e4c_derive_control_topic writes.                                   *)
LEMMA TopicIs ==
    ASSUME NEW m \in Memories, NEW id \in [1 .. E4_ID_LEN -> 0 .. 255]
    PROVE  UT!Topic(m, id) = TopicUpTo(m, id, E4_ID_LEN)
<1>1. PICK put : TopicTurns(put, m, id)
  BY TopicDef
<1> DEFINE S == {k \in Nat : k <= E4_ID_LEN => put[k] = TopicUpTo(m, id, k)
                                              /\ TopicUpTo(m, id, k) \in Memories}
<1>2. E4_ID_LEN \in Nat /\ MemLen \in Nat
  BY E4UtilStringsGiven DEF UT!StringsGiven
<1>3. 0 \in S
  <2>1. TopicUpTo(m, id, 0) = [i \in 1 .. MemLen |-> IF i <= 3 THEN <<"e", "4", "/">>[i]
                                       ELSE IF i = 4 THEN UT!NUL ELSE m[i]]
    BY <1>2 DEF TopicUpTo
  <2>2. put[0] = TopicUpTo(m, id, 0) /\ TopicUpTo(m, id, 0) \in Memories
    BY <1>1, <2>1, PrefixPut DEF TopicTurns
  <2> QED
    BY <2>2
<1>4. ASSUME NEW k \in S PROVE k + 1 \in S
  <2>1. ASSUME k + 1 <= E4_ID_LEN PROVE put[k + 1] = TopicUpTo(m, id, k + 1)
                                              /\ TopicUpTo(m, id, k + 1) \in Memories
    <3>1. k \in Nat /\ k + 1 \in 1 .. E4_ID_LEN /\ (k + 1) - 1 = k
      BY <1>2, <2>1
    <3>2. put[k] = TopicUpTo(m, id, k) /\ TopicUpTo(m, id, k) \in Memories
      BY <2>1, <3>1, <1>2
    <3>3. put[k + 1] = UT!Put(put[k], 2 + 2 * (k + 1), UT!Digits(id[k + 1]))
      BY <1>1, <3>1 DEF TopicTurns
    <3>4. \A j \in 1 .. E4_ID_LEN : TopicUpTo(m, id, j - 1) \in Memories =>
            /\ UT!Put(TopicUpTo(m, id, j - 1), 2 + 2 * j, UT!Digits(id[j])) = TopicUpTo(m, id, j)
            /\ TopicUpTo(m, id, j) \in Memories
      BY TopicOneMore
    <3> QED
      BY <3>1, <3>2, <3>3, <3>4
  <2> QED
    BY <2>1
<1>5. S = Nat
  <2> HIDE DEF S
  <2>1. S \subseteq Nat
    BY DEF S
  <2> QED
    BY <1>3, <1>4, <2>1, Induction
<1>6. put[E4_ID_LEN] = TopicUpTo(m, id, E4_ID_LEN)
  <2>1. E4_ID_LEN \in S
    BY <1>2, <1>5
  <2> QED
    BY <1>2, <2>1
<1> QED
  BY <1>1, <1>6 DEF TopicTurns

(* The least of some numbers.                                              *)
LEMMA LeastIs ==
    ASSUME NEW U \in SUBSET Nat, U # {}
    PROVE  UT!Least(U) \in U /\ \A j \in U : UT!Least(U) <= j
<1>1. PICK m \in U : \A x \in U : ~ (<<x, m>> \in OpToRel(<, Nat))
  BY NatLessThanWellFounded, WFMin
<1>2. \A x \in U : ~ (x < m)
  BY <1>1 DEF OpToRel
<1>3. \A x \in U : m <= x
  BY <1>2
<1> QED
  BY <1>3 DEF UT!Least

(* The string in a memory ends where the first NUL is.                     *)
LEMMA StringEnds ==
    ASSUME NEW m \in Memories, NEW n \in Nat, n < MemLen, m[n + 1] = UT!NUL,
           \A i \in 1 .. n : m[i] # UT!NUL
    PROVE  UT!StringIn(m) = [i \in 1 .. n |-> m[i]]
<1> DEFINE nul == {i \in 1 .. MemLen : m[i] = UT!NUL}
<1>1. MemLen \in Nat
  BY E4UtilStringsGiven DEF UT!StringsGiven
<1>2. n + 1 \in nul /\ nul \in SUBSET Nat
  BY <1>1
<1>3. \A i \in nul : n + 1 <= i
  BY <1>1
<1>4. UT!StringIn(m) = IF nul = {} THEN <<>> ELSE SubSeq(m, 1, UT!Least(nul) - 1)
  BY DEF UT!StringIn
<1> HIDE DEF nul
<1>5. UT!Least(nul) \in nul /\ UT!Least(nul) <= n + 1
  BY <1>2, LeastIs
<1>6. UT!Least(nul) \in Nat
  BY <1>2, <1>5
<1>7. UT!Least(nul) = n + 1
  BY <1>3, <1>5, <1>6
<1>8. UT!StringIn(m) = SubSeq(m, 1, n)
  BY <1>2, <1>4, <1>7
<1>9. SubSeq(m, 1, n) = [i \in 1 .. n |-> m[i]]
  BY <1>1 DEF Memories
<1> QED
  BY <1>8, <1>9

(* The string that e4c_derive_control_topic leaves, and its digits.        *)
LEMMA TopicString ==
    ASSUME NEW m \in Memories, NEW id \in [1 .. E4_ID_LEN -> 0 .. 255], 4 + 2 * E4_ID_LEN <= MemLen
    PROVE  LET str == UT!StringIn(UT!Topic(m, id))
           IN  /\ SubSeq(str, 1, 3) = <<"e", "4", "/">>
               /\ SubSeq(str, 4, Len(str)) =
                    [j \in 1 .. 2 * E4_ID_LEN |-> UT!Digits(id[(j + 1) \div 2])[1 + ((j + 3) % 2)]]
<1> DEFINE e == <<"e", "4", "/">>
           n == 3 + 2 * E4_ID_LEN
           t == UT!Topic(m, id)
           D(i) == UT!Digits(id[(i - 2) \div 2])[1 + (i % 2)]
           str == [i \in 1 .. n |-> IF i <= 3 THEN e[i] ELSE D(i)]
           tail == [j \in 1 .. 2 * E4_ID_LEN |-> UT!Digits(id[(j + 1) \div 2])[1 + ((j + 3) % 2)]]
<1>1. E4_ID_LEN \in Nat /\ MemLen \in Nat /\ n \in Nat /\ n < MemLen
  BY E4UtilStringsGiven DEF UT!StringsGiven
<1>2. t = [i \in 1 .. MemLen |-> IF i <= 3 THEN e[i] ELSE IF i <= n THEN D(i)
                                 ELSE IF i = n + 1 THEN UT!NUL ELSE m[i]]
  <2>1. 4 + 2 * E4_ID_LEN = n + 1
    BY <1>1
  <2>2. t = [i \in 1 .. MemLen |-> IF i <= 3 THEN e[i] ELSE IF i <= n THEN D(i)
                                   ELSE IF i = 4 + 2 * E4_ID_LEN THEN UT!NUL ELSE m[i]]
    BY TopicIs DEF TopicUpTo
  <2> HIDE DEF n, e, t, D
  <2> QED
    BY <2>1, <2>2
<1>3. \A i \in 4 .. n : D(i) \in Cells \ {UT!NUL}
  <2> SUFFICES ASSUME NEW i \in 4 .. n PROVE D(i) \in Cells \ {UT!NUL}
    OBVIOUS
  <2>1. (i - 2) \div 2 \in 1 .. E4_ID_LEN /\ 1 + (i % 2) \in {1, 2}
    BY <1>1
  <2>2. id[(i - 2) \div 2] \in 0 .. 255
    BY <2>1
  <2>3. \A k \in {1, 2} : UT!Digits(id[(i - 2) \div 2])[k] \in Cells \ {UT!NUL}
    <3>1. 1 \in Int
      OBVIOUS
    <3> QED
      BY <2>2, <3>1, DigitsPut
  <2> QED
    BY <2>1, <2>3
<1>4. \A i \in 1 .. 3 : e[i] \in Cells \ {UT!NUL}
  BY DEF UT!NUL, Cells, Characters
<1>5. Len(e) = 3
  OBVIOUS
<1> HIDE DEF e, t, D, n
<1>6. t \in Memories /\ t[n + 1] = UT!NUL /\ \A i \in 1 .. n : t[i] # UT!NUL /\ t[i] = IF i <= 3 THEN e[i] ELSE D(i)
  <2>1. UT!NUL \in Cells
    BY DEF Cells, Characters
  <2>2. n >= 3
    BY <1>1 DEF n
  <2>3. t \in Memories
    BY <1>1, <1>2, <1>3, <1>4, <2>1, <2>2 DEF Memories
  <2>4. t[n + 1] = UT!NUL
    BY <1>1, <1>2, <2>2
  <2> QED
    BY <1>1, <1>2, <1>3, <1>4, <2>2, <2>3, <2>4
<1>7. UT!StringIn(t) = str
  <2>1. UT!StringIn(t) = [i \in 1 .. n |-> t[i]]
    BY <1>1, <1>6, StringEnds
  <2> QED
    BY <1>6, <2>1
<1>8. Len(str) = n /\ n >= 3
  BY <1>1 DEF n
<1>9. SubSeq(str, 1, 3) = e
  <2>1. e = [i \in 1 .. 3 |-> e[i]]
    BY DEF e
  <2>2. SubSeq(str, 1, 3) = [i \in 1 .. 3 |-> str[i]]
    BY <1>1, <1>8
  <2>3. \A i \in 1 .. 3 : str[i] = e[i]
    BY <1>1, <1>8
  <2> HIDE DEF str
  <2> QED
    BY <2>1, <2>2, <2>3
<1>10. SubSeq(str, 4, n) = tail
  <2>1. SubSeq(str, 4, n) = [j \in 1 .. n - 3 |-> str[j + 3]]
    BY <1>1, <1>8
  <2>2. n - 3 = 2 * E4_ID_LEN
    BY <1>1 DEF n
  <2>3. ASSUME NEW j \in 1 .. n - 3 PROVE str[j + 3] = UT!Digits(id[(j + 1) \div 2])[1 + ((j + 3) % 2)]
    <3>1. (j + 3) - 2 = j + 1 /\ j + 3 \in 4 .. n
      BY <1>1, <2>3
    <3>2. str[j + 3] = D(j + 3)
      BY <1>1, <3>1
    <3> QED
      BY <3>1, <3>2 DEF D
  <2> HIDE DEF str
  <2> QED
    BY <2>1, <2>2, <2>3
<1> HIDE DEF str, tail
<1> QED
  BY <1>7, <1>8, <1>9, <1>10 DEF t, e, tail

(* A character is a digit, or -1.                                          *)
LEMMA HexType ==
    ASSUME NEW c
    PROVE  UT!from_hex(c) \in -1 .. 15
<1> DEFINE at == {i \in 1 .. 16 : UT!Lower[i] = c \/ UT!Upper[i] = c}
<1>1. at \in SUBSET Nat /\ at \subseteq 1 .. 16
  OBVIOUS
<1>2. UT!from_hex(c) = IF at = {} THEN -1 ELSE UT!Least(at) - 1
  BY DEF UT!from_hex
<1> HIDE DEF at
<1>3. at # {} => UT!Least(at) \in 1 .. 16
  BY <1>1, LeastIs
<1> QED
  BY <1>2, <1>3

(* What e4c_hex_decode knows between the turns of its loop.                *)
DecodeStates == [r : Nat, mem : Memories]

DecodeTurns(at, m, encoded) ==
    /\ at[0] = [r |-> 1, mem |-> m]
    /\ \A k \in 1 .. Len(encoded) \div 2 :
          at[k] = UT!DecodePair(at[k - 1], UT!from_hex(encoded[2 * k - 1]), UT!from_hex(encoded[2 * k]))
    /\ UT!Decode(m, encoded) = at[Len(encoded) \div 2]

(* The memory with one byte more.                                          *)
DecodeWrites(s, h1, h2) ==
    [i \in 1 .. MemLen |-> IF i = 1 + ((s.r - 1) \div 2) THEN 16 * h1 + h2 ELSE s.mem[i]]

(* A pair of digits.                                                       *)
LEMMA PairIs ==
    ASSUME NEW s \in DecodeStates, NEW h1 \in -1 .. 15, NEW h2 \in -1 .. 15
    PROVE  /\ UT!DecodePair(s, h1, h2) \in DecodeStates
           /\ s.r = 0 \/ h1 < 0 \/ h2 < 0 => UT!DecodePair(s, h1, h2) = [r |-> 0, mem |-> s.mem]
           /\ s.r # 0 /\ h1 >= 0 /\ h2 >= 0 =>
                UT!DecodePair(s, h1, h2) = [r |-> s.r + 2, mem |-> DecodeWrites(s, h1, h2)]
<1> DEFINE wrong == s.r = 0 \/ h1 < 0 \/ h2 < 0
           m == [s.mem EXCEPT ![1 + ((s.r - 1) \div 2)] = 16 * h1 + h2]
           w == DecodeWrites(s, h1, h2)
<1>1. s.r \in Nat /\ s.mem \in Memories /\ s = [r |-> s.r, mem |-> s.mem]
  BY DEF DecodeStates
<1>2. 16 * h1 + h2 \in Cells
  BY DEF Cells
<1>3. m = w
  BY <1>1 DEF Memories, DecodeWrites
<1>4. w \in Memories
  BY <1>1, <1>2 DEF Memories, DecodeWrites
<1>5. UT!DecodePair(s, h1, h2) = IF wrong THEN [s EXCEPT !.r = 0] ELSE [r |-> s.r + 2, mem |-> m]
  BY DEF UT!DecodePair
<1>6. [s EXCEPT !.r = 0] = [r |-> 0, mem |-> s.mem]
  BY <1>1
<1> HIDE DEF m, w
<1>7. CASE wrong
  BY <1>1, <1>5, <1>6, <1>7 DEF DecodeStates
<1>8. CASE ~ wrong
  BY <1>1, <1>3, <1>4, <1>5, <1>8 DEF DecodeStates, w
<1> QED
  BY <1>7, <1>8

(* The loop of e4c_hex_decode.                                             *)
LEMMA DecodeDef ==
    ASSUME NEW m \in Memories, NEW encoded, Len(encoded) \in Nat
    PROVE  \E at : DecodeTurns(at, m, encoded) /\ at \in [0 .. Len(encoded) \div 2 -> DecodeStates]
<1> DEFINE n == Len(encoded) \div 2
           z == [r |-> 1, mem |-> m]
           St(x, k) == UT!DecodePair(x, UT!from_hex(encoded[2 * k - 1]), UT!from_hex(encoded[2 * k]))
           F == [k \in 1 .. n |-> [x \in DecodeStates |-> St(x, k)]]
           A(g) == g = [k \in 0 .. n |-> IF k = 0 THEN z ELSE St(g[k - 1], k)]
           at == CHOOSE g : A(g)
<1>1. n \in Nat
  OBVIOUS
<1>2. \A x \in DecodeStates, k \in 1 .. n : St(x, k) \in DecodeStates
  BY PairIs, HexType
<1>3. z \in DecodeStates
  BY DEF DecodeStates
<1>4. UT!Decode(m, encoded) = at[n]
  BY DEF UT!Decode
<1> HIDE DEF St, n, z
<1>5. StepsOn(F, n, DecodeStates)
  BY <1>2 DEF StepsOn
<1>6. PICK g : Leads(g, z, F, n, DecodeStates)
  <2> HIDE DEF F
  <2> QED
    BY <1>1, <1>3, <1>5, Recursion
<1>7. A(g)
  <2>1. ASSUME NEW k \in 0 .. n, k # 0 PROVE F[k][g[k - 1]] = St(g[k - 1], k)
    <3>1. k \in 1 .. n /\ k - 1 \in 0 .. n
      BY <1>1, <2>1
    <3>2. g[k - 1] \in DecodeStates
      <4> HIDE DEF F
      <4> QED
        BY <1>6, <3>1 DEF Leads
    <3> QED
      BY <3>1, <3>2
  <2> HIDE DEF F
  <2> QED
    BY <1>6, <2>1 DEF Leads
<1>8. A(at)
  BY <1>7
<1> HIDE DEF at
<1>9. at[0] = z /\ \A k \in 1 .. n : at[k] = St(at[k - 1], k)
  BY <1>1, <1>8
<1>10. at \in [0 .. n -> DecodeStates]
  <2> DEFINE S == {k \in Nat : k <= n => at[k] \in DecodeStates}
  <2>1. 0 \in S
    BY <1>3, <1>9
  <2>2. ASSUME NEW k \in S PROVE k + 1 \in S
    <3>1. ASSUME k + 1 <= n PROVE at[k + 1] \in DecodeStates
      <4>1. k \in Nat /\ k + 1 \in 1 .. n /\ (k + 1) - 1 = k /\ k <= n
        BY <1>1, <3>1
      <4> QED
        BY <1>2, <1>9, <2>2, <4>1
    <3> QED
      BY <3>1
  <2>3. S = Nat
    <3> HIDE DEF S
    <3>1. S \subseteq Nat
      BY DEF S
    <3> QED
      BY <2>1, <2>2, <3>1, Induction
  <2>4. \A k \in 0 .. n : at[k] \in DecodeStates
    BY <1>1, <2>3
  <2> QED
    BY <1>8, <2>4
<1>11. DecodeTurns(at, m, encoded)
  BY <1>4, <1>9 DEF St, n, z, DecodeTurns
<1> QED
  BY <1>10, <1>11 DEF n

(* After k pairs the first k bytes at most have been written.              *)
LEMMA DecodeKeeps ==
    ASSUME NEW m \in Memories, NEW encoded, Len(encoded) \in Nat
    PROVE  /\ UT!Decode(m, encoded) \in DecodeStates
           /\ \A i \in 1 .. MemLen : i > Len(encoded) \div 2 => UT!Decode(m, encoded).mem[i] = m[i]
<1> DEFINE n == Len(encoded) \div 2
<1>1. PICK at : DecodeTurns(at, m, encoded) /\ at \in [0 .. n -> DecodeStates]
  BY DecodeDef
<1>2. n \in Nat /\ MemLen \in Nat
  BY E4UtilStringsGiven DEF UT!StringsGiven
<1>3. at[0] = [r |-> 1, mem |-> m] /\ UT!Decode(m, encoded) = at[n]
  BY <1>1 DEF DecodeTurns
<1>4. \A k \in 1 .. n :
        at[k] = UT!DecodePair(at[k - 1], UT!from_hex(encoded[2 * k - 1]), UT!from_hex(encoded[2 * k]))
  BY <1>1 DEF DecodeTurns
<1> HIDE DEF n
<1> DEFINE Kept(k) == /\ at[k].r \in {0, 2 * k + 1}
                      /\ \A i \in 1 .. MemLen : i > k => at[k].mem[i] = m[i]
           S == {k \in Nat : k <= n => Kept(k)}
<1>5. 0 \in S
  BY <1>3
<1>6. ASSUME NEW k \in S PROVE k + 1 \in S
  <2>1. ASSUME k + 1 <= n PROVE Kept(k + 1)
    <3> DEFINE h1 == UT!from_hex(encoded[2 * (k + 1) - 1])
               h2 == UT!from_hex(encoded[2 * (k + 1)])
    <3>1. k \in Nat /\ k + 1 \in 1 .. n /\ (k + 1) - 1 = k /\ Kept(k)
      BY <1>2, <2>1
    <3>2. at[k] \in DecodeStates /\ h1 \in -1 .. 15 /\ h2 \in -1 .. 15
      BY <1>1, <1>2, <3>1, HexType
    <3>3. at[k + 1] = UT!DecodePair(at[k], h1, h2)
      BY <1>4, <3>1
    <3> HIDE DEF h1, h2
    <3>4. CASE at[k].r = 0 \/ h1 < 0 \/ h2 < 0
      <4>1. at[k + 1] = [r |-> 0, mem |-> at[k].mem]
        BY <3>2, <3>3, <3>4, PairIs
      <4> QED
        BY <1>2, <3>1, <4>1
    <3>5. CASE ~ (at[k].r = 0 \/ h1 < 0 \/ h2 < 0)
      <4>1. at[k].r = 2 * k + 1 /\ 1 + ((at[k].r - 1) \div 2) = k + 1
        BY <3>1, <3>5
      <4>2. h1 >= 0 /\ h2 >= 0
        BY <3>2, <3>5
      <4>3. at[k + 1] = [r |-> at[k].r + 2, mem |-> DecodeWrites(at[k], h1, h2)]
        BY <3>2, <3>3, <3>5, <4>2, PairIs
      <4>4. \A i \in 1 .. MemLen : i > k + 1 => DecodeWrites(at[k], h1, h2)[i] = at[k].mem[i]
        BY <1>2, <4>1 DEF DecodeWrites
      <4>5. at[k + 1].r = 2 * (k + 1) + 1
        BY <3>1, <4>1, <4>3
      <4>6. at[k + 1].mem = DecodeWrites(at[k], h1, h2)
        BY <4>3
      <4>7. \A i \in 1 .. MemLen : i > k + 1 => i > k
        BY <1>2, <3>1
      <4> QED
        BY <3>1, <4>4, <4>5, <4>6, <4>7
    <3> QED
      BY <3>4, <3>5
  <2> HIDE DEF Kept
  <2> QED
    BY <2>1
<1>7. S = Nat
  <2> HIDE DEF S
  <2>1. S \subseteq Nat
    BY DEF S
  <2> QED
    BY <1>5, <1>6, <2>1, Induction
<1>8. Kept(n)
  <2>1. n \in S
    BY <1>2, <1>7
  <2> HIDE DEF Kept
  <2> QED
    BY <1>2, <2>1
<1>9. at[n] \in DecodeStates
  BY <1>1, <1>2
<1> QED
  BY <1>3, <1>8, <1>9 DEF n

(* The digits of an id, as they follow "e4/".                              *)
DigitsOfId(id) ==
    [j \in 1 .. 2 * E4_ID_LEN |-> UT!Digits(id[(j + 1) \div 2])[1 + ((j + 3) % 2)]]

(* A byte in two digits.                                                   *)
LEMMA Nibbles ==
    ASSUME NEW b \in 0 .. 255
    PROVE  b \div 16 \in 0 .. 15 /\ b % 16 \in 0 .. 15 /\ 16 * (b \div 16) + (b % 16) = b
  OBVIOUS

(* Decoding them gives the id.                                             *)
LEMMA DecodeIs ==
    ASSUME NEW m \in Memories, NEW id \in [1 .. E4_ID_LEN -> 0 .. 255], E4_ID_LEN <= MemLen
    PROVE  UT!hex_decode(m, E4_ID_LEN, DigitsOfId(id)) =
             [r |-> 2 * E4_ID_LEN, mem |-> [i \in 1 .. MemLen |-> IF i <= E4_ID_LEN THEN id[i] ELSE m[i]]]
<1> DEFINE n == E4_ID_LEN
           enc == DigitsOfId(id)
           Mem(k) == [i \in 1 .. MemLen |-> IF i <= k THEN id[i] ELSE m[i]]
<1>1. n \in Nat /\ n # 0 /\ MemLen \in Nat
  BY E4UtilStringsGiven DEF UT!StringsGiven
<1>2. Len(enc) = 2 * n /\ Len(enc) \in Nat /\ Len(enc) \div 2 = n /\ Len(enc) % 2 = 0
  BY <1>1 DEF DigitsOfId
<1>3. ASSUME NEW k \in 1 .. n
      PROVE  UT!from_hex(enc[2 * k - 1]) = id[k] \div 16 /\ UT!from_hex(enc[2 * k]) = (id[k] % 16)
  <2>1. /\ 2 * k - 1 \in 1 .. 2 * n /\ ((2 * k - 1) + 1) \div 2 = k /\ ((2 * k - 1) + 3) % 2 = 0
        /\ 2 * k \in 1 .. 2 * n /\ (2 * k + 1) \div 2 = k /\ (2 * k + 3) % 2 = 1
    BY <1>1
  <2>2. enc[2 * k - 1] = UT!Digits(id[k])[1] /\ enc[2 * k] = UT!Digits(id[k])[2]
    BY <2>1 DEF DigitsOfId
  <2>3. id[k] \in 0 .. 255
    OBVIOUS
  <2>4. id[k] \div 16 \in 0 .. 15 /\ id[k] % 16 \in 0 .. 15
    BY <2>3, Nibbles
  <2>5. enc[2 * k - 1] = UT!Lower[(id[k] \div 16) + 1] /\ enc[2 * k] = UT!Lower[(id[k] % 16) + 1]
    BY <2>2, <2>4 DEF UT!Digits
  <2> QED
    BY <2>4, <2>5, DigitValue
<1>4. PICK at : DecodeTurns(at, m, enc) /\ at \in [0 .. n -> DecodeStates]
  BY <1>2, DecodeDef
<1>5. at[0] = [r |-> 1, mem |-> m] /\ UT!Decode(m, enc) = at[n]
  BY <1>2, <1>4 DEF DecodeTurns
<1>6. \A k \in 1 .. n : at[k] = UT!DecodePair(at[k - 1], id[k] \div 16, id[k] % 16)
  BY <1>2, <1>3, <1>4 DEF DecodeTurns
<1> HIDE DEF enc
<1> DEFINE S == {k \in Nat : k <= n => at[k] = [r |-> 2 * k + 1, mem |-> Mem(k)]}
<1>7. 0 \in S
  <2>1. Mem(0) = m
    BY <1>1 DEF Memories
  <2> HIDE DEF Mem
  <2> QED
    BY <1>5, <2>1
<1>8. ASSUME NEW k \in S PROVE k + 1 \in S
  <2>1. ASSUME k + 1 <= n PROVE at[k + 1] = [r |-> 2 * (k + 1) + 1, mem |-> Mem(k + 1)]
    <3> DEFINE b == id[k + 1]
    <3>1. k \in Nat /\ k + 1 \in 1 .. n /\ (k + 1) - 1 = k /\ at[k] = [r |-> 2 * k + 1, mem |-> Mem(k)]
      BY <1>1, <2>1
    <3>2. at[k] \in DecodeStates
      BY <1>1, <1>4, <3>1
    <3>3. b \in 0 .. 255
      BY <3>1
    <3> DEFINE h1 == b \div 16
               h2 == b % 16
    <3>4. h1 \in 0 .. 15 /\ h2 \in 0 .. 15
      BY <3>3, Nibbles
    <3>5. 16 * h1 + h2 = b
      BY <3>3, Nibbles
    <3>6. at[k + 1] = UT!DecodePair(at[k], h1, h2)
      BY <1>6, <3>1
    <3> HIDE DEF b, h1, h2
    <3>7. at[k].r = 2 * k + 1 /\ at[k].r # 0 /\ 1 + ((at[k].r - 1) \div 2) = k + 1 /\ at[k].mem = Mem(k)
      BY <3>1
    <3>8. at[k + 1] = [r |-> at[k].r + 2, mem |-> DecodeWrites(at[k], h1, h2)]
      <4>1. h1 \in -1 .. 15 /\ h2 \in -1 .. 15 /\ h1 >= 0 /\ h2 >= 0
        BY <3>4
      <4> QED
        BY <3>2, <3>6, <3>7, <4>1, PairIs
    <3>9. DecodeWrites(at[k], h1, h2) = Mem(k + 1)
      <4>1. DecodeWrites(at[k], h1, h2) =
              [i \in 1 .. MemLen |-> IF i = k + 1 THEN b ELSE at[k].mem[i]]
        BY <3>5, <3>7 DEF DecodeWrites
      <4>2. ASSUME NEW i \in 1 .. MemLen PROVE (IF i = k + 1 THEN b ELSE at[k].mem[i]) = Mem(k + 1)[i]
        <5>1. at[k].mem[i] = IF i <= k THEN id[i] ELSE m[i]
          BY <3>7
        <5> QED
          BY <1>1, <3>1, <5>1 DEF b
      <4> QED
        BY <4>1, <4>2
    <3> HIDE DEF Mem
    <3> QED
      BY <3>1, <3>7, <3>8, <3>9
  <2> QED
    BY <2>1
<1>9. S = Nat
  <2> HIDE DEF S
  <2>1. S \subseteq Nat
    BY DEF S
  <2> QED
    BY <1>7, <1>8, <2>1, Induction
<1>10. at[n] = [r |-> 2 * n + 1, mem |-> Mem(n)]
  <2>1. n \in S
    BY <1>1, <1>9
  <2> QED
    BY <1>1, <2>1
<1>11. UT!hex_decode(m, n, enc) = [UT!Decode(m, enc) EXCEPT !.r = IF @ = 0 THEN 0 ELSE @ - 1]
  BY <1>1, <1>2 DEF UT!hex_decode
<1> HIDE DEF Mem
<1>12. UT!hex_decode(m, n, enc) = [r |-> 2 * n, mem |-> Mem(n)]
  BY <1>1, <1>5, <1>10, <1>11
<1> QED
  BY <1>12 DEF Mem, enc

(* What strlcpy knows between the turns of its loops.                      *)
CopyStates == [mem : Memories, d : Nat, n : Nat, end : BOOLEAN]

(* The character of a string in place k, NUL behind it.                    *)
CharOf(src, k) == IF k <= Len(src) THEN src[k] ELSE UT!NUL

CopyTurns(at, m, siz, src) ==
    /\ at[0] = [mem |-> m, d |-> 1, n |-> siz, end |-> FALSE]
    /\ \A k \in 1 .. Len(src) + 1 : at[k] = UT!CopyChar(at[k - 1], CharOf(src, k))
    /\ UT!Copy(m, siz, src) = at[Len(src) + 1]

(* The memory with one character more.                                     *)
CopyWrites(s, c) == [i \in 1 .. MemLen |-> IF i = s.d THEN c ELSE s.mem[i]]

(* One character.                                                          *)
LEMMA CharIs ==
    ASSUME NEW s \in CopyStates, NEW c \in Cells
    PROVE  /\ UT!CopyChar(s, c) \in CopyStates
           /\ s.end \/ s.n = 0 => UT!CopyChar(s, c) = s
           /\ ~ s.end /\ s.n = 1 => UT!CopyChar(s, c) = [mem |-> s.mem, d |-> s.d, n |-> 0, end |-> FALSE]
           /\ ~ s.end /\ s.n > 1 =>
                UT!CopyChar(s, c) = [mem |-> CopyWrites(s, c), d |-> s.d + 1, n |-> s.n - 1, end |-> c = UT!NUL]
<1>1. /\ s.mem \in Memories /\ s.d \in Nat /\ s.n \in Nat /\ s.end \in BOOLEAN
      /\ s = [mem |-> s.mem, d |-> s.d, n |-> s.n, end |-> s.end]
  BY DEF CopyStates
<1>2. [s.mem EXCEPT ![s.d] = c] = CopyWrites(s, c) /\ CopyWrites(s, c) \in Memories
  BY <1>1 DEF Memories, CopyWrites
<1>3. CASE s.end \/ s.n = 0
  <2>1. UT!CopyChar(s, c) = s
    BY <1>1, <1>3 DEF UT!CopyChar
  <2> QED
    BY <1>1, <1>3, <2>1
<1>4. CASE ~ s.end /\ s.n = 1
  <2>1. UT!CopyChar(s, c) = [s EXCEPT !.n = 0]
    BY <1>1, <1>4 DEF UT!CopyChar
  <2>2. UT!CopyChar(s, c) = [mem |-> s.mem, d |-> s.d, n |-> 0, end |-> FALSE]
    BY <1>1, <1>4, <2>1
  <2> QED
    BY <1>1, <1>4, <2>2 DEF CopyStates
<1>5. CASE ~ s.end /\ s.n > 1
  <2>1. UT!CopyChar(s, c) = [mem |-> CopyWrites(s, c), d |-> s.d + 1, n |-> s.n - 1, end |-> c = UT!NUL]
    BY <1>1, <1>2, <1>5 DEF UT!CopyChar
  <2>2. s.d + 1 \in Nat /\ s.n - 1 \in Nat /\ (c = UT!NUL) \in BOOLEAN
    BY <1>1, <1>5
  <2>3. UT!CopyChar(s, c) \in CopyStates
    BY <1>2, <2>1, <2>2 DEF CopyStates
  <2> QED
    BY <1>1, <1>5, <2>1, <2>3
<1> QED
  BY <1>1, <1>3, <1>4, <1>5

(* A string has no NUL.                                                    *)
LEMMA StringsHave ==
    ASSUME NEW src \in Encodings
    PROVE  /\ Len(src) \in Nat /\ src = [i \in 1 .. Len(src) |-> src[i]]
           /\ \A k \in 1 .. Len(src) : src[k] \in Cells /\ src[k] # UT!NUL
           /\ \A k \in Int : k >= 1 => CharOf(src, k) \in Cells
<1>1. src \in Seq(STRING \ {UT!NUL})
  BY E4UtilStringsGiven DEF UT!StringsGiven
<1>2. Len(src) \in Nat /\ \A k \in 1 .. Len(src) : src[k] \in STRING \ {UT!NUL}
  BY <1>1
<1>3. src = [i \in 1 .. Len(src) |-> src[i]]
  BY <1>1
<1>4. \A k \in 1 .. Len(src) : src[k] \in Cells
  BY DEF Cells
<1>5. UT!NUL \in Cells
  BY DEF Cells, Characters
<1> QED
  BY <1>2, <1>3, <1>4, <1>5 DEF CharOf

(* The loops of strlcpy.                                                   *)
LEMMA CopyDef ==
    ASSUME NEW m \in Memories, NEW siz \in Nat, NEW src \in Encodings
    PROVE  \E at : CopyTurns(at, m, siz, src) /\ at \in [0 .. Len(src) + 1 -> CopyStates]
<1> DEFINE n == Len(src) + 1
           z == [mem |-> m, d |-> 1, n |-> siz, end |-> FALSE]
           St(x, k) == UT!CopyChar(x, CharOf(src, k))
           F == [k \in 1 .. n |-> [x \in CopyStates |-> St(x, k)]]
           A(g) == g = [k \in 0 .. n |-> IF k = 0 THEN z ELSE St(g[k - 1], k)]
           at == CHOOSE g : A(g)
<1>1. n \in Nat
  BY StringsHave
<1>2. \A x \in CopyStates, k \in 1 .. n : St(x, k) \in CopyStates
  <2> SUFFICES ASSUME NEW x \in CopyStates, NEW k \in 1 .. n PROVE St(x, k) \in CopyStates
    OBVIOUS
  <2>1. CharOf(src, k) \in Cells
    BY <1>1, StringsHave
  <2> QED
    BY <2>1, CharIs
<1>3. z \in CopyStates
  BY DEF CopyStates
<1>4. UT!Copy(m, siz, src) = at[n]
  BY DEF UT!Copy, CharOf
<1> HIDE DEF St, n, z
<1>5. StepsOn(F, n, CopyStates)
  BY <1>2 DEF StepsOn
<1>6. PICK g : Leads(g, z, F, n, CopyStates)
  <2> HIDE DEF F
  <2> QED
    BY <1>1, <1>3, <1>5, Recursion
<1>7. A(g)
  <2>1. ASSUME NEW k \in 0 .. n, k # 0 PROVE F[k][g[k - 1]] = St(g[k - 1], k)
    <3>1. k \in 1 .. n /\ k - 1 \in 0 .. n
      BY <1>1, <2>1
    <3>2. g[k - 1] \in CopyStates
      <4> HIDE DEF F
      <4> QED
        BY <1>6, <3>1 DEF Leads
    <3> QED
      BY <3>1, <3>2
  <2> HIDE DEF F
  <2> QED
    BY <1>6, <2>1 DEF Leads
<1>8. A(at)
  BY <1>7
<1> HIDE DEF at
<1>9. at[0] = z /\ \A k \in 1 .. n : at[k] = St(at[k - 1], k)
  BY <1>1, <1>8
<1>10. at \in [0 .. n -> CopyStates]
  <2> DEFINE S == {k \in Nat : k <= n => at[k] \in CopyStates}
  <2>1. 0 \in S
    BY <1>3, <1>9
  <2>2. ASSUME NEW k \in S PROVE k + 1 \in S
    <3>1. ASSUME k + 1 <= n PROVE at[k + 1] \in CopyStates
      <4>1. k \in Nat /\ k + 1 \in 1 .. n /\ (k + 1) - 1 = k /\ k <= n
        BY <1>1, <3>1
      <4> QED
        BY <1>2, <1>9, <2>2, <4>1
    <3> QED
      BY <3>1
  <2>3. S = Nat
    <3> HIDE DEF S
    <3>1. S \subseteq Nat
      BY DEF S
    <3> QED
      BY <2>1, <2>2, <3>1, Induction
  <2>4. \A k \in 0 .. n : at[k] \in CopyStates
    BY <1>1, <2>3
  <2> QED
    BY <1>8, <2>4
<1>11. CopyTurns(at, m, siz, src)
  BY <1>4, <1>9 DEF St, n, z, CopyTurns
<1> QED
  BY <1>10, <1>11 DEF n

(* Between the turns the memory holds the characters before d, and d and   *)
(* what is left of the buffer belong together.                             *)
CopyInv(s, m, siz, src, k) ==
    /\ \A i \in 1 .. MemLen : s.mem[i] = IF i < s.d THEN CharOf(src, i) ELSE m[i]
    /\ s.end => s.d = Len(src) + 2 /\ s.n >= 1 /\ s.d + s.n = siz + 1
    /\ ~ s.end /\ s.n > 0 => k <= Len(src) /\ s.d = k + 1 /\ s.d + s.n = siz + 1
    /\ ~ s.end /\ s.n = 0 => IF siz = 0 THEN s.d = 1 ELSE s.d = siz /\ siz <= k

(* A turn keeps that.                                                      *)
LEMMA CopyOneMore ==
    ASSUME NEW m \in Memories, NEW siz \in Nat, NEW src \in Encodings, NEW k \in Nat, k <= Len(src),
           NEW s \in CopyStates, CopyInv(s, m, siz, src, k)
    PROVE  CopyInv(UT!CopyChar(s, CharOf(src, k + 1)), m, siz, src, k + 1)
<1> DEFINE c == CharOf(src, k + 1)
           t == UT!CopyChar(s, c)
<1>1. /\ s.mem \in Memories /\ s.d \in Nat /\ s.n \in Nat /\ s.end \in BOOLEAN
      /\ Len(src) \in Nat /\ MemLen \in Nat
  BY StringsHave, E4UtilStringsGiven DEF CopyStates, UT!StringsGiven
<1>2. c \in Cells /\ (c = UT!NUL <=> k = Len(src))
  BY <1>1, StringsHave DEF CharOf
<1> HIDE DEF c
<1>3. CASE s.end \/ s.n = 0
  <2>1. t = s
    BY <1>2, <1>3, CharIs
  <2> HIDE DEF t
  <2> QED
    BY <1>1, <1>3, <2>1 DEF CopyInv, t, c
<1>4. CASE ~ s.end /\ s.n = 1
  <2>1. t = [mem |-> s.mem, d |-> s.d, n |-> 0, end |-> FALSE]
    BY <1>2, <1>4, CharIs
  <2>2. s.d = k + 1 /\ s.d = siz /\ siz # 0
    BY <1>1, <1>4 DEF CopyInv
  <2> HIDE DEF t
  <2>3. CopyInv(t, m, siz, src, k + 1)
    BY <1>1, <1>4, <2>1, <2>2 DEF CopyInv
  <2> QED
    BY <2>3 DEF t, c
<1>5. CASE ~ s.end /\ s.n > 1
  <2>1. t = [mem |-> CopyWrites(s, c), d |-> s.d + 1, n |-> s.n - 1, end |-> c = UT!NUL]
    BY <1>2, <1>5, CharIs
  <2>2. s.d = k + 1 /\ s.d + s.n = siz + 1
    BY <1>1, <1>5 DEF CopyInv
  <2> HIDE DEF t
  <2>3. ASSUME NEW i \in 1 .. MemLen PROVE t.mem[i] = IF i < t.d THEN CharOf(src, i) ELSE m[i]
    <3>1. t.mem[i] = IF i = k + 1 THEN c ELSE s.mem[i]
      BY <2>1, <2>2 DEF CopyWrites
    <3>2. s.mem[i] = IF i < k + 1 THEN CharOf(src, i) ELSE m[i]
      BY <2>2 DEF CopyInv
    <3>3. t.d = k + 2
      BY <2>1, <2>2
    <3> QED
      BY <1>1, <3>1, <3>2, <3>3 DEF c
  <2>4. t.end <=> k = Len(src)
    BY <1>2, <2>1
  <2>5. t.d = k + 2 /\ t.n = s.n - 1 /\ t.n >= 1 /\ t.d + t.n = siz + 1
    BY <1>1, <1>5, <2>1, <2>2
  <2>6. CopyInv(t, m, siz, src, k + 1)
    BY <1>1, <2>3, <2>4, <2>5 DEF CopyInv
  <2> QED
    BY <2>6 DEF t, c
<1> QED
  BY <1>1, <1>3, <1>4, <1>5

(* strlcpy writes as much of the string as there is room for, NUL behind   *)
(* it, and nothing else.                                                   *)
LEMMA CopyIs ==
    ASSUME NEW m \in Memories, NEW siz \in 0 .. MemLen, NEW src \in Encodings
    PROVE  LET n == IF Len(src) < siz THEN Len(src) ELSE siz - 1
           IN  /\ UT!strlcpy(m, siz, src).r = Len(src)
               /\ \A i \in 1 .. MemLen : i > siz => UT!strlcpy(m, siz, src).mem[i] = m[i]
               /\ siz > 0 => UT!StringIn(UT!strlcpy(m, siz, src).mem) = SubSeq(src, 1, n)
<1> DEFINE len == Len(src)
           n == IF len < siz THEN len ELSE siz - 1
           s == UT!Copy(m, siz, src)
           w == IF s.n = 0 /\ siz # 0 THEN [s.mem EXCEPT ![s.d] = UT!NUL] ELSE s.mem
<1>1. MemLen \in Nat /\ siz \in Nat /\ len \in Nat
  BY E4UtilStringsGiven, StringsHave DEF UT!StringsGiven
<1>2. PICK at : CopyTurns(at, m, siz, src) /\ at \in [0 .. len + 1 -> CopyStates]
  BY <1>1, CopyDef
<1>3. /\ at[0] = [mem |-> m, d |-> 1, n |-> siz, end |-> FALSE]
      /\ \A k \in 1 .. len + 1 : at[k] = UT!CopyChar(at[k - 1], CharOf(src, k))
      /\ s = at[len + 1]
  BY <1>2 DEF CopyTurns
<1>4. UT!strlcpy(m, siz, src) = [r |-> len, mem |-> w]
  BY DEF UT!strlcpy
<1> HIDE DEF len, s
<1> DEFINE S == {k \in Nat : k <= len + 1 => CopyInv(at[k], m, siz, src, k)}
<1>5. 0 \in S
  <2>1. CopyInv(at[0], m, siz, src, 0)
    BY <1>1, <1>3 DEF CopyInv
  <2> QED
    BY <2>1
<1>6. ASSUME NEW k \in S PROVE k + 1 \in S
  <2>1. ASSUME k + 1 <= len + 1 PROVE CopyInv(at[k + 1], m, siz, src, k + 1)
    <3>1. k \in Nat /\ k + 1 \in 1 .. len + 1 /\ (k + 1) - 1 = k /\ k <= len /\ CopyInv(at[k], m, siz, src, k)
      BY <1>1, <2>1
    <3>2. at[k] \in CopyStates /\ at[k + 1] = UT!CopyChar(at[k], CharOf(src, k + 1))
      BY <1>1, <1>2, <1>3, <3>1
    <3> QED
      BY <1>1, <3>1, <3>2, CopyOneMore DEF len
  <2> QED
    BY <2>1
<1>7. S = Nat
  <2> HIDE DEF S
  <2>1. S \subseteq Nat
    BY DEF S
  <2> QED
    BY <1>5, <1>6, <2>1, Induction
<1>8. s \in CopyStates /\ CopyInv(s, m, siz, src, len + 1)
  <2>1. len + 1 \in S /\ len + 1 \in 0 .. len + 1
    BY <1>1, <1>7
  <2> QED
    BY <1>1, <1>2, <1>3, <2>1
<1>9. s.mem \in Memories /\ s.d \in Nat /\ s.n \in Nat /\ s.end \in BOOLEAN
  BY <1>8 DEF CopyStates
<1>10. \A i \in 1 .. MemLen : s.mem[i] = IF i < s.d THEN CharOf(src, i) ELSE m[i]
  BY <1>8 DEF CopyInv
<1>11. /\ s.end => s.d = len + 2 /\ s.n >= 1 /\ s.d + s.n = siz + 1
       /\ ~ s.end => s.n = 0 /\ IF siz = 0 THEN s.d = 1 ELSE s.d = siz /\ siz <= len + 1
  BY <1>1, <1>8, <1>9 DEF CopyInv, len
<1>12. /\ \A i \in 1 .. len : CharOf(src, i) = src[i] /\ src[i] # UT!NUL
       /\ CharOf(src, len + 1) = UT!NUL
  BY <1>1, StringsHave DEF CharOf, len
<1>13. w \in Memories /\ \A i \in 1 .. MemLen : i > siz => w[i] = m[i]
  <2>1. UT!NUL \in Cells
    BY DEF Cells, Characters
  <2>2. w \in Memories
    BY <1>9, <2>1 DEF Memories
  <2> QED
    BY <1>1, <1>9, <1>10, <1>11, <2>2 DEF Memories
<1>14. ASSUME siz > 0
       PROVE  n \in Nat /\ n < MemLen /\ n <= len /\ w[n + 1] = UT!NUL /\ \A i \in 1 .. n : w[i] = src[i]
  <2>1. n \in Nat /\ n < siz /\ n <= len
    BY <1>1, <1>14
  <2>2. CASE s.end
    <3>1. w = s.mem /\ len < siz /\ n = len
      BY <1>1, <1>9, <1>11, <2>2
    <3> HIDE DEF w, n
    <3> QED
      BY <1>1, <1>9, <1>10, <1>11, <1>12, <2>1, <2>2, <3>1
  <2>3. CASE ~ s.end
    <3>1. w = [s.mem EXCEPT ![siz] = UT!NUL] /\ n = siz - 1 /\ s.d = siz
      BY <1>1, <1>9, <1>11, <1>14, <2>3
    <3> HIDE DEF w, n
    <3>2. n + 1 = siz /\ siz \in 1 .. MemLen
      BY <1>1, <1>14, <3>1
    <3>3. w[n + 1] = UT!NUL
      BY <1>9, <3>1, <3>2 DEF Memories
    <3>4. ASSUME NEW i \in 1 .. n PROVE w[i] = src[i]
      <4>1. i \in 1 .. MemLen /\ i < siz /\ i \in 1 .. len
        BY <1>1, <2>1, <3>2
      <4>2. w[i] = s.mem[i]
        BY <1>9, <3>1, <4>1 DEF Memories
      <4> QED
        BY <1>10, <1>12, <3>1, <4>1, <4>2
    <3> QED
      BY <1>1, <2>1, <3>3, <3>4
  <2> QED
    BY <1>9, <2>2, <2>3
<1> HIDE DEF w
<1>15. ASSUME siz > 0 PROVE UT!StringIn(w) = SubSeq(src, 1, n)
  <2> HIDE DEF n
  <2>1. \A i \in 1 .. n : w[i] # UT!NUL
    BY <1>1, <1>12, <1>14, <1>15
  <2>2. UT!StringIn(w) = [i \in 1 .. n |-> w[i]]
    BY <1>13, <1>14, <1>15, <2>1, StringEnds
  <2>3. SubSeq(src, 1, n) = [i \in 1 .. n |-> src[i]]
    BY <1>1, <1>14, <1>15, StringsHave DEF len
  <2> QED
    BY <1>14, <1>15, <2>2, <2>3
<1> QED
  BY <1>4, <1>13, <1>15 DEF len

(* Memory that nothing was written to.                                     *)
LEMMA UntouchedMemory == UT!Untouched \in Memories
<1>1. "untouched" \in Cells
  BY DEF Cells, Characters
<1> QED
  BY <1>1 DEF UT!Untouched, Memories

(* A call that has not been made has written nothing.                      *)
StringsInv == StringsFit /\ (call.op = "none" => memory = UT!Untouched)

(* A topic is written into a buffer that has room for it, or not at all.   *)
LEMMA TopicCall ==
    ASSUME StringsInv, NEW size \in 0 .. MemLen, NEW id \in Ids,
           UT!Call("topic", UT!derive_control_topic(memory, size, id), id, size)
    PROVE  StringsInv'
<1> DEFINE n == E4_ID_LEN
           topic == UT!Topic(UT!Untouched, id)
<1>1. n \in Nat /\ n # 0 /\ MemLen \in Nat /\ id \in [1 .. n -> 0 .. 255]
  BY E4UtilStringsGiven DEF UT!StringsGiven
<1>2. memory = UT!Untouched /\ UT!Untouched \in Memories
  BY UntouchedMemory DEF StringsInv, UT!Call
<1>3. call' = [op |-> "topic", arg |-> id, size |-> size, r |-> UT!derive_control_topic(UT!Untouched, size, id).r]
  BY <1>2 DEF UT!Call
<1>4. memory' = UT!derive_control_topic(UT!Untouched, size, id).mem
  BY <1>2 DEF UT!Call
<1>5. CASE size < 4 + 2 * n
  <2>1. UT!derive_control_topic(UT!Untouched, size, id) = [r |-> 4 + 2 * n, mem |-> UT!Untouched]
    <3>1. UT!E4_CTRLTOPIC_LEN + 1 = 4 + 2 * n
      BY <1>1 DEF UT!E4_CTRLTOPIC_LEN
    <3> QED
      BY <1>5, <3>1 DEF UT!derive_control_topic
  <2>2. memory' = UT!Untouched /\ call'.op = "topic" /\ call'.r = 4 + 2 * n /\ call'.r # 0
    BY <1>1, <1>3, <1>4, <2>1
  <2>3. \A i \in 1 .. MemLen : UT!Untouched[i] = "untouched"
    BY DEF UT!Untouched
  <2>4. UT!TopicNamesId'
    BY <2>2 DEF UT!TopicNamesId
  <2>5. UT!BuffersKept'
    <3>1. call'.size = size
      BY <1>3
    <3> QED
      BY <1>1, <2>2, <2>3, <3>1 DEF UT!BuffersKept
  <2> QED
    BY <2>2, <2>4, <2>5 DEF StringsInv, StringsFit
<1>6. CASE ~ (size < 4 + 2 * n)
  <2>1. UT!derive_control_topic(UT!Untouched, size, id) = [r |-> 0, mem |-> topic]
    <3>1. UT!E4_CTRLTOPIC_LEN + 1 = 4 + 2 * n
      BY <1>1 DEF UT!E4_CTRLTOPIC_LEN
    <3> QED
      BY <1>6, <3>1 DEF UT!derive_control_topic
  <2>2. memory' = topic /\ call'.op = "topic" /\ call'.arg = id /\ call'.size = size
    BY <1>3, <1>4, <2>1
  <2>3. 4 + 2 * n <= MemLen /\ n <= MemLen
    BY <1>1, <1>6
  <2> DEFINE str == UT!StringIn(topic)
             back == UT!hex_decode(UT!Untouched, n, SubSeq(str, 4, Len(str)))
  <2>4. SubSeq(str, 1, 3) = <<"e", "4", "/">> /\ SubSeq(str, 4, Len(str)) = DigitsOfId(id)
    BY <1>1, <1>2, <2>3, TopicString DEF DigitsOfId
  <2>5. back = [r |-> 2 * n, mem |-> [i \in 1 .. MemLen |-> IF i <= n THEN id[i] ELSE UT!Untouched[i]]]
    <3>1. UT!hex_decode(UT!Untouched, n, DigitsOfId(id)) =
            [r |-> 2 * n, mem |-> [i \in 1 .. MemLen |-> IF i <= n THEN id[i] ELSE UT!Untouched[i]]]
      BY <1>1, <1>2, <2>3, DecodeIs
    <3> QED
      BY <2>4, <3>1
  <2>6. [i \in 1 .. MemLen |-> IF i <= n THEN id[i] ELSE UT!Untouched[i]]
          = id \o SubSeq(UT!Untouched, n + 1, MemLen)
    <3> DEFINE rest == SubSeq(UT!Untouched, n + 1, MemLen)
    <3>1. UT!Untouched \in Seq(Cells) /\ Len(UT!Untouched) = MemLen
      BY <1>1, <1>2 DEF Memories
    <3>2. rest = [i \in 1 .. MemLen - n |-> UT!Untouched[n + i]]
      BY <1>1, <2>3, <3>1
    <3> HIDE DEF rest
    <3>3. rest = [i \in 1 .. MemLen - n |-> rest[i]] /\ id = [i \in 1 .. n |-> id[i]]
      BY <1>1, <3>2
    <3>4. MemLen - n \in Nat /\ n + (MemLen - n) = MemLen
      BY <1>1, <2>3
    <3>5. id \o rest = [i \in 1 .. n + (MemLen - n) |-> IF i <= n THEN id[i] ELSE rest[i - n]]
      <4> DEFINE k == MemLen - n
      <4>1. k \in Nat /\ rest = [i \in 1 .. k |-> rest[i]]
        BY <3>3, <3>4
      <4>2. n \in Nat /\ id = [i \in 1 .. n |-> id[i]]
        BY <1>1, <3>3
      <4> HIDE DEF k, n
      <4>3. id \o rest = [i \in 1 .. n + k |-> IF i <= n THEN id[i] ELSE rest[i - n]]
        BY <4>1, <4>2, Joined
      <4> QED
        BY <4>3 DEF k
    <3>6. ASSUME NEW i \in 1 .. MemLen, ~ (i <= n) PROVE rest[i - n] = UT!Untouched[i]
      <4>1. i - n \in 1 .. MemLen - n /\ n + (i - n) = i
        BY <1>1, <3>6
      <4> QED
        BY <3>2, <4>1
    <3> QED
      BY <3>4, <3>5, <3>6 DEF rest
  <2>7. UT!TopicNamesId'
    BY <2>2, <2>4, <2>5, <2>6 DEF UT!TopicNamesId
  <2>8. \A i \in size + 1 .. MemLen : memory'[i] = "untouched"
    <3>1. topic = TopicUpTo(UT!Untouched, id, n)
      BY <1>1, <1>2, TopicIs
    <3>2. ASSUME NEW i \in size + 1 .. MemLen PROVE topic[i] = UT!Untouched[i]
      BY <1>1, <1>6, <3>1, <3>2 DEF TopicUpTo
    <3> HIDE DEF topic
    <3> QED
      BY <1>1, <2>2, <3>2 DEF UT!Untouched
  <2>9. UT!BuffersKept'
    BY <2>2, <2>8 DEF UT!BuffersKept
  <2> QED
    BY <2>2, <2>7, <2>9 DEF StringsInv, StringsFit
<1> QED
  BY <1>5, <1>6

(* Bytes are decoded into the buffer only.                                 *)
LEMMA DecodeCall ==
    ASSUME StringsInv, NEW size \in 0 .. MemLen, NEW str \in Encodings,
           UT!Call("decode", UT!hex_decode(memory, size, str), str, size)
    PROVE  StringsInv'
<1> DEFINE res == UT!hex_decode(UT!Untouched, size, str)
           s == UT!Decode(UT!Untouched, str)
<1>1. memory = UT!Untouched /\ UT!Untouched \in Memories
  BY UntouchedMemory DEF StringsInv, UT!Call
<1>2. memory' = res.mem /\ call' = [op |-> "decode", arg |-> str, size |-> size, r |-> res.r]
  BY <1>1 DEF UT!Call
<1>3. Len(str) \in Nat /\ MemLen \in Nat
  BY E4UtilStringsGiven, StringsHave DEF UT!StringsGiven
<1>4. \A i \in 1 .. MemLen : i > size => res.mem[i] = UT!Untouched[i]
  <2>1. CASE Len(str) = 0 \/ Len(str) % 2 # 0 \/ Len(str) \div 2 > size
    <3>1. res = [r |-> 0, mem |-> UT!Untouched]
      BY <2>1 DEF UT!hex_decode
    <3> QED
      BY <3>1
  <2>2. CASE ~ (Len(str) = 0 \/ Len(str) % 2 # 0 \/ Len(str) \div 2 > size)
    <3>1. res = [s EXCEPT !.r = IF @ = 0 THEN 0 ELSE @ - 1]
      BY <2>2 DEF UT!hex_decode
    <3>2. s \in DecodeStates /\ \A i \in 1 .. MemLen : i > Len(str) \div 2 => s.mem[i] = UT!Untouched[i]
      BY <1>1, <1>3, DecodeKeeps
    <3> HIDE DEF res, s
    <3>3. res.mem = s.mem
      BY <3>1, <3>2 DEF DecodeStates
    <3> QED
      BY <1>3, <2>2, <3>2, <3>3
  <2> QED
    BY <2>1, <2>2
<1> HIDE DEF res
<1>5. \A i \in size + 1 .. MemLen : memory'[i] = "untouched"
  BY <1>2, <1>3, <1>4 DEF UT!Untouched
<1>6. call'.op = "decode" /\ call'.size = size
  BY <1>2
<1>7. UT!TopicNamesId' /\ UT!BuffersKept'
  BY <1>5, <1>6 DEF UT!TopicNamesId, UT!BuffersKept
<1> QED
  BY <1>6, <1>7 DEF StringsInv, StringsFit

(* A copy leaves what a string of the buffer's size can hold.              *)
LEMMA CopyCall ==
    ASSUME StringsInv, NEW size \in 0 .. MemLen, NEW str \in Encodings,
           UT!Call("copy", UT!strlcpy(memory, size, str), str, size)
    PROVE  StringsInv'
<1> DEFINE res == UT!strlcpy(UT!Untouched, size, str)
<1>1. memory = UT!Untouched /\ UT!Untouched \in Memories
  BY UntouchedMemory DEF StringsInv, UT!Call
<1>2. memory' = res.mem /\ call' = [op |-> "copy", arg |-> str, size |-> size, r |-> res.r]
  BY <1>1 DEF UT!Call
<1>3. MemLen \in Nat
  BY E4UtilStringsGiven DEF UT!StringsGiven
<1>4. /\ res.r = Len(str)
      /\ \A i \in 1 .. MemLen : i > size => res.mem[i] = UT!Untouched[i]
      /\ size > 0 => UT!StringIn(res.mem) = SubSeq(str, 1, IF Len(str) < size THEN Len(str) ELSE size - 1)
  BY <1>1, CopyIs
<1> HIDE DEF res
<1>5. \A i \in size + 1 .. MemLen : memory'[i] = "untouched"
  BY <1>2, <1>3, <1>4 DEF UT!Untouched
<1>6. call'.op = "copy" /\ call'.arg = str /\ call'.size = size /\ call'.r = Len(str)
  BY <1>2, <1>4
<1>7. UT!TopicNamesId' /\ UT!BuffersKept'
  BY <1>2, <1>4, <1>5, <1>6 DEF UT!TopicNamesId, UT!BuffersKept
<1> QED
  BY <1>6, <1>7 DEF StringsInv, StringsFit

(* For ids, buffers and strings of every length: what is derived as the    *)
(* control topic of an id decodes to that id and no other; no call of      *)
(* e4c_derive_control_topic, e4c_hex_decode or strlcpy writes behind the   *)
(* buffer it was given; and strlcpy ends in NUL, as much as fits before.   *)
THEOREM StringsAlwaysFit == UT!Spec => []StringsFit
<1>1. UT!Init => StringsInv
  <2> SUFFICES ASSUME UT!Init PROVE StringsInv
    OBVIOUS
  <2>1. memory = UT!Untouched /\ call.op = "none"
    BY DEF UT!Init
  <2>2. \A i \in call.size + 1 .. MemLen : memory[i] = "untouched"
    BY <2>1 DEF UT!Init, UT!Untouched
  <2> QED
    BY <2>1, <2>2 DEF StringsInv, StringsFit, UT!TopicNamesId, UT!BuffersKept
<1>2. StringsInv /\ [UT!Next]_(UT!vars) => StringsInv'
  <2> SUFFICES ASSUME StringsInv, [UT!Next]_(UT!vars) PROVE StringsInv'
    OBVIOUS
  <2>1. CASE UNCHANGED UT!vars
    BY <2>1 DEF UT!vars, StringsInv, StringsFit, UT!TopicNamesId, UT!BuffersKept
  <2>2. CASE UT!Next
    BY <2>2, TopicCall, DecodeCall, CopyCall DEF UT!Next
  <2> QED
    BY <2>1, <2>2
<1>3. StringsInv => StringsFit
  BY DEF StringsInv
<1> QED
  BY <1>1, <1>2, <1>3, PTL DEF UT!Spec

=============================================================================

--------------------------- MODULE KeyTableProofs ---------------------------
(***************************************************************************)
(* Facts about the operators of KeyTable, for every size of table, every   *)
(* set of names and every set of keys.  The first ones hold of every table;*)
(* the others of tables whose live names are distinct, which set and       *)
(* remove preserve.                                                        *)
(***************************************************************************)
EXTENDS KeyTable, FiniteSetTheorems, FunctionTheorems, WellFoundedInduction, TLAPS

(* The tables with max slots whose slots hold members of E.                *)
Tables(max, E) == [count : 0 .. max, slot : [0 .. max - 1 -> E]]

-----------------------------------------------------------------------------
(* Tables that may hold a name twice.                                      *)

(* A nonempty set of numbers has a least element.                          *)
LEMMA LeastElement ==
    ASSUME NEW S \in SUBSET Nat, S # {}
    PROVE  \E x \in S : \A y \in S : x <= y
<1>1. \E x \in S : \A y \in S : ~ (<<y, x>> \in OpToRel(<, Nat))
  BY NatLessThanWellFounded, WFMin
<1>2. PICK x \in S : \A y \in S : ~ (<<y, x>> \in OpToRel(<, Nat))
  BY <1>1
<1>3. \A y \in S : ~ (y < x)
  BY <1>2 DEF OpToRel
<1> QED
  BY <1>3

(* The scan ends at the least live slot that holds the name, which exists  *)
(* because the numbers are well-founded, or at the count.                  *)
LEMMA ScanFirst ==
    ASSUME NEW t, t.count \in Nat, NEW n
    PROVE  /\ FirstSlot(t, n) \in 0 .. t.count
           /\ n \in Names(t) => /\ FirstSlot(t, n) \in LiveSlots(t)
                                /\ t.slot[FirstSlot(t, n)].name = n
                                /\ \A j \in 0 .. FirstSlot(t, n) - 1 : t.slot[j].name # n
           /\ n \notin Names(t) => FirstSlot(t, n) = t.count
<1> DEFINE S == {i \in LiveSlots(t) : t.slot[i].name = n}
<1>1. CASE n \notin Names(t)
  <2>1. FirstSlot(t, n) = t.count
    BY <1>1 DEF FirstSlot, Names
  <2> QED
    BY <1>1, <2>1
<1>2. CASE n \in Names(t)
  <2>1. S \in SUBSET Nat /\ S # {}
    BY <1>2 DEF LiveSlots, Names
  <2>2. PICK x \in S : \A y \in S : x <= y
    BY <2>1, LeastElement
  <2>3. \A j \in 0 .. x - 1 : j \in LiveSlots(t) /\ ~ (x <= j)
    BY <2>2 DEF LiveSlots
  <2>4. \A j \in 0 .. x - 1 : t.slot[j].name # n
    BY <2>2, <2>3
  <2>5. /\ FirstSlot(t, n) \in LiveSlots(t)
        /\ t.slot[FirstSlot(t, n)].name = n
        /\ \A j \in 0 .. FirstSlot(t, n) - 1 : t.slot[j].name # n
    BY <2>2, <2>4 DEF FirstSlot
  <2> QED
    BY <1>2, <2>5 DEF LiveSlots
<1> QED
  BY <1>1, <1>2

(* The least live slot that holds the name is where the scan ends.         *)
LEMMA ScanUnique ==
    ASSUME NEW t, t.count \in Nat, NEW i \in LiveSlots(t),
           \A j \in 0 .. i - 1 : t.slot[j].name # t.slot[i].name
    PROVE  FirstSlot(t, t.slot[i].name) = i
<1> DEFINE n == t.slot[i].name
           f == FirstSlot(t, n)
<1>1. n \in Names(t)
  BY DEF Names
<1>2. f \in LiveSlots(t) /\ t.slot[f].name = n /\ \A j \in 0 .. f - 1 : t.slot[j].name # n
  BY <1>1, ScanFirst
<1>3. i \in 0 .. t.count - 1 /\ f \in 0 .. t.count - 1
  BY <1>2 DEF LiveSlots
<1> HIDE DEF f
<1>4. ~ (i < f) /\ ~ (f < i)
  <2>1. i < f => i \in 0 .. f - 1
    BY <1>3
  <2>2. f < i => f \in 0 .. i - 1
    BY <1>3
  <2> QED
    BY <1>2, <2>1, <2>2
<1> QED
  BY <1>3, <1>4 DEF f

(* A lookup returns the key in the least slot that holds the name.         *)
LEMMA LookupFirst ==
    ASSUME NEW t, t.count \in Nat, NEW i \in LiveSlots(t),
           \A j \in 0 .. i - 1 : t.slot[j].name # t.slot[i].name, NEW none
    PROVE  Lookup(t, t.slot[i].name, none) = t.slot[i].key
  BY ScanUnique DEF Lookup, Names

(* Where the scan ends depends on the names up to there only.              *)
LEMMA ScanSame ==
    ASSUME NEW t, t.count \in Nat, NEW u, u.count \in Nat, NEW n, n \in Names(t),
           FirstSlot(t, n) < u.count,
           \A j \in 0 .. FirstSlot(t, n) : u.slot[j].name = t.slot[j].name
    PROVE  n \in Names(u) /\ FirstSlot(u, n) = FirstSlot(t, n)
<1> DEFINE i == FirstSlot(t, n)
<1>1. i \in LiveSlots(t) /\ t.slot[i].name = n /\ \A j \in 0 .. i - 1 : t.slot[j].name # n
  BY ScanFirst
<1>2. i \in Nat
  BY <1>1 DEF LiveSlots
<1> HIDE DEF i
<1>3. i \in LiveSlots(u) /\ i \in 0 .. i /\ \A j \in 0 .. i - 1 : j \in 0 .. i
  BY <1>2 DEF LiveSlots, i
<1>4. u.slot[i].name = n /\ \A j \in 0 .. i - 1 : u.slot[j].name # n
  BY <1>1, <1>3 DEF i
<1>5. FirstSlot(u, u.slot[i].name) = i
  BY <1>3, <1>4, ScanUnique
<1> QED
  BY <1>3, <1>4, <1>5 DEF Names, i

(* A write below the end of the array keeps a table a table.               *)
LEMMA PutTable ==
    ASSUME NEW max \in Nat, NEW E, NEW t \in Tables(max, E),
           NEW i \in 0 .. t.count, i < max, NEW n, NEW k, [name |-> n, key |-> k] \in E
    PROVE  /\ PutAt(t, i, n, k) \in Tables(max, E)
           /\ PutAt(t, i, n, k).count = IF i = t.count THEN t.count + 1 ELSE t.count
           /\ PutAt(t, i, n, k).slot[i] = [name |-> n, key |-> k]
           /\ \A j \in 0 .. max - 1 : j # i => PutAt(t, i, n, k).slot[j] = t.slot[j]
<1>1. t.count \in 0 .. max /\ t.slot \in [0 .. max - 1 -> E]
  BY DEF Tables
<1>2. (IF i = t.count THEN t.count + 1 ELSE t.count) \in 0 .. max
  BY <1>1
<1>3. [t.slot EXCEPT ![i] = [name |-> n, key |-> k]] \in [0 .. max - 1 -> E]
  BY <1>1
<1>4. PutAt(t, i, n, k) \in Tables(max, E)
  BY <1>2, <1>3 DEF PutAt, Tables
<1>5. i \in 0 .. max - 1
  BY <1>1
<1> QED
  BY <1>1, <1>4, <1>5 DEF PutAt

(* So does a removal, as long as its loop stays inside the array.          *)
LEMMA CloseGapTable ==
    ASSUME NEW max \in Nat, NEW E, NEW t \in Tables(max, E),
           NEW i \in LiveSlots(t), NEW limit \in 0 .. max, NEW zero \in E
    PROVE  /\ CloseGap(t, i, limit, zero) \in Tables(max, E)
           /\ CloseGap(t, i, limit, zero).count = t.count - 1
           /\ \A j \in 0 .. max - 1 :
                 CloseGap(t, i, limit, zero).slot[j] =
                     IF j = t.count THEN zero
                     ELSE IF i <= j /\ j + 1 < limit THEN t.slot[j + 1]
                     ELSE t.slot[j]
<1> DEFINE s == [j \in DOMAIN t.slot |->
                   IF j = t.count THEN zero
                   ELSE IF i <= j /\ j + 1 < limit THEN t.slot[j + 1]
                   ELSE t.slot[j]]
<1>1. t.count \in 0 .. max /\ t.slot \in [0 .. max - 1 -> E]
  BY DEF Tables
<1>2. t.count - 1 \in 0 .. max
  BY <1>1 DEF LiveSlots
<1>3. s \in [0 .. max - 1 -> E]
  <2> SUFFICES ASSUME NEW j \in 0 .. max - 1
               PROVE  (IF j = t.count THEN zero
                       ELSE IF i <= j /\ j + 1 < limit THEN t.slot[j + 1]
                       ELSE t.slot[j]) \in E
    BY <1>1
  <2>1. j + 1 < limit => j + 1 \in 0 .. max - 1
    OBVIOUS
  <2> QED
    BY <1>1, <2>1
<1>4. CloseGap(t, i, limit, zero) = [count |-> t.count - 1, slot |-> s]
  BY DEF CloseGap
<1>5. \A j \in 0 .. max - 1 :
         s[j] = IF j = t.count THEN zero
                ELSE IF i <= j /\ j + 1 < limit THEN t.slot[j + 1]
                ELSE t.slot[j]
  BY <1>1
<1> HIDE DEF s
<1> QED
  BY <1>2, <1>3, <1>4, <1>5 DEF Tables

(* Which rows are live after a write: the new one and, of the old ones,    *)
(* all but the one it replaces.                                            *)
LEMMA PutRows ==
    ASSUME NEW max \in Nat, NEW E, NEW t \in Tables(max, E), NEW n, NEW k,
           [name |-> n, key |-> k] \in E, FirstSlot(t, n) < max
    PROVE  LET u == PutAt(t, FirstSlot(t, n), n, k)
           IN  /\ u \in Tables(max, E)
               /\ \A j \in LiveSlots(u) : \/ u.slot[j] = [name |-> n, key |-> k]
                                          \/ \E l \in LiveSlots(t) : u.slot[j] = t.slot[l]
<1> DEFINE i == FirstSlot(t, n)
           u == PutAt(t, i, n, k)
<1>1. t.count \in 0 .. max /\ t.count \in Nat
  BY DEF Tables
<1>2. i \in 0 .. t.count
  BY <1>1, ScanFirst
<1>3. /\ u \in Tables(max, E)
      /\ u.count = IF i = t.count THEN t.count + 1 ELSE t.count
      /\ u.slot[i] = [name |-> n, key |-> k]
      /\ \A j \in 0 .. max - 1 : j # i => u.slot[j] = t.slot[j]
  BY <1>2, PutTable
<1> HIDE DEF i, u
<1>4. \A j \in LiveSlots(u) : j # i => j \in LiveSlots(t) /\ j \in 0 .. max - 1
  BY <1>1, <1>2, <1>3 DEF LiveSlots
<1>5. \A j \in LiveSlots(u) : \/ u.slot[j] = [name |-> n, key |-> k]
                             \/ \E l \in LiveSlots(t) : u.slot[j] = t.slot[l]
  BY <1>3, <1>4
<1> QED
  BY <1>3, <1>5 DEF u, i

(* And after a removal, wherever its loop stops.                           *)
LEMMA GapRowsUpTo ==
    ASSUME NEW max \in Nat, NEW E, NEW t \in Tables(max, E), NEW n,
           FirstSlot(t, n) < t.count, NEW limit \in 0 .. max, NEW zero \in E
    PROVE  LET u == CloseGap(t, FirstSlot(t, n), limit, zero)
           IN  /\ u \in Tables(max, E)
               /\ \A j \in LiveSlots(u) : \E l \in LiveSlots(t) : u.slot[j] = t.slot[l]
<1> DEFINE i == FirstSlot(t, n)
           u == CloseGap(t, i, limit, zero)
<1>1. t.count \in 0 .. max /\ t.count \in Nat
  BY DEF Tables
<1>2. i \in LiveSlots(t)
  BY <1>1, ScanFirst DEF LiveSlots
<1>3. i < t.count
  OBVIOUS
<1> HIDE DEF i
<1>4. /\ u \in Tables(max, E)
      /\ u.count = t.count - 1
      /\ \A j \in 0 .. max - 1 :
            u.slot[j] = IF j = t.count THEN zero
                        ELSE IF i <= j /\ j + 1 < limit THEN t.slot[j + 1]
                        ELSE t.slot[j]
  BY <1>1, <1>2, CloseGapTable
<1> HIDE DEF u
<1>5. ASSUME NEW j \in LiveSlots(u)
      PROVE  \E l \in LiveSlots(t) : u.slot[j] = t.slot[l]
  <2>1. j \in 0 .. max - 1 /\ j # t.count /\ j \in LiveSlots(t) /\ j + 1 \in LiveSlots(t)
    BY <1>1, <1>4 DEF LiveSlots
  <2>2. u.slot[j] = t.slot[j] \/ u.slot[j] = t.slot[j + 1]
    BY <1>4, <2>1
  <2> QED
    BY <2>1, <2>2
<1> QED
  BY <1>4, <1>5 DEF u, i

(* The loop that stops where it should.                                    *)
LEMMA GapRows ==
    ASSUME NEW max \in Nat, NEW E, NEW t \in Tables(max, E), NEW n,
           FirstSlot(t, n) < t.count, NEW zero \in E
    PROVE  LET u == CloseGap(t, FirstSlot(t, n), t.count, zero)
           IN  /\ u \in Tables(max, E)
               /\ \A j \in LiveSlots(u) : \E l \in LiveSlots(t) : u.slot[j] = t.slot[l]
<1>1. t.count \in 0 .. max
  BY DEF Tables
<1> QED
  BY <1>1, GapRowsUpTo

-----------------------------------------------------------------------------
(* Tables that hold a name once.                                           *)

(* The scan finds the one live slot that holds a name.                     *)
LEMMA FirstSlotLive ==
    ASSUME NEW max \in Nat, NEW E, NEW t \in Tables(max, E), UniqueNames(t),
           NEW i \in LiveSlots(t)
    PROVE  FirstSlot(t, t.slot[i].name) = i
<1> DEFINE n == t.slot[i].name
           P(x) == t.slot[x].name = n /\ \A j \in 0 .. x - 1 : t.slot[j].name # n
<1>1. t.count \in Nat /\ i \in Nat
  BY DEF Tables, LiveSlots
<1>2. \A j \in LiveSlots(t) : t.slot[j].name = n => j = i
  BY DEF UniqueNames
<1>3. \A j \in 0 .. i - 1 : j \in LiveSlots(t) /\ j # i
  BY <1>1 DEF LiveSlots
<1>4. P(i)
  BY <1>2, <1>3
<1>5. (CHOOSE x \in LiveSlots(t) : P(x)) = i
  BY <1>2, <1>4
<1> QED
  BY <1>4, <1>5 DEF FirstSlot

(* The scan runs to the end when no live slot holds the name.              *)
LEMMA FirstSlotFree ==
    ASSUME NEW t, NEW n, n \notin Names(t)
    PROVE  FirstSlot(t, n) = t.count
  BY DEF FirstSlot, Names

(* Where the scan can end.                                                 *)
LEMMA FirstSlotRange ==
    ASSUME NEW max \in Nat, NEW E, NEW t \in Tables(max, E), UniqueNames(t),
           NEW n
    PROVE  /\ FirstSlot(t, n) \in 0 .. t.count
           /\ n \in Names(t) => /\ FirstSlot(t, n) \in LiveSlots(t)
                                /\ t.slot[FirstSlot(t, n)].name = n
           /\ n \notin Names(t) => FirstSlot(t, n) = t.count
<1>1. t.count \in Nat
  BY DEF Tables
<1>2. CASE n \in Names(t)
  <2>1. PICK i \in LiveSlots(t) : t.slot[i].name = n
    BY <1>2 DEF Names
  <2>2. FirstSlot(t, n) = i
    BY <2>1, FirstSlotLive
  <2> QED
    BY <1>1, <1>2, <2>1, <2>2 DEF LiveSlots
<1>3. CASE n \notin Names(t)
  BY <1>1, <1>3, FirstSlotFree
<1> QED
  BY <1>2, <1>3

(* A lookup returns the key next to the name.                              *)
LEMMA LookupLive ==
    ASSUME NEW max \in Nat, NEW E, NEW t \in Tables(max, E), UniqueNames(t),
           NEW i \in LiveSlots(t), NEW none
    PROVE  Lookup(t, t.slot[i].name, none) = t.slot[i].key
  BY FirstSlotLive DEF Lookup, Names

(* There are as many names as live slots.                                  *)
LEMMA NamesCardinality ==
    ASSUME NEW max \in Nat, NEW E, NEW t \in Tables(max, E), UniqueNames(t)
    PROVE  IsFiniteSet(Names(t)) /\ Cardinality(Names(t)) = t.count
<1> DEFINE S == LiveSlots(t)
           f == [i \in S |-> t.slot[i].name]
<1>1. t.count \in Nat
  BY DEF Tables
<1>2. IsFiniteSet(S) /\ Cardinality(S) = t.count
  <2>1. 0 \in Int /\ t.count - 1 \in Int
    BY <1>1
  <2>2. /\ IsFiniteSet(0 .. t.count - 1)
        /\ Cardinality(0 .. t.count - 1)
             = IF 0 > t.count - 1 THEN 0 ELSE t.count - 1 - 0 + 1
    BY ONLY <2>1, FS_Interval
  <2> QED
    BY <1>1, <2>2 DEF LiveSlots
<1>3. f \in [S -> Names(t)]
  BY DEF Names
<1>4. \A a, b \in S : f[a] = f[b] => a = b
  BY DEF UniqueNames
<1>5. \A n \in Names(t) : \E a \in S : f[a] = n
  BY DEF Names
<1> HIDE DEF f, S
<1>6. f \in Bijection(S, Names(t))
  BY <1>3, <1>4, <1>5, Fun_IsBij
<1>7. ExistsBijection(S, Names(t))
  BY <1>6 DEF ExistsBijection
<1> QED
  BY <1>2, <1>7, FS_Bijection

-----------------------------------------------------------------------------
(* Setting a key.                                                          *)

(* Writing where the scan ends keeps the table a table with distinct       *)
(* names, adds the name, and changes what is found for that name only.     *)
LEMMA PutCorrect ==
    ASSUME NEW max \in Nat, NEW E, NEW t \in Tables(max, E), UniqueNames(t),
           NEW n, NEW k, [name |-> n, key |-> k] \in E, NEW none,
           FirstSlot(t, n) < max
    PROVE  LET u == PutAt(t, FirstSlot(t, n), n, k)
           IN  /\ u \in Tables(max, E)
               /\ UniqueNames(u)
               /\ Names(u) = Names(t) \cup {n}
               /\ \A m : Lookup(u, m, none) = IF m = n THEN k ELSE Lookup(t, m, none)
<1> DEFINE i == FirstSlot(t, n)
           u == PutAt(t, i, n, k)
<1>1. /\ t.count \in 0 .. max /\ t.slot \in [0 .. max - 1 -> E]
      /\ t = [count |-> t.count, slot |-> t.slot]
  BY DEF Tables
<1>2. /\ i \in 0 .. t.count
      /\ n \in Names(t) => i \in LiveSlots(t) /\ t.slot[i].name = n
      /\ n \notin Names(t) => i = t.count
  BY FirstSlotRange
<1> HIDE DEF i
<1>3. /\ u.count = IF i = t.count THEN t.count + 1 ELSE t.count
      /\ u.slot = [t.slot EXCEPT ![i] = [name |-> n, key |-> k]]
      /\ u = [count |-> u.count, slot |-> u.slot]
  BY DEF PutAt
<1> HIDE DEF u
<1>4. u \in Tables(max, E)
  <2>1. u.count \in 0 .. max
    BY <1>1, <1>2, <1>3 DEF i
  <2>2. u.slot \in [0 .. max - 1 -> E]
    BY <1>1, <1>3
  <2> QED
    BY <1>3, <2>1, <2>2 DEF Tables
<1>5. LiveSlots(u) = LiveSlots(t) \cup {i}
  BY <1>1, <1>2, <1>3 DEF LiveSlots
<1>6. LiveSlots(u) \subseteq 0 .. max - 1
  BY <1>4 DEF Tables, LiveSlots
<1>7. /\ u.slot[i].name = n
      /\ u.slot[i].key = k
      /\ \A j \in LiveSlots(t) \ {i} : u.slot[j] = t.slot[j]
  BY <1>1, <1>3, <1>5, <1>6
<1>8. \A j \in LiveSlots(t) \ {i} : t.slot[j].name # n
  <2>1. CASE n \in Names(t)
    BY <1>2, <2>1 DEF UniqueNames
  <2>2. CASE n \notin Names(t)
    BY <2>2 DEF Names
  <2> QED
    BY <2>1, <2>2
<1>9. UniqueNames(u)
  BY <1>5, <1>7, <1>8 DEF UniqueNames
<1>10. Names(u) = Names(t) \cup {n}
  <2>1. \A j \in LiveSlots(u) : u.slot[j].name \in Names(t) \cup {n}
    BY <1>5, <1>7 DEF Names
  <2>2. n \in Names(u)
    BY <1>5, <1>7 DEF Names
  <2>3. ASSUME NEW j \in LiveSlots(t) PROVE t.slot[j].name \in Names(u)
    <3>1. CASE j = i
      <4>1. t.slot[j].name = n
        BY <1>1, <1>2, <3>1, <2>3 DEF LiveSlots
      <4> QED
        BY <4>1, <2>2
    <3>2. CASE j # i
      BY <1>5, <1>7, <3>2 DEF Names
    <3> QED
      BY <3>1, <3>2
  <2> QED
    BY <2>1, <2>2, <2>3 DEF Names
<1>11. ASSUME NEW m
       PROVE  Lookup(u, m, none) = IF m = n THEN k ELSE Lookup(t, m, none)
  <2>1. CASE m = n
    <3>1. Lookup(u, u.slot[i].name, none) = u.slot[i].key
      BY <1>4, <1>5, <1>9, LookupLive
    <3> QED
      BY <1>7, <2>1, <3>1
  <2>2. CASE m # n /\ m \in Names(t)
    <3>1. PICK j \in LiveSlots(t) : t.slot[j].name = m
      BY <2>2 DEF Names
    <3>2. j # i
      BY <1>1, <1>2, <2>2, <3>1 DEF LiveSlots, Names
    <3>3. Lookup(t, t.slot[j].name, none) = t.slot[j].key
      BY LookupLive
    <3>4. Lookup(u, u.slot[j].name, none) = u.slot[j].key
      BY <1>4, <1>5, <1>9, LookupLive
    <3> QED
      BY <1>7, <2>2, <3>1, <3>2, <3>3, <3>4
  <2>3. CASE m # n /\ m \notin Names(t)
    BY <1>10, <2>3 DEF Lookup
  <2> QED
    BY <2>1, <2>2, <2>3
<1> QED
  BY <1>4, <1>9, <1>10, <1>11 DEF u, i

-----------------------------------------------------------------------------
(* Removing a key.                                                         *)

(* Closing the gap over a live slot, with the count as the limit of the    *)
(* move, keeps the table a table with distinct names, drops the slot's     *)
(* name, and changes what is found for that name only.                     *)
LEMMA CloseGapCorrect ==
    ASSUME NEW max \in Nat, NEW E, NEW t \in Tables(max, E), UniqueNames(t),
           NEW i \in LiveSlots(t), NEW zero \in E, NEW none
    PROVE  LET u == CloseGap(t, i, t.count, zero)
               n == t.slot[i].name
           IN  /\ u \in Tables(max, E)
               /\ UniqueNames(u)
               /\ Names(u) = Names(t) \ {n}
               /\ \A j \in LiveSlots(u) : \E l \in LiveSlots(t) : u.slot[j] = t.slot[l]
               /\ \A m : Lookup(u, m, none) = IF m = n THEN none ELSE Lookup(t, m, none)
<1> DEFINE u == CloseGap(t, i, t.count, zero)
           n == t.slot[i].name
           from(j) == IF j < i THEN j ELSE j + 1
<1>1. /\ t.count \in 0 .. max /\ t.slot \in [0 .. max - 1 -> E]
      /\ i \in 0 .. t.count - 1
  BY DEF Tables, LiveSlots
<1>2. /\ u.count = t.count - 1
      /\ u.slot = [j \in 0 .. max - 1 |->
                     IF j = t.count THEN zero
                     ELSE IF i <= j /\ j + 1 < t.count THEN t.slot[j + 1]
                     ELSE t.slot[j]]
      /\ u = [count |-> u.count, slot |-> u.slot]
  BY <1>1 DEF CloseGap
<1> HIDE DEF u
<1>3. u \in Tables(max, E)
  <2>1. u.count \in 0 .. max
    BY <1>1, <1>2
  <2>2. ASSUME NEW j \in 0 .. max - 1 PROVE u.slot[j] \in E
    <3>1. i <= j /\ j + 1 < t.count => j + 1 \in 0 .. max - 1
      BY <1>1
    <3> QED
      BY <1>1, <1>2, <3>1
  <2>3. u.slot \in [0 .. max - 1 -> E]
    BY <1>2, <2>2
  <2> QED
    BY <1>2, <2>1, <2>3 DEF Tables
<1>4. \A j \in LiveSlots(u) : /\ from(j) \in LiveSlots(t) \ {i}
                              /\ u.slot[j] = t.slot[from(j)]
  BY <1>1, <1>2 DEF LiveSlots
<1>5. \A l \in LiveSlots(t) \ {i} : \E j \in LiveSlots(u) : from(j) = l
  <2>1. SUFFICES ASSUME NEW l \in LiveSlots(t) \ {i}
                 PROVE  \E j \in LiveSlots(u) : from(j) = l
    OBVIOUS
  <2>2. CASE l < i
    BY <1>1, <1>2, <2>2 DEF LiveSlots
  <2>3. CASE l > i
    <3>1. l - 1 \in LiveSlots(u) /\ from(l - 1) = l
      BY <1>1, <1>2, <2>3 DEF LiveSlots
    <3> QED
      BY <3>1
  <2> QED
    BY <1>1, <2>2, <2>3 DEF LiveSlots
<1>6. \A j, l \in LiveSlots(u) : from(j) = from(l) => j = l
  BY <1>1, <1>2 DEF LiveSlots
<1> HIDE DEF from
<1>7. UniqueNames(u)
  BY <1>4, <1>6 DEF UniqueNames
<1>8. Names(u) = Names(t) \ {n}
  <2>1. \A j \in LiveSlots(u) : u.slot[j].name \in Names(t) \ {n}
    BY <1>4 DEF Names, UniqueNames
  <2>2. ASSUME NEW l \in LiveSlots(t), t.slot[l].name # n
        PROVE  t.slot[l].name \in Names(u)
    BY <1>4, <1>5, <2>2 DEF Names
  <2> QED
    BY <2>1, <2>2 DEF Names
<1>9. ASSUME NEW m
      PROVE  Lookup(u, m, none) = IF m = n THEN none ELSE Lookup(t, m, none)
  <2>1. CASE m \in Names(u)
    <3>1. PICK j \in LiveSlots(u) : u.slot[j].name = m
      BY <2>1 DEF Names
    <3>2. Lookup(u, u.slot[j].name, none) = u.slot[j].key
      BY <1>3, <1>7, LookupLive
    <3>3. Lookup(t, t.slot[from(j)].name, none) = t.slot[from(j)].key
      BY <1>4, LookupLive
    <3> QED
      BY <1>4, <1>8, <2>1, <3>1, <3>2, <3>3
  <2>2. CASE m \notin Names(u)
    BY <1>8, <2>2 DEF Lookup
  <2> QED
    BY <2>1, <2>2
<1> QED
  BY <1>3, <1>4, <1>7, <1>8, <1>9 DEF u

=============================================================================

--------------------------- MODULE E4SystemProofs ---------------------------
(***************************************************************************)
(* The store in a file, and the client on it with the C2, for every table  *)
(* size, every set of ids, keys and topics and any number of messages and  *)
(* of faults.                                                              *)
(***************************************************************************)
EXTENDS E4System, KeyTableProofs

-----------------------------------------------------------------------------
(* The store: what a sync writes is what the store holds, a program that   *)
(* stops during a sync harms only the rows that move, and without faults a *)
(* topic has one row.                                                      *)

(* The fields have their types, and the control state of a sync is         *)
(* consistent: a position, a pending result and a running call go together.*)
StoreType ==
    /\ id \in Ids \cup {Zero}
    /\ key \in Keys \cup {Zero}
    /\ topics \in Table
    /\ WellFormed(file)
    /\ wpos \in 0 .. LastPos(topics.count) + 1
    /\ Idle <=> ret # Pending
    /\ Idle <=> op = NoCall
    /\ before.topics \in Table
    /\ restarts \in Nat
    /\ fails \in Nat

(* The cells sync has been through hold the store.                         *)
Written == \A p \in 1 .. wpos - 1 : file[p] = Image(p)

(* The call whose sync is running has changed the table as it should.      *)
TableOfCall ==
    LET i == FirstSlot(before.topics, arg)
    IN  /\ op = "set_topic_key" =>
             /\ arg \in Hashes
             /\ i < E4_TOPICS_MAX
             /\ \E k \in Keys : topics = PutAt(before.topics, i, arg, k)
        /\ op = "remove_topic" =>
             /\ i < before.topics.count
             /\ topics = CloseGap(before.topics, i, before.topics.count, ZeroEntry)

(* The cells sync has not reached hold the store as it was before the      *)
(* call, when the file held that.                                          *)
Unwritten ==
    before.clean =>
       /\ file[MagicPos] = Magic
       /\ file[IdPos] = id
       /\ file[KeyPos] = key
       /\ wpos <= CountPos => file[CountPos] = before.topics.count
       /\ \A i \in LiveSlots(before.topics) :
             /\ wpos <= HashPos(i) => file[HashPos(i)] = before.topics.slot[i].name
             /\ wpos <= TKeyPos(i) => file[TKeyPos(i)] = before.topics.slot[i].key

(* Without faults the table has distinct names, and so does a file that a  *)
(* sync has finished.                                                      *)
Faultless ==
    restarts = 0 /\ fails = 0 =>
       /\ UniqueNames(topics)
       /\ Idle /\ file[MagicPos] = Magic => Loads(file) /\ UniqueNames(Reload)

SyncInv == StoreType /\ Written /\ TableOfCall /\ Unwritten

-----------------------------------------------------------------------------
(* Cells and rows.                                                         *)

(* Table, in the form the lemmas about tables use.                         *)
LEMMA TableIsTables == Table = Tables(E4_TOPICS_MAX, Entry)
  BY DEF Table, Tables

(* What the parts of a table are.                                          *)
LEMMA TableParts ==
    ASSUME NEW t \in Table
    PROVE  /\ t.count \in 0 .. E4_TOPICS_MAX
           /\ t.count \in Nat
           /\ LiveSlots(t) \subseteq 0 .. E4_TOPICS_MAX - 1
           /\ LiveSlots(t) \subseteq Nat
           /\ t.slot \in [0 .. E4_TOPICS_MAX - 1 -> Entry]
           /\ \A i \in 0 .. E4_TOPICS_MAX - 1 :
                 /\ t.slot[i].name \in Hashes \cup {Zero}
                 /\ t.slot[i].key \in Keys \cup {Zero}
                 /\ t.slot[i] = [name |-> t.slot[i].name, key |-> t.slot[i].key]
<1>1. /\ t.count \in 0 .. E4_TOPICS_MAX
      /\ t.slot \in [0 .. E4_TOPICS_MAX - 1 -> Entry]
  BY DEF Table
<1>2. LiveSlots(t) \subseteq 0 .. E4_TOPICS_MAX - 1 /\ LiveSlots(t) \subseteq Nat
  BY <1>1, MaxAssumption DEF LiveSlots
<1>3. t.count \in Nat
  BY <1>1, MaxAssumption
<1>4. ASSUME NEW i \in 0 .. E4_TOPICS_MAX - 1
      PROVE  /\ t.slot[i].name \in Hashes \cup {Zero}
             /\ t.slot[i].key \in Keys \cup {Zero}
             /\ t.slot[i] = [name |-> t.slot[i].name, key |-> t.slot[i].key]
  <2>1. t.slot[i] \in [name : Hashes \cup {Zero}, key : Keys \cup {Zero}]
    BY <1>1 DEF Entry
  <2> QED
    BY <2>1
<1> QED
  BY <1>1, <1>2, <1>3, <1>4

(* The cells of a row lie behind the header, each in its own place.        *)
LEMMA RowCells ==
    ASSUME NEW i \in Nat
    PROVE  /\ HashPos(i) \in Nat /\ HashPos(i) > 4
           /\ TKeyPos(i) = HashPos(i) + 1
           /\ (HashPos(i) - 5) \div 2 = i
           /\ (TKeyPos(i) - 5) \div 2 = i
  BY DEF HashPos, TKeyPos

(* What sync writes into each cell.                                        *)
LEMMA ImageCells ==
    /\ Image(MagicPos) = Magic
    /\ Image(IdPos) = id
    /\ Image(KeyPos) = key
    /\ Image(CountPos) = topics.count
    /\ \A i \in Nat : /\ Image(HashPos(i)) = topics.slot[i].name
                     /\ Image(TKeyPos(i)) = topics.slot[i].key
<1>1. /\ Image(MagicPos) = Magic
      /\ Image(IdPos) = id
      /\ Image(KeyPos) = key
      /\ Image(CountPos) = topics.count
  BY DEF Image, MagicPos, IdPos, KeyPos, CountPos
<1>2. ASSUME NEW i \in Nat
      PROVE  /\ Image(HashPos(i)) = topics.slot[i].name
             /\ Image(TKeyPos(i)) = topics.slot[i].key
  <2>1. /\ HashPos(i) \in Nat /\ HashPos(i) > 4
        /\ TKeyPos(i) = HashPos(i) + 1
        /\ (HashPos(i) - 5) \div 2 = i
        /\ (TKeyPos(i) - 5) \div 2 = i
    BY RowCells
  <2>2. TKeyPos(i) # HashPos(i) /\ TKeyPos(i) \in Nat /\ TKeyPos(i) > 4
    BY <2>1
  <2> QED
    BY <2>1, <2>2 DEF Image, MagicPos, IdPos, KeyPos, CountPos
<1> QED
  BY <1>1, <1>2

(* The values sync writes are values of their fields.                      *)
LEMMA ImageTyped ==
    ASSUME StoreType
    PROVE  /\ Image(IdPos) \in (Ids \cup {Zero}) \ {Absent}
           /\ Image(KeyPos) \in (Keys \cup {Zero}) \ {Absent}
           /\ Image(CountPos) \in 0 .. E4_TOPICS_MAX
           /\ Image(CountPos) # Absent
           /\ \A i \in 0 .. E4_TOPICS_MAX - 1 :
                 /\ Image(HashPos(i)) \in (Hashes \cup {Zero}) \ {Absent}
                 /\ Image(TKeyPos(i)) \in (Keys \cup {Zero}) \ {Absent}
<1>1. topics.count \in 0 .. E4_TOPICS_MAX
  BY TableParts DEF StoreType
<1>2. \A i \in 0 .. E4_TOPICS_MAX - 1 : /\ topics.slot[i].name \in Hashes \cup {Zero}
                                        /\ topics.slot[i].key \in Keys \cup {Zero}
  BY TableParts DEF StoreType
<1>3. \A i \in 0 .. E4_TOPICS_MAX - 1 : i \in Nat
  BY MaxAssumption
<1> QED
  BY <1>1, <1>2, <1>3, ImageCells, AbsentAssumption DEF StoreType

(* One write leaves every other cell alone and keeps the file well formed. *)
LEMMA WriteWellFormed ==
    ASSUME StoreType, WriteField
    PROVE  /\ WellFormed(file')
           /\ file'[wpos] = Image(wpos)
           /\ \A p \in Positions : p # wpos => file'[p] = file[p]
<1>1. /\ file = [p \in Positions |-> file[p]]
      /\ file' = [file EXCEPT ![wpos] = Image(wpos)]
      /\ wpos \in 1 .. LastPos(topics.count)
  BY DEF StoreType, WellFormed, WriteField
<1>2. topics.count \in 0 .. E4_TOPICS_MAX /\ E4_TOPICS_MAX \in Nat
  BY TableParts, MaxAssumption DEF StoreType
<1>3. wpos \in Positions
  BY <1>1, <1>2 DEF Positions, LastPos
<1>4. /\ file' = [p \in Positions |-> file'[p]]
      /\ file'[wpos] = Image(wpos)
      /\ \A p \in Positions : p # wpos => file'[p] = file[p]
  BY <1>1, <1>3
<1>5. {IdPos, KeyPos, CountPos} \subseteq Positions
  BY <1>2 DEF IdPos, KeyPos, CountPos, Positions, LastPos
<1>6. ASSUME NEW i \in 0 .. E4_TOPICS_MAX - 1
      PROVE  HashPos(i) \in Positions /\ TKeyPos(i) \in Positions
  BY <1>2 DEF HashPos, TKeyPos, Positions, LastPos
<1>7. /\ file[IdPos] \in Ids \cup {Zero, Absent}
      /\ file[KeyPos] \in Keys \cup {Zero, Absent}
      /\ file[CountPos] # Absent => file[CountPos] \in 0 .. E4_TOPICS_MAX
      /\ \A i \in 0 .. E4_TOPICS_MAX - 1 :
            /\ file[HashPos(i)] \in Hashes \cup {Zero, Absent}
            /\ file[TKeyPos(i)] \in Keys \cup {Zero, Absent}
  BY DEF StoreType, WellFormed
<1>8. file'[IdPos] \in Ids \cup {Zero, Absent}
  BY <1>4, <1>5, <1>7, ImageTyped
<1>9. file'[KeyPos] \in Keys \cup {Zero, Absent}
  BY <1>4, <1>5, <1>7, ImageTyped
<1>10. file'[CountPos] # Absent => file'[CountPos] \in 0 .. E4_TOPICS_MAX
  BY <1>4, <1>5, <1>7, ImageTyped
<1>11. ASSUME NEW i \in 0 .. E4_TOPICS_MAX - 1
       PROVE  /\ file'[HashPos(i)] \in Hashes \cup {Zero, Absent}
              /\ file'[TKeyPos(i)] \in Keys \cup {Zero, Absent}
  BY <1>4, <1>6, <1>7, ImageTyped
<1> QED
  BY <1>4, <1>8, <1>9, <1>10, <1>11 DEF WellFormed

(* A sync that has been through every cell leaves the file holding the     *)
(* store.                                                                  *)
LEMMA WrittenStored ==
    ASSUME StoreType, Written, wpos > LastPos(topics.count)
    PROVE  Stored(file)
<1>1. topics.count \in 0 .. E4_TOPICS_MAX /\ E4_TOPICS_MAX \in Nat /\ topics.count \in Nat
  BY TableParts, MaxAssumption DEF StoreType
<1>2. \A p \in 1 .. LastPos(topics.count) : file[p] = Image(p)
  BY <1>1 DEF StoreType, Written, LastPos
<1>3. {MagicPos, IdPos, KeyPos, CountPos} \subseteq 1 .. LastPos(topics.count)
  BY <1>1 DEF MagicPos, IdPos, KeyPos, CountPos, LastPos
<1>4. ASSUME NEW i \in 0 .. topics.count - 1
      PROVE  /\ HashPos(i) \in 1 .. LastPos(topics.count)
             /\ TKeyPos(i) \in 1 .. LastPos(topics.count)
             /\ i \in Nat
             /\ i \in 0 .. E4_TOPICS_MAX - 1
  BY <1>1 DEF HashPos, TKeyPos, LastPos
<1>5. /\ file[MagicPos] = Magic
      /\ file[IdPos] = id
      /\ file[KeyPos] = key
      /\ file[CountPos] = topics.count
      /\ file[IdPos] # Absent /\ file[KeyPos] # Absent /\ file[CountPos] # Absent
  BY <1>2, <1>3, ImageCells, ImageTyped
<1>6. ASSUME NEW i \in 0 .. topics.count - 1
      PROVE  /\ file[HashPos(i)] = topics.slot[i].name
             /\ file[TKeyPos(i)] = topics.slot[i].key
             /\ file[HashPos(i)] # Absent
             /\ file[TKeyPos(i)] # Absent
  BY <1>2, <1>4, ImageCells, ImageTyped
<1>7. Loads(file)
  BY <1>1, <1>5, <1>6 DEF Loads
<1> QED
  BY <1>5, <1>6, <1>7 DEF Stored, LiveSlots

-----------------------------------------------------------------------------
(* Loading.                                                                *)

(* The table a load leaves is a table, with the rows of the file when the  *)
(* file loads.                                                             *)
LEMMA ReadTableTyped ==
    ASSUME NEW f, WellFormed(f), NEW t \in Table
    PROVE  /\ ReadTable(f, t) \in Table
           /\ Loads(f) => /\ f[CountPos] \in 0 .. E4_TOPICS_MAX
                          /\ ReadTable(f, t).count = f[CountPos]
                          /\ \A i \in 0 .. f[CountPos] - 1 :
                                /\ ReadTable(f, t).slot[i].name = f[HashPos(i)]
                                /\ ReadTable(f, t).slot[i].key = f[TKeyPos(i)]
<1> DEFINE u == ReadTable(f, t)
           Row(i) == [name |-> Read(f, HashPos(i), t.slot[i].name),
                      key  |-> Read(f, TKeyPos(i), t.slot[i].key)]
           New(i) == IF f[CountPos] <= E4_TOPICS_MAX /\ i < f[CountPos]
                     THEN Row(i) ELSE t.slot[i]
<1>1. /\ t.slot \in [0 .. E4_TOPICS_MAX - 1 -> Entry]
      /\ \A i \in 0 .. E4_TOPICS_MAX - 1 :
            t.slot[i].name \in Hashes \cup {Zero} /\ t.slot[i].key \in Keys \cup {Zero}
  BY TableParts
<1>2. ASSUME NEW i \in 0 .. E4_TOPICS_MAX - 1 PROVE Row(i) \in Entry
  BY <1>1 DEF WellFormed, Read, Entry
<1>3. CASE f[CountPos] = Absent
  BY <1>3 DEF ReadTable, Loads
<1>4. CASE f[CountPos] # Absent
  <2>1. f[CountPos] \in 0 .. E4_TOPICS_MAX
    BY <1>4 DEF WellFormed
  <2>2. u = [count |-> f[CountPos], slot |-> [i \in 0 .. E4_TOPICS_MAX - 1 |-> New(i)]]
    BY <1>1, <1>4 DEF ReadTable
  <2>3. \A i \in 0 .. E4_TOPICS_MAX - 1 : New(i) \in Entry
    BY <1>1, <1>2
  <2> HIDE DEF New, u
  <2>4. u \in Table
    BY <2>1, <2>2, <2>3 DEF Table
  <2>5. ASSUME Loads(f), NEW i \in 0 .. f[CountPos] - 1
        PROVE  u.slot[i].name = f[HashPos(i)] /\ u.slot[i].key = f[TKeyPos(i)]
    <3>1. i \in 0 .. E4_TOPICS_MAX - 1 /\ i < f[CountPos] /\ f[CountPos] <= E4_TOPICS_MAX
      BY <2>1, MaxAssumption
    <3>2. f[HashPos(i)] # Absent /\ f[TKeyPos(i)] # Absent
      BY <2>5 DEF Loads
    <3>3. u.slot[i] = Row(i)
      BY <2>2, <3>1 DEF New
    <3> QED
      BY <3>2, <3>3 DEF Read
  <2>6. u.count = f[CountPos]
    BY <2>2
  <2> QED
    BY <2>1, <2>4, <2>5, <2>6 DEF u
<1> QED
  BY <1>3, <1>4

(* The zeroed table is a table.                                            *)
LEMMA EmptyIsTable ==
    EmptyTable \in Table /\ UniqueNames(EmptyTable) /\ Names(EmptyTable) = {}
<1>1. EmptyTable \in Table
  BY MaxAssumption DEF EmptyTable, Table, ZeroEntry, Entry
<1>2. LiveSlots(EmptyTable) = {}
  BY DEF EmptyTable, LiveSlots
<1> QED
  BY <1>1, <1>2 DEF UniqueNames, Names

-----------------------------------------------------------------------------
(* The invariant of sync.                                                  *)

(* Any step that ends a call, and leaves well-typed fields behind, puts    *)
(* the invariant in place again.                                           *)
LEMMA ReturnInv ==
    ASSUME NEW r, Return(r), r # Pending,
           id' \in Ids \cup {Zero}, key' \in Keys \cup {Zero}, topics' \in Table,
           WellFormed(file'), restarts' \in Nat, fails' \in Nat
    PROVE  SyncInv'
<1>1. /\ wpos' = 0 /\ op' = NoCall /\ ret' = r
      /\ before' = [clean |-> FALSE, topics |-> EmptyTable]
  BY DEF Return, NoSnapshot
<1>2. topics'.count \in Nat
  BY TableParts
<1>3. wpos' \in 0 .. LastPos(topics'.count) + 1
  BY <1>1, <1>2 DEF LastPos
<1>4. StoreType'
  BY <1>1, <1>3, EmptyIsTable DEF StoreType, Idle
<1>5. Written'
  BY <1>1 DEF Written
<1>6. TableOfCall'
  BY <1>1 DEF TableOfCall, NoCall
<1>7. Unwritten'
  BY <1>1 DEF Unwritten
<1> QED
  BY <1>4, <1>5, <1>6, <1>7 DEF SyncInv

(* The start of a sync remembers the table as it was before the call.      *)
LEMMA StartSyncInv ==
    ASSUME StoreType, NEW o \in {"sync", "set_topic_key", "remove_topic", "reset_topics"},
           NEW a, StartSync(o, a), UNCHANGED <<id, key>>, topics' \in Table,
           o = "set_topic_key" =>
             /\ a \in Hashes
             /\ FirstSlot(topics, a) < E4_TOPICS_MAX
             /\ \E k \in Keys : topics' = PutAt(topics, FirstSlot(topics, a), a, k),
           o = "remove_topic" =>
             /\ FirstSlot(topics, a) < topics.count
             /\ topics' = CloseGap(topics, FirstSlot(topics, a), topics.count, ZeroEntry)
    PROVE  SyncInv'
<1>1. /\ UNCHANGED <<file, restarts>>
      /\ \/ /\ op' = o
            /\ arg' = a
            /\ wpos' = 1
            /\ ret' = Pending
            /\ before' = [clean |-> Stored(file), topics |-> topics]
            /\ UNCHANGED fails
         \/ /\ fails' = fails \/ fails' = fails + 1
            /\ Return(SyncResult(o, E4_ERROR_PERSISTENCE_ERROR))
  BY DEF StartSync
<1>2. SyncResult(o, E4_ERROR_PERSISTENCE_ERROR) # Pending
  BY DEF SyncResult, Pending, E4_RESULT_OK, E4_ERROR_PERSISTENCE_ERROR
<1>3. /\ id' \in Ids \cup {Zero} /\ key' \in Keys \cup {Zero}
      /\ WellFormed(file') /\ restarts' \in Nat
  BY <1>1 DEF StoreType
<1>4. CASE /\ fails' = fails \/ fails' = fails + 1
           /\ Return(SyncResult(o, E4_ERROR_PERSISTENCE_ERROR))
  <2>1. fails' \in Nat
    BY <1>4 DEF StoreType
  <2> QED
    BY <1>2, <1>3, <1>4, <2>1, ReturnInv
<1>5. CASE /\ op' = o
           /\ arg' = a
           /\ wpos' = 1
           /\ ret' = Pending
           /\ before' = [clean |-> Stored(file), topics |-> topics]
           /\ UNCHANGED fails
  <2>1. topics'.count \in Nat /\ topics.count \in Nat
    BY TableParts DEF StoreType
  <2>2. wpos' \in 0 .. LastPos(topics'.count) + 1
    BY <1>5, <2>1 DEF LastPos
  <2>3. StoreType'
    BY <1>3, <1>5, <2>2 DEF StoreType, Idle, NoCall
  <2>4. Written'
    BY <1>5 DEF Written
  <2>5. TableOfCall'
    BY <1>5 DEF TableOfCall
  <2>6. Unwritten'
    <3> SUFFICES ASSUME Stored(file) PROVE Unwritten'
      BY <1>5 DEF Unwritten
    <3> QED
      BY <1>1, <1>5 DEF Unwritten, Stored, Loads
  <2> QED
    BY <2>3, <2>4, <2>5, <2>6 DEF SyncInv
<1> QED
  BY <1>1, <1>4, <1>5

(* A write moves one cell from the part that is still to be written to the *)
(* part that is.                                                           *)
LEMMA WriteInv ==
    ASSUME SyncInv, WriteField
    PROVE  SyncInv'
<1>1. /\ wpos \in 1 .. LastPos(topics.count)
      /\ wpos' = wpos + 1
      /\ UNCHANGED <<id, key, topics, op, arg, ret, before, restarts, fails>>
  BY DEF WriteField, store, count
<1>2. /\ WellFormed(file')
      /\ file'[wpos] = Image(wpos)
      /\ \A p \in Positions : p # wpos => file'[p] = file[p]
  BY WriteWellFormed DEF SyncInv
<1>3. topics.count \in 0 .. E4_TOPICS_MAX /\ topics.count \in Nat /\ E4_TOPICS_MAX \in Nat
  BY TableParts, MaxAssumption DEF SyncInv, StoreType
<1>4. wpos \in Nat /\ wpos > 0 /\ wpos <= LastPos(topics.count) /\ LastPos(topics.count) \in Nat
  BY <1>1, <1>3 DEF LastPos
<1>5. wpos' \in 0 .. LastPos(topics.count) + 1 /\ wpos' # 0 /\ wpos # 0
  BY <1>1, <1>4
<1>6. StoreType'
  BY <1>1, <1>2, <1>5 DEF SyncInv, StoreType, Idle
<1>7. Written'
  <2> SUFFICES ASSUME NEW p \in 1 .. wpos PROVE file'[p] = Image(p)'
    BY <1>1, <1>4 DEF Written
  <2>1. Image(p)' = Image(p)
    BY <1>1 DEF Image
  <2>2. CASE p = wpos
    BY <1>2, <2>1, <2>2
  <2>3. CASE p # wpos
    <3>1. p \in Positions /\ p \in 1 .. wpos - 1
      BY <1>3, <1>4, <2>3 DEF Positions, LastPos
    <3> QED
      BY <1>2, <2>1, <2>3, <3>1 DEF SyncInv, Written
  <2> QED
    BY <2>2, <2>3
<1>8. TableOfCall'
  BY <1>1 DEF SyncInv, TableOfCall
<1>9. Unwritten'
  <2> SUFFICES ASSUME before.clean PROVE Unwritten'
    BY <1>1 DEF Unwritten
  <2>1. /\ file[MagicPos] = Magic
        /\ file[IdPos] = id
        /\ file[KeyPos] = key
        /\ wpos <= CountPos => file[CountPos] = before.topics.count
        /\ \A i \in LiveSlots(before.topics) :
              /\ wpos <= HashPos(i) => file[HashPos(i)] = before.topics.slot[i].name
              /\ wpos <= TKeyPos(i) => file[TKeyPos(i)] = before.topics.slot[i].key
    BY DEF SyncInv, Unwritten
  <2>2. {MagicPos, IdPos, KeyPos, CountPos} \subseteq Positions
    BY <1>3 DEF MagicPos, IdPos, KeyPos, CountPos, Positions, LastPos
  <2>3. file'[MagicPos] = Magic /\ file'[IdPos] = id /\ file'[KeyPos] = key
    BY <1>2, <2>1, <2>2, ImageCells
  <2>4. wpos + 1 <= CountPos => file'[CountPos] = before.topics.count
    <3>1. wpos + 1 <= CountPos => wpos <= CountPos /\ wpos # CountPos
      BY <1>4 DEF CountPos
    <3> QED
      BY <1>2, <2>1, <2>2, <3>1
  <2>5. ASSUME NEW i \in LiveSlots(before.topics)
        PROVE  /\ wpos + 1 <= HashPos(i) => file'[HashPos(i)] = before.topics.slot[i].name
               /\ wpos + 1 <= TKeyPos(i) => file'[TKeyPos(i)] = before.topics.slot[i].key
    <3>1. i \in Nat /\ i \in 0 .. E4_TOPICS_MAX - 1
      BY TableParts DEF SyncInv, StoreType
    <3>2. HashPos(i) \in Positions /\ TKeyPos(i) \in Positions
      BY <1>3, <3>1 DEF HashPos, TKeyPos, Positions, LastPos
    <3>3. /\ wpos + 1 <= HashPos(i) => wpos <= HashPos(i) /\ wpos # HashPos(i)
          /\ wpos + 1 <= TKeyPos(i) => wpos <= TKeyPos(i) /\ wpos # TKeyPos(i)
      BY <1>4, <3>1 DEF HashPos, TKeyPos
    <3> QED
      BY <1>2, <2>1, <3>2, <3>3
  <2> QED
    BY <1>1, <2>3, <2>4, <2>5 DEF Unwritten
<1> QED
  BY <1>6, <1>7, <1>8, <1>9 DEF SyncInv

(* The table after a call.                                                 *)
LEMMA PutIsTable ==
    ASSUME NEW t \in Table, NEW h \in Hashes, NEW k \in Keys,
           FirstSlot(t, h) < E4_TOPICS_MAX
    PROVE  LET i == FirstSlot(t, h)
               u == PutAt(t, i, h, k)
           IN  /\ i \in 0 .. t.count
               /\ u \in Table
               /\ u.count = IF i = t.count THEN t.count + 1 ELSE t.count
               /\ u.slot[i] = [name |-> h, key |-> k]
               /\ \A j \in 0 .. E4_TOPICS_MAX - 1 : j # i => u.slot[j] = t.slot[j]
               /\ UniqueNames(t) => UniqueNames(u)
<1>1. t.count \in Nat /\ t \in Tables(E4_TOPICS_MAX, Entry) /\ E4_TOPICS_MAX \in Nat
  BY TableParts, TableIsTables, MaxAssumption
<1>2. FirstSlot(t, h) \in 0 .. t.count
  BY <1>1, ScanFirst
<1>3. [name |-> h, key |-> k] \in Entry
  BY DEF Entry
<1>4. UniqueNames(t) => UniqueNames(PutAt(t, FirstSlot(t, h), h, k))
  BY <1>1, <1>3, PutCorrect
<1> QED
  BY <1>1, <1>2, <1>3, <1>4, PutTable, TableIsTables

(* The rows behind the removed one move up.                                *)
LEMMA CloseGapIsTable ==
    ASSUME NEW t \in Table, NEW h, FirstSlot(t, h) < t.count
    PROVE  LET i == FirstSlot(t, h)
               u == CloseGap(t, i, t.count, ZeroEntry)
           IN  /\ i \in LiveSlots(t)
               /\ u \in Table
               /\ u.count = t.count - 1
               /\ \A j \in LiveSlots(u) :
                     u.slot[j] = IF j < i THEN t.slot[j] ELSE t.slot[j + 1]
               /\ UniqueNames(t) => UniqueNames(u)
<1> DEFINE i == FirstSlot(t, h)
           u == CloseGap(t, i, t.count, ZeroEntry)
<1>1. /\ t.count \in Nat /\ t \in Tables(E4_TOPICS_MAX, Entry) /\ E4_TOPICS_MAX \in Nat
      /\ t.count \in 0 .. E4_TOPICS_MAX
  BY TableParts, TableIsTables, MaxAssumption
<1>2. i \in 0 .. t.count
  BY <1>1, ScanFirst
<1>3. i \in LiveSlots(t)
  BY <1>1, <1>2 DEF LiveSlots
<1>4. ZeroEntry \in Entry
  BY DEF Entry, ZeroEntry
<1> HIDE DEF i
<1>5. /\ u \in Tables(E4_TOPICS_MAX, Entry)
      /\ u.count = t.count - 1
      /\ \A j \in 0 .. E4_TOPICS_MAX - 1 :
            u.slot[j] = IF j = t.count THEN ZeroEntry
                        ELSE IF i <= j /\ j + 1 < t.count THEN t.slot[j + 1]
                        ELSE t.slot[j]
  BY <1>1, <1>3, <1>4, CloseGapTable
<1>6. UniqueNames(t) => UniqueNames(u)
  BY <1>1, <1>3, <1>4, CloseGapCorrect
<1>7. ASSUME NEW j \in LiveSlots(u)
      PROVE  u.slot[j] = IF j < i THEN t.slot[j] ELSE t.slot[j + 1]
  <2>1. j \in 0 .. t.count - 2
    BY <1>1, <1>5 DEF LiveSlots
  <2>2. j \in 0 .. E4_TOPICS_MAX - 1 /\ j # t.count /\ j + 1 < t.count
    BY <1>1, <2>1
  <2>3. i \in Nat
    BY <1>2, <1>1
  <2> QED
    BY <1>5, <2>1, <2>2, <2>3
<1> QED
  BY <1>3, <1>5, <1>6, <1>7, TableIsTables DEF i


(* The actions that begin or are a call.                                   *)
LEMMA CallInv ==
    ASSUME SyncInv,
           \/ InitStore \/ ConfigureStorage \/ Load \/ Sync
           \/ \E i \in Ids : SetId(i)
           \/ \E k \in IdKeys : SetIdKey(k)
           \/ \E h \in Hashes, k \in Keys : SetTopicKey(h, k)
           \/ \E h \in Hashes : RemoveTopic(h)
           \/ ResetTopics
    PROVE  SyncInv'
<1>0. /\ StoreType
      /\ id \in Ids \cup {Zero} /\ key \in Keys \cup {Zero} /\ topics \in Table
      /\ WellFormed(file) /\ restarts \in Nat /\ fails \in Nat
  BY DEF SyncInv, StoreType
<1>1. /\ Pending \notin {E4_RESULT_OK, TRUNCATED, E4_ERROR_PERSISTENCE_ERROR,
                         E4_ERROR_TOPICKEY_MISSING}
  BY DEF Pending, E4_RESULT_OK, TRUNCATED, E4_ERROR_PERSISTENCE_ERROR,
         E4_ERROR_TOPICKEY_MISSING
<1>2. CASE InitStore
  <2>1. /\ Return(E4_RESULT_OK)
        /\ id' = Zero /\ key' = Zero /\ topics' = EmptyTable
        /\ file' = file /\ restarts' = restarts + 1 /\ fails' = fails
    BY <1>2 DEF InitStore, ZeroStore
  <2>2. restarts' \in Nat
    BY <1>0, <2>1
  <2> QED
    BY <1>0, <1>1, <2>1, <2>2, EmptyIsTable, ReturnInv
<1>3. CASE ConfigureStorage
  BY <1>0, <1>1, <1>3, ReturnInv DEF ConfigureStorage, Answer, count
<1>4. CASE Load
  <2>1. /\ Return(IF Loads(file) THEN E4_RESULT_OK ELSE E4_ERROR_PERSISTENCE_ERROR)
        /\ UNCHANGED <<file, restarts, fails>>
    BY <1>4 DEF Load, Answer, count
  <2>2. /\ id' = id \/ id' = Read(file, IdPos, id)
        /\ key' = key \/ key' = Read(file, KeyPos, key)
        /\ topics' = topics \/ topics' = ReadTable(file, topics)
    BY <1>4 DEF Load
  <2>3. id' \in Ids \cup {Zero} /\ key' \in Keys \cup {Zero}
    BY <1>0, <2>2 DEF WellFormed, Read
  <2>4. topics' \in Table
    BY <1>0, <2>2, ReadTableTyped
  <2> QED
    BY <1>0, <1>1, <2>1, <2>3, <2>4, ReturnInv
<1>5. CASE Sync
  <2>1. UNCHANGED <<id, key, topics>> /\ StartSync("sync", Zero)
    BY <1>5 DEF Sync, store
  <2> QED
    BY <1>0, <2>1, StartSyncInv
<1>6. ASSUME NEW i \in Ids, SetId(i) PROVE SyncInv'
  BY <1>0, <1>1, <1>6, ReturnInv DEF SetId, Answer, count
<1>7. ASSUME NEW k \in IdKeys, SetIdKey(k) PROVE SyncInv'
  <2>1. k \in Keys
    BY IdKeysAssumption
  <2> QED
    BY <1>0, <1>1, <1>7, <2>1, ReturnInv DEF SetIdKey, Answer, count
<1>8. ASSUME NEW h \in Hashes, NEW k \in Keys, SetTopicKey(h, k) PROVE SyncInv'
  <2> DEFINE i == FirstSlot(topics, h)
  <2>1. i \in 0 .. topics.count /\ topics.count \in Nat
    BY <1>0, TableParts, ScanFirst
  <2>2. CASE i >= E4_TOPICS_MAX
    BY <1>0, <1>1, <1>8, <2>2, ReturnInv DEF SetTopicKey, Answer, count
  <2>3. CASE ~(i >= E4_TOPICS_MAX)
    <3>1. /\ UNCHANGED <<id, key>>
          /\ topics' = PutAt(topics, i, h, k)
          /\ StartSync("set_topic_key", h)
      BY <1>8, <2>3 DEF SetTopicKey
    <3>2. i < E4_TOPICS_MAX
      BY <2>1, <2>3, MaxAssumption
    <3>3. topics' \in Table
      BY <1>0, <3>1, <3>2, PutIsTable
    <3> QED
      BY <1>0, <3>1, <3>2, <3>3, StartSyncInv
  <2> QED
    BY <2>2, <2>3
<1>9. ASSUME NEW h \in Hashes, RemoveTopic(h) PROVE SyncInv'
  <2> DEFINE i == FirstSlot(topics, h)
  <2>1. CASE i < topics.count
    <3>1. /\ UNCHANGED <<id, key>>
          /\ topics' = CloseGap(topics, i, topics.count, ZeroEntry)
          /\ StartSync("remove_topic", h)
      BY <1>9, <2>1 DEF RemoveTopic
    <3>2. topics' \in Table
      BY <1>0, <2>1, <3>1, CloseGapIsTable
    <3> QED
      BY <1>0, <2>1, <3>1, <3>2, StartSyncInv
  <2>2. CASE ~(i < topics.count)
    BY <1>0, <1>1, <1>9, <2>2, ReturnInv DEF RemoveTopic, Answer, count
  <2> QED
    BY <2>1, <2>2
<1>10. CASE ResetTopics
  <2>1. /\ UNCHANGED <<id, key>>
        /\ topics' = [topics EXCEPT !.count = 0]
        /\ StartSync("reset_topics", Zero)
    BY <1>10 DEF ResetTopics
  <2>2. topics' \in Table
    BY <1>0, <2>1, MaxAssumption DEF Table
  <2> QED
    BY <1>0, <2>1, <2>2, StartSyncInv
<1> QED
  BY <1>2, <1>3, <1>4, <1>5, <1>6, <1>7, <1>8, <1>9, <1>10

(* A sync that fails, comes to its end or is cut off by a crash.           *)
LEMMA EndInv ==
    ASSUME SyncInv, WriteFail \/ SyncReturn \/ Crash
    PROVE  SyncInv'
<1>0. /\ id \in Ids \cup {Zero} /\ key \in Keys \cup {Zero} /\ topics \in Table
      /\ WellFormed(file) /\ restarts \in Nat /\ fails \in Nat
  BY DEF SyncInv, StoreType
<1>1. /\ SyncResult(op, E4_ERROR_PERSISTENCE_ERROR) # Pending
      /\ SyncResult(op, E4_RESULT_OK) # Pending
      /\ E4_RESULT_OK # Pending
  BY DEF SyncResult, Pending, E4_RESULT_OK, E4_ERROR_PERSISTENCE_ERROR
<1>2. CASE WriteFail
  <2>1. /\ Return(SyncResult(op, E4_ERROR_PERSISTENCE_ERROR))
        /\ UNCHANGED <<id, key, topics, file, restarts>>
        /\ fails' = fails + 1
    BY <1>2 DEF WriteFail, store
  <2>2. fails' \in Nat
    BY <1>0, <2>1
  <2> QED
    BY <1>0, <1>1, <2>1, <2>2, ReturnInv
<1>3. CASE SyncReturn
  BY <1>0, <1>1, <1>3, ReturnInv DEF SyncReturn, store, count
<1>4. CASE Crash
  <2>1. /\ Return(E4_RESULT_OK)
        /\ id' = Zero /\ key' = Zero /\ topics' = EmptyTable
        /\ file' = file /\ restarts' = restarts + 1 /\ fails' = fails
    BY <1>4 DEF Crash, ZeroStore
  <2>2. restarts' \in Nat
    BY <1>0, <2>1
  <2> QED
    BY <1>0, <1>1, <2>1, <2>2, EmptyIsTable, ReturnInv
<1> QED
  BY <1>2, <1>3, <1>4

(* A zeroed store next to the first file satisfies the invariant.          *)
LEMMA InitInv == Init => SyncInv
<1> SUFFICES ASSUME Init PROVE SyncInv
  OBVIOUS
<1>1. WellFormed(file)
  BY FilesAssumption DEF Init
<1>2. 0 \in 0 .. LastPos(EmptyTable.count) + 1
  BY DEF EmptyTable, LastPos
<1>3. StoreType
  BY <1>1, <1>2, EmptyIsTable
  DEF Init, StoreType, Idle, NoSnapshot, E4_RESULT_OK, Pending
<1>4. Written /\ TableOfCall /\ Unwritten
  BY DEF Init, Written, TableOfCall, Unwritten, NoSnapshot, NoCall
<1> QED
  BY <1>3, <1>4 DEF SyncInv

(* Every step preserves it.                                                *)
LEMMA NextInv == SyncInv /\ [Next]_vars => SyncInv'
<1> SUFFICES ASSUME SyncInv, [Next]_vars PROVE SyncInv'
  OBVIOUS
<1>1. CASE WriteField
  BY <1>1, WriteInv
<1>2. CASE WriteFail \/ SyncReturn \/ Crash
  BY <1>2, EndInv
<1>3. CASE UNCHANGED vars
  <2>1. UNCHANGED <<id, key, topics, file, op, arg, wpos, ret, before, restarts, fails>>
    BY <1>3 DEF vars, store, count
  <2>2. \A p : Image(p)' = Image(p)
    BY <2>1 DEF Image
  <2>3. Written'
    BY <2>1, <2>2 DEF SyncInv, Written
  <2> QED
    BY <2>1, <2>3 DEF SyncInv, StoreType, TableOfCall, Unwritten, Idle
<1>4. CASE \/ InitStore \/ ConfigureStorage \/ Load \/ Sync
           \/ \E i \in Ids : SetId(i)
           \/ \E k \in IdKeys : SetIdKey(k)
           \/ \E h \in Hashes, k \in Keys : SetTopicKey(h, k)
           \/ \E h \in Hashes : RemoveTopic(h)
           \/ ResetTopics
  BY <1>4, CallInv
<1> QED
  BY <1>1, <1>2, <1>3, <1>4 DEF Next

(* Types, the part of the file a sync has written and the part it has not, *)
(* and the effect of the running call on the table hold together, through  *)
(* every interleaving of calls, failed writes and programs that stop.      *)
THEOREM SymFileStoreInvariant == Spec => []SyncInv
  BY InitInv, NextInv, PTL DEF Spec

-----------------------------------------------------------------------------
(* What OK promises.                                                       *)

(* A load that returns OK leaves the store holding the file.               *)
LEMMA LoadStores ==
    ASSUME SyncInv, Load, ret' = E4_RESULT_OK
    PROVE  Stored(file)'
<1>1. Loads(file)
  BY DEF Load, Answer, Return, E4_RESULT_OK, E4_ERROR_PERSISTENCE_ERROR
<1>2. file[MagicPos] = Magic /\ file[IdPos] # Absent /\ file[KeyPos] # Absent
  BY <1>1 DEF Loads
<1>3. /\ file' = file
      /\ id' = file[IdPos]
      /\ key' = file[KeyPos]
      /\ topics' = ReadTable(file, topics)
  BY <1>2 DEF Load, Answer, Read
<1>4. /\ topics'.count = file[CountPos]
      /\ \A i \in 0 .. file[CountPos] - 1 : /\ topics'.slot[i].name = file[HashPos(i)]
                                            /\ topics'.slot[i].key = file[TKeyPos(i)]
  BY <1>1, <1>3, ReadTableTyped DEF SyncInv, StoreType
<1> QED
  BY <1>1, <1>3, <1>4 DEF Stored, Loads, LiveSlots

(* A sync returns OK at its end only.                                      *)
LEMMA SaveStores ==
    ASSUME SyncInv, [Next]_vars, Saves, ret' = E4_RESULT_OK
    PROVE  Stored(file)'
<1>1. ~Idle /\ ret = Pending /\ op # "reset_topics" /\ restarts' = restarts /\ restarts \in Nat
  BY DEF SyncInv, StoreType, Saves
<1>2. CASE SyncReturn
  <2>1. Stored(file)
    BY <1>2, WrittenStored DEF SyncReturn, SyncInv
  <2>2. UNCHANGED <<file, id, key, topics>>
    BY <1>2 DEF SyncReturn, store
  <2> QED
    BY <2>1, <2>2 DEF Stored
<1>3. ~WriteField
  BY <1>1 DEF WriteField, Pending, E4_RESULT_OK
<1>4. ~WriteFail
  BY <1>1 DEF WriteFail, Return, SyncResult, E4_RESULT_OK, E4_ERROR_PERSISTENCE_ERROR
<1>5. ~Crash
  <2>1. restarts' # restarts + 1
    BY <1>1
  <2> QED
    BY <2>1 DEF Crash
<1>6. ~UNCHANGED vars
  BY <1>1 DEF vars, Pending, E4_RESULT_OK
<1>7. /\ ~(InitStore \/ ConfigureStorage \/ Load \/ Sync \/ ResetTopics)
      /\ \A i : ~SetId(i)
      /\ \A k : ~SetIdKey(k)
      /\ \A h, k : ~SetTopicKey(h, k)
      /\ \A h : ~RemoveTopic(h)
  BY <1>1 DEF InitStore, ConfigureStorage, Load, Sync, ResetTopics, SetId, SetIdKey,
              SetTopicKey, RemoveTopic
<1> QED
  BY <1>2, <1>3, <1>4, <1>5, <1>6, <1>7 DEF Next

(* A table call, sync or load that returns OK leaves the file holding the  *)
(* store exactly, whatever was in the file before, whichever syncs failed  *)
(* or were cut off earlier, and however large the table is: nothing of a   *)
(* longer or half-written file shows through.                              *)
THEOREM SymFileStoreDurableAfterOk == Spec => DurableAfterOk
<1>1. SyncInv /\ [Next]_vars
        => [(Saves \/ Load) /\ ret' = E4_RESULT_OK => Stored(file)']_vars
  BY LoadStores, SaveStores
<1> QED
  BY <1>1, SymFileStoreInvariant, PTL DEF Spec, DurableAfterOk

-----------------------------------------------------------------------------
(* Programs that stop.                                                     *)

(* A file that a sync is part way through loads as long as its rows are    *)
(* there: the header is written or was there before.                       *)
LEMMA CleanHeader ==
    ASSUME SyncInv, ~Idle, before.clean
    PROVE  /\ file[MagicPos] = Magic
           /\ file[IdPos] # Absent
           /\ file[KeyPos] # Absent
           /\ file[CountPos] # Absent
           /\ file[CountPos] \in 0 .. E4_TOPICS_MAX
           /\ file[CountPos] = IF wpos <= CountPos THEN before.topics.count ELSE topics.count
<1>1. /\ topics.count \in 0 .. E4_TOPICS_MAX /\ before.topics.count \in 0 .. E4_TOPICS_MAX
      /\ topics.count \in Nat
  BY TableParts DEF SyncInv, StoreType
<1>2. wpos \in 0 .. LastPos(topics.count) + 1
  BY DEF SyncInv, StoreType
<1>3. wpos \in Int
  BY <1>1, <1>2 DEF LastPos
<1>4. file[MagicPos] = Magic /\ file[IdPos] = id /\ file[KeyPos] = key
  BY DEF SyncInv, Unwritten
<1>5. id # Absent /\ key # Absent
  BY AbsentAssumption DEF SyncInv, StoreType
<1>6. file[CountPos] = IF wpos <= CountPos THEN before.topics.count ELSE topics.count
  <2>1. CASE wpos <= CountPos
    BY <2>1 DEF SyncInv, Unwritten
  <2>2. CASE ~(wpos <= CountPos)
    <3>1. CountPos \in 1 .. wpos - 1
      BY <1>3, <2>2 DEF CountPos
    <3>2. file[CountPos] = Image(CountPos)
      BY <3>1 DEF SyncInv, Written
    <3> QED
      BY <2>2, <3>2, ImageCells
  <2> QED
    BY <2>1, <2>2
<1> QED
  BY <1>1, <1>4, <1>5, <1>6, AbsentAssumption

(* A cell of a row that was stored, or is stored, holds the one or the     *)
(* other: the old value until sync has passed.                             *)
LEMMA CleanRows ==
    ASSUME SyncInv, ~Idle, before.clean,
           NEW j \in 0 .. file[CountPos] - 1,
           j < before.topics.count
    PROVE  /\ j \in 0 .. E4_TOPICS_MAX - 1
           /\ \/ file[HashPos(j)] = before.topics.slot[j].name
              \/ wpos > CountPos /\ j < topics.count /\ file[HashPos(j)] = topics.slot[j].name
           /\ \/ file[TKeyPos(j)] = before.topics.slot[j].key
              \/ wpos > CountPos /\ j < topics.count /\ file[TKeyPos(j)] = topics.slot[j].key
<1>1. /\ topics.count \in 0 .. E4_TOPICS_MAX /\ before.topics.count \in 0 .. E4_TOPICS_MAX
      /\ topics.count \in Nat /\ before.topics.count \in Nat /\ E4_TOPICS_MAX \in Nat
  BY TableParts, MaxAssumption DEF SyncInv, StoreType
<1>2. wpos \in Int /\ wpos <= LastPos(topics.count) + 1
  BY <1>1 DEF SyncInv, StoreType, LastPos
<1>3. file[CountPos] \in 0 .. E4_TOPICS_MAX
  BY CleanHeader
<1>4. j \in Nat /\ j \in 0 .. E4_TOPICS_MAX - 1 /\ j \in LiveSlots(before.topics)
  BY <1>1, <1>3 DEF LiveSlots
<1>5. HashPos(j) \in Nat /\ HashPos(j) > 4 /\ TKeyPos(j) \in Nat /\ TKeyPos(j) > 4
  BY <1>4 DEF HashPos, TKeyPos
<1>6. /\ HashPos(j) <= LastPos(topics.count) => j < topics.count
      /\ TKeyPos(j) <= LastPos(topics.count) => j < topics.count
  BY <1>1, <1>4 DEF HashPos, TKeyPos, LastPos
<1>7. \/ file[HashPos(j)] = before.topics.slot[j].name
      \/ wpos > CountPos /\ j < topics.count /\ file[HashPos(j)] = topics.slot[j].name
  <2>1. CASE wpos <= HashPos(j)
    BY <1>4, <2>1 DEF SyncInv, Unwritten
  <2>2. CASE ~(wpos <= HashPos(j))
    <3>1. HashPos(j) \in 1 .. wpos - 1 /\ wpos > CountPos /\ HashPos(j) <= LastPos(topics.count)
      BY <1>1, <1>2, <1>5, <2>2 DEF CountPos, LastPos
    <3>2. file[HashPos(j)] = Image(HashPos(j))
      BY <3>1 DEF SyncInv, Written
    <3> QED
      BY <1>4, <1>6, <3>1, <3>2, ImageCells
  <2> QED
    BY <2>1, <2>2
<1>8. \/ file[TKeyPos(j)] = before.topics.slot[j].key
      \/ wpos > CountPos /\ j < topics.count /\ file[TKeyPos(j)] = topics.slot[j].key
  <2>1. CASE wpos <= TKeyPos(j)
    BY <1>4, <2>1 DEF SyncInv, Unwritten
  <2>2. CASE ~(wpos <= TKeyPos(j))
    <3>1. TKeyPos(j) \in 1 .. wpos - 1 /\ wpos > CountPos /\ TKeyPos(j) <= LastPos(topics.count)
      BY <1>1, <1>2, <1>5, <2>2 DEF CountPos, LastPos
    <3>2. file[TKeyPos(j)] = Image(TKeyPos(j))
      BY <3>1 DEF SyncInv, Written
    <3> QED
      BY <1>4, <1>6, <3>1, <3>2, ImageCells
  <2> QED
    BY <2>1, <2>2
<1> QED
  BY <1>4, <1>7, <1>8


(* What a new process makes of a file that loads.                          *)
LEMMA ReloadRows ==
    ASSUME SyncInv, Loads(file)
    PROVE  /\ Reload \in Table
           /\ Reload.count = file[CountPos]
           /\ file[CountPos] \in Nat
           /\ \A j \in 0 .. file[CountPos] - 1 : /\ Reload.slot[j].name = file[HashPos(j)]
                                                 /\ Reload.slot[j].key = file[TKeyPos(j)]
<1>1. /\ Reload \in Table
      /\ Reload.count = file[CountPos]
      /\ file[CountPos] \in 0 .. E4_TOPICS_MAX
      /\ \A j \in 0 .. file[CountPos] - 1 : /\ Reload.slot[j].name = file[HashPos(j)]
                                            /\ Reload.slot[j].key = file[TKeyPos(j)]
  BY EmptyIsTable, ReadTableTyped DEF SyncInv, StoreType, Reload
<1> QED
  BY <1>1, MaxAssumption

(* At every cell of the sync of a changed key.                             *)
LEMMA RekeySafe == SyncInv => RekeyCrashSafe
<1> SUFFICES ASSUME SyncInv, op = "set_topic_key", before.clean, arg \in Names(before.topics)
             PROVE  /\ Loads(file)
                    /\ \A h \in Hashes \ {arg} :
                          Lookup(Reload, h, Zero) = Lookup(before.topics, h, Zero)
                    /\ Lookup(Reload, arg, Zero) \in {Lookup(before.topics, arg, Zero),
                                                      Lookup(topics, arg, Zero)}
  BY DEF RekeyCrashSafe
<1> DEFINE b == before.topics
           i == FirstSlot(b, arg)
<1>1. /\ ~Idle /\ topics \in Table /\ b \in Table
      /\ arg \in Hashes /\ i < E4_TOPICS_MAX
  BY DEF SyncInv, StoreType, TableOfCall, NoCall
<1>2. b.count \in Nat /\ topics.count \in Nat /\ E4_TOPICS_MAX \in Nat
      /\ b.count <= E4_TOPICS_MAX
  BY <1>1, TableParts, MaxAssumption
<1>3. i \in LiveSlots(b) /\ b.slot[i].name = arg
  BY <1>2, ScanFirst
<1>4. PICK k \in Keys : topics = PutAt(b, i, arg, k)
  BY DEF SyncInv, TableOfCall
<1>5. /\ topics.count = IF i = b.count THEN b.count + 1 ELSE b.count
      /\ topics.slot[i] = [name |-> arg, key |-> k]
      /\ \A j \in 0 .. E4_TOPICS_MAX - 1 : j # i => topics.slot[j] = b.slot[j]
  BY <1>1, <1>4, PutIsTable
<1>6. topics.count = b.count
  BY <1>2, <1>3, <1>5 DEF LiveSlots
<1> HIDE DEF i, b
<1>7. file[CountPos] = b.count
  BY <1>1, <1>6, CleanHeader DEF b
<1>8. ASSUME NEW j \in 0 .. b.count - 1
      PROVE  /\ j \in 0 .. E4_TOPICS_MAX - 1
             /\ file[HashPos(j)] = b.slot[j].name
             /\ file[TKeyPos(j)] \in {b.slot[j].key, topics.slot[j].key}
             /\ j # i => file[TKeyPos(j)] = b.slot[j].key
             /\ topics.slot[j].name = b.slot[j].name
  <2>1. j \in 0 .. file[CountPos] - 1 /\ j < b.count
    BY <1>2, <1>7
  <2>2. /\ j \in 0 .. E4_TOPICS_MAX - 1
        /\ \/ file[HashPos(j)] = b.slot[j].name
           \/ wpos > CountPos /\ j < topics.count /\ file[HashPos(j)] = topics.slot[j].name
        /\ \/ file[TKeyPos(j)] = b.slot[j].key
           \/ wpos > CountPos /\ j < topics.count /\ file[TKeyPos(j)] = topics.slot[j].key
    BY <1>1, <2>1, CleanRows DEF b
  <2>3. topics.slot[j].name = b.slot[j].name
    BY <1>3, <1>5, <2>2
  <2> QED
    BY <1>5, <2>2, <2>3
<1>9. Loads(file)
  <2>1. /\ file[MagicPos] = Magic
        /\ file[IdPos] # Absent
        /\ file[KeyPos] # Absent
        /\ file[CountPos] # Absent
    BY <1>1, CleanHeader
  <2>2. ASSUME NEW j \in 0 .. b.count - 1
        PROVE  file[HashPos(j)] # Absent /\ file[TKeyPos(j)] # Absent
    <3>1. /\ b.slot[j].name \in Hashes \cup {Zero}
          /\ b.slot[j].key \in Keys \cup {Zero}
          /\ topics.slot[j].key \in Keys \cup {Zero}
      BY <1>1, <1>8, TableParts
    <3> QED
      BY <1>8, <3>1, AbsentAssumption
  <2> QED
    BY <1>2, <1>7, <2>1, <2>2 DEF Loads
<1>10. /\ Reload.count = b.count
       /\ \A j \in 0 .. b.count - 1 :
            /\ Reload.slot[j].name = b.slot[j].name
            /\ Reload.slot[j].key \in {b.slot[j].key, topics.slot[j].key}
            /\ j # i => Reload.slot[j].key = b.slot[j].key
  BY <1>7, <1>8, <1>9, ReloadRows
<1>11. ASSUME NEW h, h \in Names(b)
       PROVE  /\ h \in Names(Reload) /\ h \in Names(topics)
              /\ FirstSlot(Reload, h) = FirstSlot(b, h)
              /\ FirstSlot(topics, h) = FirstSlot(b, h)
              /\ FirstSlot(b, h) \in 0 .. b.count - 1
              /\ b.slot[FirstSlot(b, h)].name = h
  <2> DEFINE f == FirstSlot(b, h)
  <2>1. f \in LiveSlots(b) /\ b.slot[f].name = h
    BY <1>2, <1>11, ScanFirst
  <2>2. f \in 0 .. b.count - 1
    BY <2>1 DEF LiveSlots
  <2>3. /\ f < Reload.count /\ f < topics.count
        /\ \A j \in 0 .. f : j \in 0 .. b.count - 1
    BY <1>2, <1>6, <1>10, <2>2
  <2>4. \A j \in 0 .. f : /\ Reload.slot[j].name = b.slot[j].name
                          /\ topics.slot[j].name = b.slot[j].name
    BY <1>8, <1>10, <2>3
  <2>5. h \in Names(Reload) /\ FirstSlot(Reload, h) = f
    BY <1>2, <1>10, <1>11, <2>3, <2>4, ScanSame
  <2>6. h \in Names(topics) /\ FirstSlot(topics, h) = f
    BY <1>2, <1>11, <2>3, <2>4, ScanSame
  <2> QED
    BY <2>1, <2>2, <2>5, <2>6
<1>12. Names(Reload) \subseteq Names(b)
  BY <1>10 DEF Names, LiveSlots
<1>13. ASSUME NEW h \in Hashes \ {arg}
       PROVE  Lookup(Reload, h, Zero) = Lookup(b, h, Zero)
  <2>1. CASE h \in Names(b)
    <3>1. FirstSlot(b, h) # i
      BY <1>3, <1>11, <2>1
    <3> QED
      BY <1>10, <1>11, <2>1, <3>1 DEF Lookup
  <2>2. CASE h \notin Names(b)
    BY <1>12, <2>2 DEF Lookup
  <2> QED
    BY <2>1, <2>2
<1>14. Lookup(Reload, arg, Zero) \in {Lookup(b, arg, Zero), Lookup(topics, arg, Zero)}
  BY <1>10, <1>11 DEF Lookup, b
<1> QED
  BY <1>9, <1>13, <1>14 DEF b

(* At every cell of the sync of an added row.                              *)
LEMMA AppendConfined == SyncInv => AppendCrashConfined
<1> SUFFICES ASSUME SyncInv, op = "set_topic_key", before.clean,
                    arg \notin Names(before.topics), Loads(file),
                    NEW h \in Names(before.topics)
             PROVE  Lookup(Reload, h, Zero) = Lookup(before.topics, h, Zero)
  BY DEF AppendCrashConfined
<1> DEFINE b == before.topics
           i == FirstSlot(b, arg)
           f == FirstSlot(b, h)
<1>1. /\ ~Idle /\ topics \in Table /\ b \in Table
      /\ arg \in Hashes /\ i < E4_TOPICS_MAX
  BY DEF SyncInv, StoreType, TableOfCall, NoCall
<1>2. b.count \in Nat /\ topics.count \in Nat
  BY <1>1, TableParts
<1>3. i = b.count
  BY <1>2, ScanFirst
<1>4. PICK k \in Keys : topics = PutAt(b, i, arg, k)
  BY DEF SyncInv, TableOfCall
<1>5. /\ topics.count = b.count + 1
      /\ \A j \in 0 .. E4_TOPICS_MAX - 1 : j # i => topics.slot[j] = b.slot[j]
  <2>1. /\ topics.count = IF i = b.count THEN b.count + 1 ELSE b.count
        /\ topics.slot[i] = [name |-> arg, key |-> k]
        /\ \A j \in 0 .. E4_TOPICS_MAX - 1 : j # i => topics.slot[j] = b.slot[j]
    BY <1>1, <1>4, PutIsTable
  <2> QED
    BY <1>3, <2>1
<1>6. f \in LiveSlots(b) /\ b.slot[f].name = h
  BY <1>2, ScanFirst
<1> HIDE DEF i, b, f
<1>7. file[CountPos] \in {b.count, b.count + 1}
  BY <1>1, <1>5, CleanHeader DEF b
<1>8. /\ Reload.count = file[CountPos]
      /\ \A j \in 0 .. file[CountPos] - 1 : /\ Reload.slot[j].name = file[HashPos(j)]
                                            /\ Reload.slot[j].key = file[TKeyPos(j)]
  BY ReloadRows
<1>9. ASSUME NEW j \in 0 .. b.count - 1
      PROVE  /\ Reload.slot[j].name = b.slot[j].name
             /\ Reload.slot[j].key = b.slot[j].key
  <2>1. j \in 0 .. file[CountPos] - 1 /\ j < b.count /\ j # i
    BY <1>2, <1>3, <1>7
  <2>2. /\ j \in 0 .. E4_TOPICS_MAX - 1
        /\ \/ file[HashPos(j)] = b.slot[j].name
           \/ wpos > CountPos /\ j < topics.count /\ file[HashPos(j)] = topics.slot[j].name
        /\ \/ file[TKeyPos(j)] = b.slot[j].key
           \/ wpos > CountPos /\ j < topics.count /\ file[TKeyPos(j)] = topics.slot[j].key
    BY <1>1, <2>1, CleanRows DEF b
  <2> QED
    BY <1>5, <1>8, <2>1, <2>2
<1>10. f \in 0 .. b.count - 1 /\ f < Reload.count /\ Reload.count \in Nat
  BY <1>2, <1>6, <1>7, <1>8 DEF LiveSlots
<1>11. \A j \in 0 .. f : Reload.slot[j].name = b.slot[j].name
  BY <1>2, <1>9, <1>10
<1>12. h \in Names(Reload) /\ FirstSlot(Reload, h) = f
  BY <1>2, <1>10, <1>11, ScanSame DEF f, b
<1> QED
  BY <1>9, <1>10, <1>12 DEF Lookup, f, b

(* At every cell of the sync of a removed row.                             *)
LEMMA RemoveConfined == SyncInv => RemoveCrashConfined
<1> SUFFICES ASSUME SyncInv, op = "remove_topic", before.clean
             PROVE  /\ Loads(file)
                    /\ Names(Reload) \subseteq Names(before.topics)
                    /\ \A l \in 0 .. FirstSlot(before.topics, arg) - 1 :
                          l < Reload.count /\ Reload.slot[l] = before.topics.slot[l]
  BY DEF RemoveCrashConfined
<1> DEFINE b == before.topics
           i == FirstSlot(b, arg)
<1>1. /\ ~Idle /\ topics \in Table /\ b \in Table
      /\ i < b.count
      /\ topics = CloseGap(b, i, b.count, ZeroEntry)
  BY DEF SyncInv, StoreType, TableOfCall, NoCall
<1>2. /\ b.count \in Nat /\ topics.count \in Nat /\ E4_TOPICS_MAX \in Nat
      /\ b.count <= E4_TOPICS_MAX
  BY <1>1, TableParts, MaxAssumption
<1>3. /\ i \in LiveSlots(b)
      /\ topics.count = b.count - 1
      /\ \A j \in LiveSlots(topics) :
            topics.slot[j] = IF j < i THEN b.slot[j] ELSE b.slot[j + 1]
  BY <1>1, CloseGapIsTable
<1> HIDE DEF i, b
<1>4. /\ file[CountPos] = IF wpos <= CountPos THEN b.count ELSE topics.count
      /\ file[MagicPos] = Magic
      /\ file[IdPos] # Absent
      /\ file[KeyPos] # Absent
      /\ file[CountPos] # Absent
  BY <1>1, CleanHeader DEF b
<1>5. file[CountPos] \in {b.count, b.count - 1} /\ file[CountPos] \in Nat
  BY <1>2, <1>3, <1>4
<1>6. i \in 0 .. b.count - 1
  BY <1>3 DEF LiveSlots
<1>7. ASSUME NEW j \in 0 .. file[CountPos] - 1
      PROVE  /\ j \in 0 .. b.count - 1
             /\ j \in 0 .. E4_TOPICS_MAX - 1
             /\ \E l \in 0 .. b.count - 1 : file[HashPos(j)] = b.slot[l].name
             /\ \E l \in 0 .. b.count - 1 : file[TKeyPos(j)] = b.slot[l].key
             /\ j < i => /\ file[HashPos(j)] = b.slot[j].name
                         /\ file[TKeyPos(j)] = b.slot[j].key
  <2>1. j < b.count /\ j \in 0 .. b.count - 1
    BY <1>2, <1>5
  <2>2. /\ j \in 0 .. E4_TOPICS_MAX - 1
        /\ \/ file[HashPos(j)] = b.slot[j].name
           \/ wpos > CountPos /\ j < topics.count /\ file[HashPos(j)] = topics.slot[j].name
        /\ \/ file[TKeyPos(j)] = b.slot[j].key
           \/ wpos > CountPos /\ j < topics.count /\ file[TKeyPos(j)] = topics.slot[j].key
    BY <1>1, <2>1, CleanRows DEF b
  <2>3. j < topics.count => /\ j \in LiveSlots(topics)
                            /\ j + 1 \in 0 .. b.count - 1
    BY <1>2, <1>3, <2>1 DEF LiveSlots
  <2>4. j < topics.count => topics.slot[j] = b.slot[j] \/ topics.slot[j] = b.slot[j + 1]
    BY <1>3, <2>3
  <2>5. j < topics.count /\ j < i => topics.slot[j] = b.slot[j]
    BY <1>3, <2>3
  <2> QED
    BY <2>1, <2>2, <2>3, <2>4, <2>5
<1>8. Loads(file)
  <2>1. ASSUME NEW j \in 0 .. file[CountPos] - 1
        PROVE  file[HashPos(j)] # Absent /\ file[TKeyPos(j)] # Absent
    <3>1. \A l \in 0 .. b.count - 1 : l \in 0 .. E4_TOPICS_MAX - 1
      BY <1>2
    <3>2. \A l \in 0 .. b.count - 1 : /\ b.slot[l].name \in Hashes \cup {Zero}
                                      /\ b.slot[l].key \in Keys \cup {Zero}
      BY <1>1, <3>1, TableParts
    <3> QED
      BY <1>7, <3>2, AbsentAssumption
  <2>2. file[CountPos] <= E4_TOPICS_MAX
    BY <1>2, <1>5
  <2> QED
    BY <1>4, <2>1, <2>2 DEF Loads
<1>9. /\ Reload \in Table
      /\ Reload.count = file[CountPos]
      /\ \A j \in 0 .. file[CountPos] - 1 : /\ Reload.slot[j].name = file[HashPos(j)]
                                            /\ Reload.slot[j].key = file[TKeyPos(j)]
  BY <1>8, ReloadRows
<1>10. Names(Reload) \subseteq Names(b)
  BY <1>7, <1>9 DEF Names, LiveSlots
<1>11. ASSUME NEW l \in 0 .. i - 1
       PROVE  l < Reload.count /\ Reload.slot[l] = b.slot[l]
  <2>1. l \in 0 .. file[CountPos] - 1 /\ l < i /\ l < Reload.count
    BY <1>2, <1>5, <1>6, <1>9
  <2>2. l \in 0 .. E4_TOPICS_MAX - 1
    BY <1>7, <2>1
  <2>3. /\ Reload.slot[l] = [name |-> Reload.slot[l].name, key |-> Reload.slot[l].key]
        /\ b.slot[l] = [name |-> b.slot[l].name, key |-> b.slot[l].key]
    BY <1>1, <1>9, <2>2, TableParts
  <2>4. Reload.slot[l].name = b.slot[l].name /\ Reload.slot[l].key = b.slot[l].key
    BY <1>7, <1>9, <2>1
  <2> QED
    BY <2>1, <2>3, <2>4
<1> QED
  BY <1>8, <1>10, <1>11 DEF b, i

(* A program that stops anywhere in the sync of a set_topic_key for a      *)
(* stored topic leaves a file that loads with the old or the new key of    *)
(* that topic and the key of every other, for tables of every size, with   *)
(* or without rows that hold a topic twice.                                *)
THEOREM SymFileStoreRekeyCrashSafe == Spec => []RekeyCrashSafe
  BY SymFileStoreInvariant, RekeySafe, PTL

(* A program that stops while set_topic_key adds a topic, or remove_topic  *)
(* moves rows up, harms only the rows that are written: the topics stored  *)
(* before an addition keep their keys whenever the file loads, and the     *)
(* file of a removal loads and names no topic that was not stored.         *)
THEOREM SymFileStoreTableCrashConfined == Spec => []TableCrashConfined
  BY SymFileStoreInvariant, AppendConfined, RemoveConfined, PTL DEF TableCrashConfined

-----------------------------------------------------------------------------
(* One row per topic.                                                      *)

(* Names that are distinct in a table are distinct in one with the same    *)
(* live names.                                                             *)
LEMMA SameNamesUnique ==
    ASSUME NEW t, NEW u, UniqueNames(t), u.count = t.count,
           \A j \in LiveSlots(t) : u.slot[j].name = t.slot[j].name
    PROVE  UniqueNames(u)
  BY DEF UniqueNames, LiveSlots

(* A file that holds a store with distinct names loads with them.          *)
LEMMA StoredUnique ==
    ASSUME SyncInv, Stored(file), UniqueNames(topics)
    PROVE  Loads(file) /\ UniqueNames(Reload)
<1>1. /\ Loads(file) /\ file[CountPos] = topics.count
      /\ \A j \in LiveSlots(topics) : file[HashPos(j)] = topics.slot[j].name
  BY DEF Stored
<1>2. /\ Reload.count = topics.count
      /\ \A j \in LiveSlots(topics) : Reload.slot[j].name = topics.slot[j].name
  BY <1>1, ReloadRows DEF LiveSlots
<1> QED
  BY <1>1, <1>2, SameNamesUnique

(* Loading such a file gives the store distinct names.                     *)
LEMMA LoadUnique ==
    ASSUME SyncInv, Loads(file), UniqueNames(Reload)
    PROVE  UniqueNames(ReadTable(file, topics))
<1> DEFINE u == ReadTable(file, topics)
<1>1. /\ u.count = file[CountPos]
      /\ \A j \in 0 .. file[CountPos] - 1 : u.slot[j].name = file[HashPos(j)]
  BY ReadTableTyped DEF SyncInv, StoreType
<1>2. /\ Reload.count = file[CountPos]
      /\ \A j \in 0 .. file[CountPos] - 1 : Reload.slot[j].name = file[HashPos(j)]
  BY ReloadRows
<1> HIDE DEF u
<1>3. u.count = Reload.count /\ \A j \in LiveSlots(Reload) : u.slot[j].name = Reload.slot[j].name
  BY <1>1, <1>2 DEF LiveSlots
<1> QED
  BY <1>3, SameNamesUnique DEF u

(* The start of a sync: the file does not change, and no call has ended    *)
(* without a fault unless the store has no path.                           *)
LEMMA StartFaultless ==
    ASSUME SyncInv, Faultless, Idle, NEW o, NEW a, StartSync(o, a),
           UniqueNames(topics) => UniqueNames(topics')
    PROVE  Faultless'
<1>1. /\ UNCHANGED <<file, restarts>> /\ fails \in Nat
      /\ fails' = fails \/ fails' = fails + 1
  BY DEF StartSync, SyncInv, StoreType
<1>2. fails' = 0 => fails = 0
  BY <1>1
<1>3. Reload' = Reload /\ (Loads(file))' = Loads(file)
  BY <1>1 DEF Reload
<1> QED
  BY <1>1, <1>2, <1>3 DEF Faultless

(* Every step keeps names distinct, in the table and in the file.          *)
LEMMA NextFaultless == SyncInv /\ Faultless /\ [Next]_vars => Faultless'
<1> SUFFICES ASSUME SyncInv, Faultless, [Next]_vars PROVE Faultless'
  OBVIOUS
<1>0. topics \in Table /\ restarts \in Nat /\ fails \in Nat
  BY DEF SyncInv, StoreType
<1>1. ASSUME UNCHANGED <<file, topics, restarts, fails>>, Idle' => Idle PROVE Faultless'
  <2>1. Reload' = Reload /\ (Loads(file))' = Loads(file) /\ UniqueNames(topics)' = UniqueNames(topics)
    BY <1>1 DEF Reload
  <2> QED
    BY <1>1, <2>1 DEF Faultless
<1>2. CASE InitStore \/ Crash
  <2>1. restarts' = restarts + 1
    BY <1>2 DEF InitStore, Crash
  <2>2. restarts' # 0
    BY <1>0, <2>1
  <2> QED
    BY <2>2 DEF Faultless
<1>3. CASE WriteFail
  <2>1. fails' = fails + 1
    BY <1>3 DEF WriteFail
  <2>2. fails' # 0
    BY <1>0, <2>1
  <2> QED
    BY <2>2 DEF Faultless
<1>4. CASE WriteField
  <2>1. UNCHANGED <<topics, restarts, fails>> /\ wpos' = wpos + 1 /\ wpos \in 1 .. LastPos(topics.count)
    BY <1>4 DEF WriteField, store, count
  <2>2. wpos' # 0
    BY <2>1
  <2> QED
    BY <2>1, <2>2 DEF Faultless, Idle
<1>5. CASE SyncReturn
  <2>1. UNCHANGED <<file, topics, restarts, fails>>
    BY <1>5 DEF SyncReturn, store, count
  <2>2. Stored(file)
    BY <1>5, WrittenStored DEF SyncReturn, SyncInv
  <2>3. Reload' = Reload /\ (Loads(file))' = Loads(file) /\ UniqueNames(topics)' = UniqueNames(topics)
    BY <2>1 DEF Reload
  <2>4. UniqueNames(topics) => Loads(file) /\ UniqueNames(Reload)
    BY <2>2, StoredUnique
  <2> QED
    BY <2>1, <2>3, <2>4 DEF Faultless
<1>6. CASE Load
  <2>1. UNCHANGED <<file, restarts, fails>> /\ Idle
    BY <1>6 DEF Load, Answer, count
  <2>2. Reload' = Reload /\ (Loads(file))' = Loads(file)
    BY <2>1 DEF Reload
  <2>3. CASE file[MagicPos] = Magic
    <3>1. topics' = ReadTable(file, topics)
      BY <1>6, <2>3 DEF Load
    <3>2. restarts = 0 /\ fails = 0 => Loads(file) /\ UniqueNames(Reload)
      BY <2>1, <2>3 DEF Faultless
    <3>3. restarts = 0 /\ fails = 0 => UniqueNames(topics')
      BY <3>1, <3>2, LoadUnique
    <3> QED
      BY <2>1, <2>2, <3>2, <3>3 DEF Faultless
  <2>4. CASE file[MagicPos] # Magic
    <3>1. topics' = topics
      BY <1>6, <2>4 DEF Load
    <3> QED
      BY <1>1, <2>1, <3>1
  <2> QED
    BY <2>3, <2>4
<1>7. CASE ConfigureStorage \/ (\E i \in Ids : SetId(i)) \/ (\E k \in IdKeys : SetIdKey(k))
  <2>1. UNCHANGED <<file, topics, restarts, fails>> /\ Idle
    BY <1>7 DEF ConfigureStorage, SetId, SetIdKey, Answer, count
  <2> QED
    BY <1>1, <2>1
<1>8. CASE Sync
  <2>1. UNCHANGED topics /\ StartSync("sync", Zero) /\ Idle
    BY <1>8 DEF Sync, store
  <2> QED
    BY <2>1, StartFaultless
<1>9. ASSUME NEW h \in Hashes, NEW k \in Keys, SetTopicKey(h, k) PROVE Faultless'
  <2> DEFINE i == FirstSlot(topics, h)
  <2>1. i \in 0 .. topics.count /\ topics.count \in Nat
    BY <1>0, TableParts, ScanFirst
  <2>2. CASE i >= E4_TOPICS_MAX
    <3>1. UNCHANGED <<file, topics, restarts, fails>> /\ Idle
      BY <1>9, <2>2 DEF SetTopicKey, Answer, count
    <3> QED
      BY <1>1, <3>1
  <2>3. CASE ~(i >= E4_TOPICS_MAX)
    <3>1. topics' = PutAt(topics, i, h, k) /\ StartSync("set_topic_key", h) /\ Idle
      BY <1>9, <2>3 DEF SetTopicKey
    <3>2. i < E4_TOPICS_MAX
      BY <2>1, <2>3, MaxAssumption
    <3>3. UniqueNames(topics) => UniqueNames(topics')
      BY <1>0, <3>1, <3>2, PutIsTable
    <3> QED
      BY <3>1, <3>3, StartFaultless
  <2> QED
    BY <2>2, <2>3
<1>10. ASSUME NEW h \in Hashes, RemoveTopic(h) PROVE Faultless'
  <2> DEFINE i == FirstSlot(topics, h)
  <2>1. CASE i < topics.count
    <3>1. /\ topics' = CloseGap(topics, i, topics.count, ZeroEntry)
          /\ StartSync("remove_topic", h) /\ Idle
      BY <1>10, <2>1 DEF RemoveTopic
    <3>2. UniqueNames(topics) => UniqueNames(topics')
      BY <1>0, <2>1, <3>1, CloseGapIsTable
    <3> QED
      BY <3>1, <3>2, StartFaultless
  <2>2. CASE ~(i < topics.count)
    <3>1. UNCHANGED <<file, topics, restarts, fails>> /\ Idle
      BY <1>10, <2>2 DEF RemoveTopic, Answer, count
    <3> QED
      BY <1>1, <3>1
  <2> QED
    BY <2>1, <2>2
<1>11. CASE ResetTopics
  <2>1. topics' = [topics EXCEPT !.count = 0] /\ StartSync("reset_topics", Zero) /\ Idle
    BY <1>11 DEF ResetTopics
  <2>2. topics'.count = 0
    BY <1>0, <2>1 DEF Table
  <2>3. UniqueNames(topics')
    BY <2>2 DEF UniqueNames, LiveSlots
  <2> QED
    BY <2>1, <2>3, StartFaultless
<1>12. CASE UNCHANGED vars
  BY <1>1, <1>12 DEF vars, store, count, Idle
<1> QED
  BY <1>2, <1>3, <1>4, <1>5, <1>6, <1>7, <1>8, <1>9, <1>10, <1>11, <1>12 DEF Next

(* As long as no write failed and no program stopped, set_topic_key,       *)
(* remove_topic, sync and load in any order, on a full table too, leave no *)
(* topic with two rows; the file is part of the argument, since a load     *)
(* takes its rows over without looking at them.                            *)
THEOREM SymFileStoreUniqueWithoutFaults == Spec => []UniqueWithoutFaults
<1>1. Init => Faultless
  <2>1. Init => UniqueNames(topics) /\ Reload = ReadTable(file, EmptyTable)
    BY EmptyIsTable DEF Init, Reload
  <2> QED
    BY <2>1, FilesAssumption DEF Init, Faultless
<1>2. Faultless => UniqueWithoutFaults
  BY DEF Faultless, UniqueWithoutFaults
<1> QED
  BY <1>1, <1>2, NextFaultless, SymFileStoreInvariant, PTL DEF Spec

-----------------------------------------------------------------------------
(* The client on its file, with programs that stop at any cell of a sync:  *)
(* whatever it comes back with, an id key or a topic key, is the C2's.     *)

(* The topic keys the C2 has sent.                                         *)
SentKeys == {k \in Keys : \E m \in net : m.body.cmd = "SetTopicKey" /\ m.body.key = k}

(* What the C2 sends: commands about topics, and rotations to keys it has  *)
(* used since.                                                             *)
C2Bodies == TopicCommands \cup {Cl!Body("SetIdKey", Zero, k) : k \in issued}

(* From every key the C2 has left behind, a message leads on.              *)
C2Inv ==
    /\ issued \subseteq IdKeys
    /\ {FirstIdKey, c2key} \subseteq issued
    /\ \A m \in net : m.body \in C2Bodies
    /\ \A j \in issued \ {c2key} : \E k \in issued : Rotation(j, k) \in net

(* Every key cell of the file, whether a sync is through with it or not,   *)
(* holds a key of the C2 or none.                                          *)
FileInv ==
    /\ file[KeyPos] \in issued \cup {Absent}
    /\ \A i \in 0 .. E4_TOPICS_MAX - 1 : file[TKeyPos(i)] \in SentKeys \cup {Absent}

(* So does the store of a program that is up; only such a program syncs.   *)
StoreInv ==
    /\ ~Idle => running
    /\ running => /\ key \in issued
                  /\ \A i \in LiveSlots(topics) : topics.slot[i].key \in SentKeys

SysInv == SyncInv /\ C2Inv /\ FileInv /\ StoreInv

-----------------------------------------------------------------------------
(* Messages.                                                               *)

(* The arguments of a command the C2 has sent.                             *)
LEMMA BodyKinds ==
    ASSUME C2Inv, NEW b \in C2Bodies
    PROVE  /\ b.cmd = "SetIdKey" => b.key \in issued /\ b.key \in IdKeys
           /\ b.cmd = "SetTopicKey" => b.hash \in Hashes /\ b.key \in Keys
           /\ b.cmd = "RemoveTopic" => b.hash \in Hashes
<1>1. \/ \E t \in Topics, k \in Keys : b = Cl!Body("SetTopicKey", TopicHash(t), k)
      \/ \E t \in Topics : b = Cl!Body("RemoveTopic", TopicHash(t), Zero)
      \/ b = Cl!Body("ResetTopics", Zero, Zero)
      \/ \E k \in issued : b = Cl!Body("SetIdKey", Zero, k)
  BY DEF C2Bodies, TopicCommands
<1>2. \A t \in Topics : TopicHash(t) \in Hashes
  BY DEF Hashes
<1>3. issued \subseteq IdKeys
  BY DEF C2Inv
<1>4. ASSUME NEW t \in Topics, NEW k \in Keys, b = Cl!Body("SetTopicKey", TopicHash(t), k)
      PROVE  b.cmd = "SetTopicKey" /\ b.hash = TopicHash(t) /\ b.key = k
  BY <1>4 DEF Cl!Body
<1>5. ASSUME NEW t \in Topics, b = Cl!Body("RemoveTopic", TopicHash(t), Zero)
      PROVE  b.cmd = "RemoveTopic" /\ b.hash = TopicHash(t)
  BY <1>5 DEF Cl!Body
<1>6. ASSUME b = Cl!Body("ResetTopics", Zero, Zero) PROVE b.cmd = "ResetTopics"
  BY <1>6 DEF Cl!Body
<1>7. ASSUME NEW k \in issued, b = Cl!Body("SetIdKey", Zero, k)
      PROVE  b.cmd = "SetIdKey" /\ b.key = k
  BY <1>7 DEF Cl!Body
<1> QED
  BY <1>1, <1>2, <1>3, <1>4, <1>5, <1>6, <1>7

(* A message that is carried out is a call of the store.                   *)
LEMMA DeliverIsNext ==
    ASSUME C2Inv, NEW m \in net, Deliver(m)
    PROVE  /\ Next
           /\ UNCHANGED <<env, running>> /\ running /\ Idle
           /\ \/ m.body.cmd = "SetIdKey" /\ m.body.key \in issued /\ SetIdKey(m.body.key)
              \/ /\ m.body.cmd = "SetTopicKey" /\ m.body.hash \in Hashes /\ m.body.key \in Keys
                 /\ SetTopicKey(m.body.hash, m.body.key)
              \/ m.body.cmd = "RemoveTopic" /\ RemoveTopic(m.body.hash)
              \/ ResetTopics
<1>1. m.body \in C2Bodies
  BY DEF C2Inv
<1>2. /\ m.body.cmd = "SetIdKey" => m.body.key \in issued /\ m.body.key \in IdKeys
      /\ m.body.cmd = "SetTopicKey" => m.body.hash \in Hashes /\ m.body.key \in Keys
      /\ m.body.cmd = "RemoveTopic" => m.body.hash \in Hashes
  BY <1>1, BodyKinds
<1>3. Execute(m.body) /\ running /\ UNCHANGED <<env, running>>
  BY DEF Deliver
<1>4. CASE m.body.cmd = "SetIdKey" /\ SetIdKey(m.body.key)
  BY <1>2, <1>3, <1>4 DEF Next, SetIdKey
<1>5. CASE m.body.cmd = "SetTopicKey" /\ SetTopicKey(m.body.hash, m.body.key)
  BY <1>2, <1>3, <1>5 DEF Next, SetTopicKey
<1>6. CASE m.body.cmd = "RemoveTopic" /\ RemoveTopic(m.body.hash)
  BY <1>2, <1>3, <1>6 DEF Next, RemoveTopic
<1>7. CASE ResetTopics
  BY <1>3, <1>7 DEF Next, ResetTopics
<1> QED
  BY <1>3, <1>4, <1>5, <1>6, <1>7 DEF Execute

-----------------------------------------------------------------------------
(* The invariant of the store holds in the system as well.                 *)

(* The file the client is delivered with.                                  *)
LEMMA SysInitSync == SysInit => SyncInv
<1> SUFFICES ASSUME SysInit PROVE SyncInv
  OBVIOUS
<1>1. /\ id \in Ids \cup {Zero} /\ key \in Keys \cup {Zero} /\ topics \in Table
      /\ topics.count = 0
  BY SystemAssumption, IdKeysAssumption, EmptyIsTable DEF SysInit, EmptyTable
<1>2. E4_TOPICS_MAX \in Nat /\ E4_TOPICS_MAX >= 1
  BY MaxAssumption
<1>3. /\ {IdPos, KeyPos, CountPos} \subseteq Positions
      /\ \A p \in {IdPos, KeyPos, CountPos} : p <= LastPos(0)
  BY <1>2 DEF IdPos, KeyPos, CountPos, Positions, LastPos
<1>4. ASSUME NEW i \in 0 .. E4_TOPICS_MAX - 1
      PROVE  /\ HashPos(i) \in Positions /\ ~(HashPos(i) <= LastPos(0))
             /\ TKeyPos(i) \in Positions /\ ~(TKeyPos(i) <= LastPos(0))
  BY <1>2 DEF HashPos, TKeyPos, Positions, LastPos
<1>5. /\ file[IdPos] = id /\ file[KeyPos] = key /\ file[CountPos] = topics.count
      /\ \A i \in 0 .. E4_TOPICS_MAX - 1 : file[HashPos(i)] = Absent /\ file[TKeyPos(i)] = Absent
  BY <1>3, <1>4, ImageCells DEF SysInit
<1>6. WellFormed(file)
  <2>1. file = [p \in Positions |-> file[p]]
    BY DEF SysInit
  <2>2. file[CountPos] \in 0 .. E4_TOPICS_MAX
    BY <1>1, <1>2, <1>5
  <2> QED
    BY <1>1, <1>5, <2>1, <2>2 DEF WellFormed
<1>7. wpos \in 0 .. LastPos(topics.count) + 1
  BY <1>1 DEF SysInit, LastPos
<1>8. StoreType
  BY <1>1, <1>6, <1>7, EmptyIsTable
  DEF SysInit, StoreType, Idle, NoSnapshot, E4_RESULT_OK, Pending
<1>9. Written /\ TableOfCall /\ Unwritten
  BY DEF SysInit, Written, TableOfCall, Unwritten, NoSnapshot, NoCall
<1> QED
  BY <1>8, <1>9 DEF SyncInv

(* Provisioning leaves no sync behind.                                     *)
LEMMA ProvisionSync ==
    ASSUME SyncInv, Provision
    PROVE  SyncInv'
<1>1. /\ id' = Client /\ key' = FirstIdKey /\ topics' = EmptyTable
      /\ Return(E4_RESULT_OK) /\ UNCHANGED <<file, restarts, fails>>
  BY DEF Provision, Answer, count
<1>2. /\ id' \in Ids \cup {Zero} /\ key' \in Keys \cup {Zero} /\ topics' \in Table
  BY <1>1, SystemAssumption, IdKeysAssumption, EmptyIsTable
<1>3. WellFormed(file') /\ restarts' \in Nat /\ fails' \in Nat
  BY <1>1 DEF SyncInv, StoreType
<1>4. E4_RESULT_OK # Pending
  BY DEF E4_RESULT_OK, Pending
<1> QED
  BY <1>1, <1>2, <1>3, <1>4, ReturnInv

(* Every step of the system is a step of the store, provisioning aside.    *)
LEMMA SysNextSync == SyncInv /\ C2Inv /\ [SysNext]_svars => SyncInv'
<1> SUFFICES ASSUME SyncInv, C2Inv, [SysNext]_svars PROVE SyncInv'
  OBVIOUS
<1>1. CASE Provision
  BY <1>1, ProvisionSync
<1>2. CASE UNCHANGED vars
  BY <1>2, NextInv
<1>3. CASE Next
  BY <1>3, NextInv
<1>4. ASSUME NEW m \in net, Deliver(m) PROVE Next
  BY <1>4, DeliverIsNext
<1>5. \A b \in TopicCommands : C2Topic(b) => UNCHANGED vars
  BY DEF C2Topic
<1>6. \A k \in IdKeys : C2Rotate(k) => UNCHANGED vars
  BY DEF C2Rotate
<1>7. SyncStep \/ SyncFail \/ Stop \/ Start => Next
  BY DEF SyncStep, SyncFail, Stop, Start, Next
<1>8. UNCHANGED svars => UNCHANGED vars
  BY DEF svars
<1> QED
  BY <1>1, <1>2, <1>3, <1>4, <1>5, <1>6, <1>7, <1>8 DEF SysNext

-----------------------------------------------------------------------------
(* The keys.                                                               *)

(* The C2 keeps its keys linked.                                           *)
LEMMA C2Preserved == C2Inv /\ [SysNext]_svars => C2Inv'
<1> SUFFICES ASSUME C2Inv, [SysNext]_svars PROVE C2Inv'
  OBVIOUS
<1>1. CASE UNCHANGED env
  BY <1>1 DEF env, C2Inv, C2Bodies
<1>2. ASSUME NEW b \in TopicCommands, C2Topic(b) PROVE C2Inv'
  <2>1. /\ UNCHANGED <<c2key, issued>>
        /\ net' = net \cup {Cl!Msg(Cl!ctrl, c2key, b, 0)}
    BY <1>2 DEF C2Topic, Send
  <2>2. Cl!Msg(Cl!ctrl, c2key, b, 0).body = b
    BY DEF Cl!Msg
  <2>3. \A m \in net' : m.body \in C2Bodies
    BY <2>1, <2>2 DEF C2Inv, C2Bodies
  <2> QED
    BY <2>1, <2>3 DEF C2Inv, C2Bodies
<1>3. ASSUME NEW k \in IdKeys, C2Rotate(k) PROVE C2Inv'
  <2>1. /\ c2key' = k /\ issued' = issued \cup {k}
        /\ net' = net \cup {Rotation(c2key, k)}
    BY <1>3 DEF C2Rotate, Send
  <2>2. Rotation(c2key, k).body = Cl!Body("SetIdKey", Zero, k)
    BY DEF Rotation, Cl!Msg
  <2>3. Cl!Body("SetIdKey", Zero, k) \in C2Bodies'
    BY <2>1 DEF C2Bodies
  <2>4. C2Bodies \subseteq C2Bodies'
    BY <2>1 DEF C2Bodies
  <2>5. \A m \in net' : m.body \in C2Bodies'
    BY <2>1, <2>2, <2>3, <2>4 DEF C2Inv
  <2>6. \A j \in issued' \ {c2key'} : \E l \in issued' : Rotation(j, l) \in net'
    BY <2>1 DEF C2Inv
  <2>7. issued' \subseteq IdKeys /\ {FirstIdKey, c2key'} \subseteq issued'
    BY <2>1 DEF C2Inv
  <2> QED
    BY <2>5, <2>6, <2>7 DEF C2Inv, Rotation
<1> QED
  BY <1>1, <1>2, <1>3
  DEF SysNext, svars, Deliver, SyncStep, SyncFail, Stop, Start, Provision

(* What the C2 has sent stays sent.                                        *)
LEMMA Grows ==
    ASSUME [SysNext]_svars
    PROVE  issued \subseteq issued' /\ SentKeys \subseteq SentKeys'
<1>1. issued \subseteq issued' /\ net \subseteq net'
  BY DEF SysNext, svars, env, C2Topic, C2Rotate, Send, Deliver, SyncStep, SyncFail, Stop,
         Start, Provision
<1> QED
  BY <1>1 DEF SentKeys

(* A step that leaves the file alone leaves its keys the C2's.             *)
LEMMA FileStays ==
    ASSUME FileInv, [SysNext]_svars, UNCHANGED file
    PROVE  FileInv'
  BY Grows DEF FileInv

(* Only sync writes the file, and it writes what a store that is up holds. *)
LEMMA FilePreserved == SysInv /\ [SysNext]_svars => FileInv'
<1> SUFFICES ASSUME SysInv, [SysNext]_svars PROVE FileInv'
  OBVIOUS
<1>1. CASE UNCHANGED file
  BY <1>1, FileStays DEF SysInv
<1>2. CASE WriteField
  <2>1. /\ wpos \in 1 .. LastPos(topics.count) /\ StoreType
    BY <1>2 DEF WriteField, SysInv, SyncInv
  <2>2. running
    BY <2>1 DEF SysInv, StoreInv, Idle
  <2>3. /\ topics.count \in Nat /\ E4_TOPICS_MAX \in Nat /\ topics.count <= E4_TOPICS_MAX
    BY <2>1, TableParts, MaxAssumption DEF StoreType
  <2>4. /\ file'[wpos] = Image(wpos)
        /\ \A p \in Positions : p # wpos => file'[p] = file[p]
    BY <1>2, <2>1, WriteWellFormed
  <2>5. KeyPos \in Positions
    BY <2>3 DEF KeyPos, Positions, LastPos
  <2>6. file'[KeyPos] \in issued \cup {Absent}
    BY <2>2, <2>4, <2>5, ImageCells DEF SysInv, StoreInv, FileInv
  <2>7. ASSUME NEW i \in 0 .. E4_TOPICS_MAX - 1
        PROVE  file'[TKeyPos(i)] \in SentKeys \cup {Absent}
    <3>1. TKeyPos(i) \in Positions /\ i \in Nat
      BY <2>3 DEF TKeyPos, Positions, LastPos
    <3>2. CASE wpos = TKeyPos(i)
      <4>1. i \in LiveSlots(topics)
        BY <2>1, <2>3, <3>1, <3>2 DEF TKeyPos, LastPos, LiveSlots
      <4>2. file'[TKeyPos(i)] = topics.slot[i].key
        BY <2>4, <3>1, <3>2, ImageCells
      <4> QED
        BY <2>2, <4>1, <4>2 DEF SysInv, StoreInv
    <3>3. CASE wpos # TKeyPos(i)
      BY <2>4, <3>1, <3>3 DEF SysInv, FileInv
    <3> QED
      BY <3>2, <3>3
  <2> QED
    BY <2>6, <2>7, Grows DEF FileInv
<1>3. ASSUME NEW m \in net, Deliver(m) PROVE UNCHANGED file
  <2>1. \A o, a : StartSync(o, a) => UNCHANGED file
    BY DEF StartSync
  <2> QED
    BY <1>3, <2>1
    DEF Deliver, Execute, SetIdKey, SetTopicKey, RemoveTopic, ResetTopics, Answer
<1>4. UNCHANGED vars => UNCHANGED file
  BY DEF vars
<1>5. SyncStep => WriteField \/ UNCHANGED file
  BY DEF SyncStep, SyncReturn
<1>6. SyncFail \/ Stop \/ Start \/ Provision => UNCHANGED file
  BY DEF SyncFail, WriteFail, Stop, InitStore, Crash, Start, Load, Provision, Answer
<1> QED
  BY <1>1, <1>2, <1>3, <1>4, <1>5, <1>6 DEF SysNext, svars, C2Topic, C2Rotate

(* The table of a program that is up, after a call.                        *)
LEMMA TableKeysSent ==
    ASSUME SysInv, running, [SysNext]_svars,
           NEW m \in net, Deliver(m)
    PROVE  \A i \in LiveSlots(topics') : topics'.slot[i].key \in SentKeys
<1>1. /\ topics \in Table
      /\ \A i \in LiveSlots(topics) : topics.slot[i].key \in SentKeys
  BY DEF SysInv, SyncInv, StoreType, StoreInv
<1>2. topics.count \in Nat /\ E4_TOPICS_MAX \in Nat /\ topics.count <= E4_TOPICS_MAX
  BY <1>1, TableParts, MaxAssumption
<1>3. CASE topics' = topics
  BY <1>1, <1>3
<1>4. CASE ResetTopics
  <2>1. topics' = [topics EXCEPT !.count = 0]
    BY <1>4 DEF ResetTopics
  <2>2. topics'.count = 0
    BY <1>1, <2>1 DEF Table
  <2>3. LiveSlots(topics') = {}
    BY <2>2 DEF LiveSlots
  <2> QED
    BY <2>3
<1>5. CASE RemoveTopic(m.body.hash) /\ topics' # topics
  <2> DEFINE h == m.body.hash
             i == FirstSlot(topics, h)
  <2>1. /\ i < topics.count
        /\ topics' = CloseGap(topics, i, topics.count, ZeroEntry)
    BY <1>5 DEF RemoveTopic
  <2>2. /\ topics'.count = topics.count - 1
        /\ \A j \in LiveSlots(topics') :
              topics'.slot[j] = IF j < i THEN topics.slot[j] ELSE topics.slot[j + 1]
    BY <1>1, <2>1, CloseGapIsTable
  <2>3. \A j \in LiveSlots(topics') : j \in LiveSlots(topics) /\ j + 1 \in LiveSlots(topics)
    BY <1>2, <2>2 DEF LiveSlots
  <2> QED
    BY <1>1, <2>2, <2>3
<1>6. CASE /\ m.body.cmd = "SetTopicKey" /\ m.body.hash \in Hashes /\ m.body.key \in Keys
           /\ SetTopicKey(m.body.hash, m.body.key)
           /\ topics' # topics
  <2> DEFINE h == m.body.hash
             k == m.body.key
             i == FirstSlot(topics, h)
  <2>1. ~(i >= E4_TOPICS_MAX) /\ topics' = PutAt(topics, i, h, k)
    BY <1>6 DEF SetTopicKey
  <2>2. i \in 0 .. topics.count
    BY <1>2, ScanFirst
  <2>3. i < E4_TOPICS_MAX
    BY <1>2, <2>1, <2>2
  <2>4. /\ topics'.count = IF i = topics.count THEN topics.count + 1 ELSE topics.count
        /\ topics'.slot[i] = [name |-> h, key |-> k]
        /\ \A j \in 0 .. E4_TOPICS_MAX - 1 : j # i => topics'.slot[j] = topics.slot[j]
    BY <1>1, <1>6, <2>1, <2>3, PutIsTable
  <2>5. k \in SentKeys
    BY <1>6 DEF SentKeys
  <2> HIDE DEF i
  <2>6. \A j \in LiveSlots(topics') :
           j # i => j \in LiveSlots(topics) /\ j \in 0 .. E4_TOPICS_MAX - 1
    BY <1>2, <2>2, <2>4 DEF LiveSlots
  <2> QED
    BY <1>1, <2>4, <2>5, <2>6
<1>7. SetIdKey(m.body.key) => topics' = topics
  BY DEF SetIdKey
<1> QED
  BY <1>3, <1>4, <1>5, <1>6, <1>7, DeliverIsNext DEF SysInv

(* The table of a program that comes up.                                   *)
LEMMA LoadedKeysSent ==
    ASSUME SysInv, Load, Loads(file)
    PROVE  /\ key' \in issued
           /\ \A i \in LiveSlots(topics') : topics'.slot[i].key \in SentKeys
<1>1. /\ file[MagicPos] = Magic /\ file[KeyPos] # Absent
      /\ \A i \in 0 .. file[CountPos] - 1 : file[TKeyPos(i)] # Absent
  BY DEF Loads
<1>2. key' = file[KeyPos] /\ topics' = ReadTable(file, topics)
  BY <1>1 DEF Load, Read
<1>3. /\ file[CountPos] \in 0 .. E4_TOPICS_MAX
      /\ topics'.count = file[CountPos]
      /\ \A i \in 0 .. file[CountPos] - 1 : topics'.slot[i].key = file[TKeyPos(i)]
  BY <1>2, ReadTableTyped DEF SysInv, SyncInv, StoreType
<1>4. LiveSlots(topics') = 0 .. file[CountPos] - 1
      /\ LiveSlots(topics') \subseteq 0 .. E4_TOPICS_MAX - 1
  BY <1>3, MaxAssumption DEF LiveSlots
<1> QED
  BY <1>1, <1>2, <1>3, <1>4 DEF SysInv, FileInv

(* Commands, loads and provisioning put the C2's keys into the store.      *)
LEMMA StorePreserved == SysInv /\ [SysNext]_svars => StoreInv'
<1> SUFFICES ASSUME SysInv, [SysNext]_svars PROVE StoreInv'
  OBVIOUS
<1>1. issued \subseteq issued' /\ SentKeys \subseteq SentKeys'
  BY Grows
<1>2. CASE UNCHANGED <<running, key, topics>> /\ (Idle => Idle')
  BY <1>1, <1>2 DEF SysInv, StoreInv, LiveSlots
<1>3. ASSUME NEW m \in net, Deliver(m) PROVE StoreInv'
  <2>1. running /\ running' /\ issued' = issued
    BY <1>3, DeliverIsNext DEF SysInv, env
  <2>2. \A i \in LiveSlots(topics') : topics'.slot[i].key \in SentKeys
    BY <1>3, <2>1, TableKeysSent
  <2>3. key' = key \/ key' \in issued
    BY <1>3, DeliverIsNext DEF SysInv, SetIdKey, SetTopicKey, RemoveTopic, ResetTopics
  <2>4. key' \in issued
    BY <2>1, <2>3 DEF SysInv, StoreInv
  <2> QED
    BY <1>1, <2>1, <2>2, <2>4 DEF StoreInv
<1>4. CASE Stop
  <2>1. ~running' /\ wpos' = 0
    BY <1>4 DEF Stop, InitStore, Crash, Return
  <2> QED
    BY <2>1 DEF StoreInv, Idle
<1>5. CASE Start
  <2>1. running' = Loads(file) /\ wpos' = 0 /\ Load
    BY <1>5 DEF Start, Load, Answer, Return
  <2> QED
    BY <1>1, <2>1, LoadedKeysSent DEF StoreInv, Idle
<1>6. CASE Provision
  <2>1. wpos' = 0 /\ key' = FirstIdKey /\ topics' = EmptyTable
    BY <1>6 DEF Provision, Answer, Return
  <2>2. LiveSlots(topics') = {}
    BY <2>1 DEF LiveSlots, EmptyTable
  <2>3. FirstIdKey \in issued
    BY DEF SysInv, C2Inv
  <2> QED
    BY <1>1, <2>1, <2>2, <2>3 DEF StoreInv, Idle
<1>7. SyncStep \/ SyncFail => UNCHANGED <<running, key, topics>> /\ (Idle => Idle')
  BY DEF SyncStep, WriteField, SyncReturn, SyncFail, WriteFail, store, Idle, Return
<1>8. UNCHANGED vars /\ UNCHANGED running => UNCHANGED <<running, key, topics>> /\ (Idle => Idle')
  BY DEF vars, store, Idle
<1> QED
  BY <1>2, <1>3, <1>4, <1>5, <1>6, <1>7, <1>8 DEF SysNext, svars, C2Topic, C2Rotate

(* The client as it is delivered.                                          *)
LEMMA SysInitInv == SysInit => SysInv
<1> SUFFICES ASSUME SysInit PROVE SysInv
  OBVIOUS
<1>1. SyncInv
  BY SysInitSync
<1>2. C2Inv
  BY SystemAssumption DEF SysInit, C2Inv
<1>3. FileInv
  <2>1. KeyPos \in Positions /\ KeyPos <= LastPos(0)
    BY MaxAssumption DEF KeyPos, Positions, LastPos
  <2>2. file[KeyPos] = key
    BY <2>1, ImageCells DEF SysInit
  <2>3. ASSUME NEW i \in 0 .. E4_TOPICS_MAX - 1
        PROVE  TKeyPos(i) \in Positions /\ ~(TKeyPos(i) <= LastPos(0))
    BY MaxAssumption DEF TKeyPos, Positions, LastPos
  <2>4. \A i \in 0 .. E4_TOPICS_MAX - 1 : file[TKeyPos(i)] = Absent
    BY <2>3 DEF SysInit
  <2> QED
    BY <2>2, <2>4 DEF SysInit, FileInv
<1>4. StoreInv
  <2>1. LiveSlots(EmptyTable) = {}
    BY DEF LiveSlots, EmptyTable
  <2> QED
    BY <2>1 DEF SysInit, StoreInv, Idle
<1> QED
  BY <1>1, <1>2, <1>3, <1>4 DEF SysInv

(* Every id key in the file and in a store that is up was used by the C2,  *)
(* every topic key was sent by it, and a message leads on from each id key *)
(* but the last.                                                           *)
THEOREM E4SystemInvariant == SysSpec => []SysInv
<1>1. SysInv /\ [SysNext]_svars => SysInv'
  BY SysNextSync, C2Preserved, FilePreserved, StorePreserved DEF SysInv
<1> QED
  BY <1>1, SysInitInv, PTL DEF SysSpec

(* Wherever the program stops, at any cell of any sync, the client comes   *)
(* back with an id key that the C2 has used, and the message that takes it *)
(* from there to the next one was sent, although set_idkey does not save.  *)
THEOREM E4SystemRestartOnChain == FairSpec => []RestartOnChain
<1>1. SysInv => RestartOnChain
  BY DEF SysInv, C2Inv, StoreInv, RestartOnChain
<1> QED
  BY <1>1, E4SystemInvariant, PTL DEF FairSpec

(* Every key in the topic table was sent by the C2, after restarts from    *)
(* files that a sync has left half rewritten too, whatever the table size. *)
THEOREM E4SystemTopicKeysFromC2 == FairSpec => []TopicKeysFromC2
<1>1. SysInv => TopicKeysFromC2
  BY DEF SysInv, StoreInv, TopicKeysFromC2, SentKeys
<1> QED
  BY <1>1, E4SystemInvariant, PTL DEF FairSpec

=============================================================================

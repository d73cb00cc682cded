--------------------------- MODULE PkStoreProofs ---------------------------
(***************************************************************************)
(* The secret shared with the C2, which the public-key store caches, is    *)
(* the one of the current keys after any sequence of calls, and both       *)
(* tables stay within their arrays.                                        *)
(***************************************************************************)
EXTENDS PkStore, KeyTableProofs

(* The secret is right in the zeroed store.                                *)
LEMMA InitSecret == Init => SecretMatchesKeys
BY DEF Init, SecretMatchesKeys, Expected

(* The two calls that replace a key: when the other key is missing there   *)
(* was no secret and there is none after the call; when it is there the    *)
(* secret is derived from the new pair.  Keys handed in are not zero.      *)
LEMMA KeySecret ==
    ASSUME SecretMatchesKeys,
           \/ \E k \in SecKeys : SetIdSecKey(k)
           \/ \E k \in C2Keys : SetC2PubKey(k)
    PROVE  SecretMatchesKeys'
<1>1. CASE \E k \in SecKeys : SetIdSecKey(k)
  <2>1. PICK k \in SecKeys : SetIdSecKey(k)
    BY <1>1
  <2>2. k # Zero /\ privkey' = k /\ c2key' = c2key
    BY <2>1, NonZeroAssumption DEF SetIdSecKey
  <2>3. CASE c2key = Zero
    BY <2>1, <2>2, <2>3 DEF SetIdSecKey, DeriveStore, SecretMatchesKeys, Expected
  <2>4. CASE c2key # Zero
    BY <2>1, <2>2, <2>4 DEF SetIdSecKey, DeriveStore, SecretMatchesKeys, Expected
  <2> QED
    BY <2>3, <2>4
<1>2. CASE \E k \in C2Keys : SetC2PubKey(k)
  <2>1. PICK k \in C2Keys : SetC2PubKey(k)
    BY <1>2
  <2>2. k # Zero /\ c2key' = k /\ privkey' = privkey
    BY <2>1, NonZeroAssumption DEF SetC2PubKey
  <2>3. CASE privkey = Zero
    BY <2>1, <2>2, <2>3 DEF SetC2PubKey, DeriveStore, SecretMatchesKeys, Expected
  <2>4. CASE privkey # Zero
    BY <2>1, <2>2, <2>4 DEF SetC2PubKey, DeriveStore, SecretMatchesKeys, Expected
  <2> QED
    BY <2>3, <2>4
<1> QED
  BY <1>1, <1>2

(* Every step keeps the secret right.                                      *)
LEMMA NextSecret ==
    ASSUME SecretMatchesKeys, [Next]_vars
    PROVE  SecretMatchesKeys'
<1>1. CASE InitStore
  <2>1. privkey' = Zero /\ c2sharedkey' = c2sharedkey
        /\ (~foreign' => ~foreign /\ c2sharedkey = Zero)
    BY <1>1 DEF InitStore
  <2> QED
    BY <2>1 DEF SecretMatchesKeys, Expected
<1>2. CASE \/ \E k \in SecKeys : SetIdSecKey(k)
           \/ \E k \in C2Keys : SetC2PubKey(k)
  BY <1>2, KeySecret
<1>3. CASE \E k \in TopicKeys : SetC2SharedSecret(k)
  BY <1>3 DEF SetC2SharedSecret, SecretMatchesKeys
<1>4. CASE UNCHANGED secrets
  BY <1>4 DEF secrets, SecretMatchesKeys, Expected
<1>5. CASE \/ \E i \in Ids : SetId(i)
           \/ \E k \in PubKeys : SetIdPubKey(k)
  BY <1>4, <1>5 DEF SetId, SetIdPubKey
<1>6. CASE \/ \E h \in Hashes, k \in TopicKeys : SetTopicKey(h, k)
           \/ \E h \in Hashes : RemoveTopic(h)
           \/ ResetTopics
  BY <1>4, <1>6 DEF SetTopicKey, RemoveTopic, ResetTopics
<1>7. CASE \/ \E d \in Ids, k \in PubKeys : SetDeviceKey(d, k)
           \/ \E d \in Ids : RemoveDevice(d)
           \/ ResetDevices
  BY <1>4, <1>7 DEF SetDeviceKey, RemoveDevice, ResetDevices
<1>8. CASE UNCHANGED vars
  BY <1>4, <1>8 DEF vars
<1> QED
  BY <1>1, <1>2, <1>3, <1>5, <1>6, <1>7, <1>8 DEF Next

(* set_idseckey, set_c2_pubkey and every other call leave the cached       *)
(* secret equal to the one derived from the current keys, for any table    *)
(* sizes and any sets of keys.                                             *)
THEOREM PkStoreSecretMatchesKeys == Spec => []SecretMatchesKeys
<1>1. Init => SecretMatchesKeys
  BY InitSecret
<1>2. SecretMatchesKeys /\ [Next]_vars => SecretMatchesKeys'
  BY NextSecret
<1> QED
  BY <1>1, <1>2, PTL DEF Spec

-----------------------------------------------------------------------------
(* Types.  remove_device leaves rows twice in its table, so nothing here   *)
(* may rest on distinct names.                                             *)

(* The rows of a table.                                                    *)
Rows(names, keys) == [name : names \cup {Zero}, key : keys \cup {Zero}]

(* TableOf, in the form the lemmas about tables use.                       *)
LEMMA TableOfIsTables ==
    ASSUME NEW names, NEW keys, NEW max
    PROVE  TableOf(names, keys, max) = Tables(max, Rows(names, keys))
  BY DEF TableOf, Tables, Rows

(* The scan ends at a live slot or at the count.                           *)
LEMMA ScanEnds ==
    ASSUME NEW names, NEW keys, NEW max \in Nat,
           NEW t \in TableOf(names, keys, max), NEW n
    PROVE  FirstSlot(t, n) \in 0 .. t.count
<1>1. t.count \in Nat
  BY DEF TableOf
<1> QED
  BY <1>1, ScanFirst

(* A write below the end of the array keeps a table a table.               *)
LEMMA PutAtTable ==
    ASSUME NEW names, NEW keys, NEW max \in Nat,
           NEW t \in TableOf(names, keys, max),
           NEW i \in 0 .. t.count, i < max, NEW n \in names, NEW k \in keys
    PROVE  PutAt(t, i, n, k) \in TableOf(names, keys, max)
<1>1. [name |-> n, key |-> k] \in Rows(names, keys)
  BY DEF Rows
<1>2. t \in Tables(max, Rows(names, keys))
  BY TableOfIsTables
<1>3. PutAt(t, i, n, k) \in Tables(max, Rows(names, keys))
  BY <1>1, <1>2, PutTable
<1> QED
  BY <1>3, TableOfIsTables

(* So does a removal, as long as its loop stays inside the array.          *)
LEMMA RemoveTable ==
    ASSUME NEW names, NEW keys, NEW max \in Nat,
           NEW t \in TableOf(names, keys, max),
           NEW i \in 0 .. t.count, i < t.count, NEW limit \in 0 .. max
    PROVE  CloseGap(t, i, limit, ZeroEntry) \in TableOf(names, keys, max)
<1>1. ZeroEntry \in Rows(names, keys)
  BY DEF Rows, ZeroEntry
<1>2. t \in Tables(max, Rows(names, keys))
  BY TableOfIsTables
<1>3. i \in LiveSlots(t)
  BY DEF LiveSlots, TableOf
<1>4. CloseGap(t, i, limit, ZeroEntry) \in Tables(max, Rows(names, keys))
  BY <1>1, <1>2, <1>3, CloseGapTable
<1> QED
  BY <1>4, TableOfIsTables

(* The zeroed store is well typed.                                         *)
LEMMA EmptyTable ==
    ASSUME NEW names, NEW keys, NEW max \in Nat
    PROVE  Empty(max) \in TableOf(names, keys, max)
  BY DEF Empty, TableOf, ZeroEntry

(* So are all its fields.                                                  *)
LEMMA InitType == Init => TypeOK
  BY EmptyTable, SizeAssumption DEF Init, TypeOK

(* set_topic_key and set_device_key look for space before they write.      *)
LEMMA SetType ==
    ASSUME TypeOK,
           \/ \E h \in Hashes, k \in TopicKeys : SetTopicKey(h, k)
           \/ \E d \in Ids, k \in PubKeys : SetDeviceKey(d, k)
    PROVE  TypeOK'
<1>1. CASE \E h \in Hashes, k \in TopicKeys : SetTopicKey(h, k)
  <2>1. PICK h \in Hashes, k \in TopicKeys : SetTopicKey(h, k)
    BY <1>1
  <2> DEFINE i == FirstSlot(topics, h)
  <2>2. /\ topics \in TableOf(Hashes, TopicKeys, E4_TOPICS_MAX)
        /\ i \in 0 .. topics.count /\ topics.count \in Nat
    <3>1. topics \in TableOf(Hashes, TopicKeys, E4_TOPICS_MAX) /\ E4_TOPICS_MAX \in Nat
      BY SizeAssumption DEF TypeOK
    <3>2. FirstSlot(topics, h) \in 0 .. topics.count
      BY <3>1, ScanEnds
    <3>3. topics.count \in Nat
      BY <3>1 DEF TableOf
    <3> QED
      BY <3>1, <3>2, <3>3
  <2> HIDE DEF i
  <2>3. i >= E4_TOPICS_MAX \/ i < E4_TOPICS_MAX
    BY <2>2, SizeAssumption
  <2>4. topics' \in TableOf(Hashes, TopicKeys, E4_TOPICS_MAX)
    <3>1. CASE i >= E4_TOPICS_MAX
      BY <2>1, <2>2, <3>1 DEF SetTopicKey, i
    <3>2. CASE i < E4_TOPICS_MAX
      <4>1. ~ (i >= E4_TOPICS_MAX)
        BY <2>2, <3>2, SizeAssumption
      <4>2. topics' = PutAt(topics, i, h, k)
        BY <2>1, <4>1 DEF SetTopicKey, i
      <4> QED
        BY <2>2, <3>2, <4>2, PutAtTable, SizeAssumption
    <3> QED
      BY <2>3, <3>1, <3>2
  <2> QED
    BY <2>1, <2>4 DEF SetTopicKey, TypeOK, identity, secrets
<1>2. CASE \E d \in Ids, k \in PubKeys : SetDeviceKey(d, k)
  <2>1. PICK d \in Ids, k \in PubKeys : SetDeviceKey(d, k)
    BY <1>2
  <2> DEFINE i == FirstSlot(devices, d)
  <2>2. /\ devices \in TableOf(Ids, PubKeys, E4_DEVICES_MAX)
        /\ i \in 0 .. devices.count /\ devices.count \in Nat
    <3>1. devices \in TableOf(Ids, PubKeys, E4_DEVICES_MAX) /\ E4_DEVICES_MAX \in Nat
      BY SizeAssumption DEF TypeOK
    <3>2. FirstSlot(devices, d) \in 0 .. devices.count
      BY <3>1, ScanEnds
    <3>3. devices.count \in Nat
      BY <3>1 DEF TableOf
    <3> QED
      BY <3>1, <3>2, <3>3
  <2> HIDE DEF i
  <2>3. i >= E4_DEVICES_MAX \/ i < E4_DEVICES_MAX
    BY <2>2, SizeAssumption
  <2>4. devices' \in TableOf(Ids, PubKeys, E4_DEVICES_MAX)
    <3>1. CASE i >= E4_DEVICES_MAX
      BY <2>1, <2>2, <3>1 DEF SetDeviceKey, i
    <3>2. CASE i < E4_DEVICES_MAX
      <4>1. ~ (i >= E4_DEVICES_MAX)
        BY <2>2, <3>2, SizeAssumption
      <4>2. devices' = PutAt(devices, i, d, k)
        BY <2>1, <4>1 DEF SetDeviceKey, i
      <4> QED
        BY <2>2, <3>2, <4>2, PutAtTable, SizeAssumption
    <3> QED
      BY <2>3, <3>1, <3>2
  <2> QED
    BY <2>1, <2>4 DEF SetDeviceKey, TypeOK, identity, secrets
<1> QED
  BY <1>1, <1>2

(* The row that remove_device zeroes in topics is one of its rows.         *)
LEMMA ZeroFirstRow ==
    ASSUME NEW names, NEW keys, NEW max \in Nat \ {0},
           NEW t \in TableOf(names, keys, max)
    PROVE  [t EXCEPT !.slot[0] = ZeroEntry] \in TableOf(names, keys, max)
  BY DEF TableOf, ZeroEntry

(* remove_topic and remove_device: the number of topics that bounds the    *)
(* loop of remove_device is not above E4_TOPICS_MAX, so the loop stays in  *)
(* an array that is no shorter.                                            *)
LEMMA RemoveType ==
    ASSUME TypeOK,
           \/ \E h \in Hashes : RemoveTopic(h)
           \/ \E d \in Ids : RemoveDevice(d)
    PROVE  TypeOK'
<1>0. /\ topics \in TableOf(Hashes, TopicKeys, E4_TOPICS_MAX)
      /\ devices \in TableOf(Ids, PubKeys, E4_DEVICES_MAX)
      /\ topics.count \in 0 .. E4_TOPICS_MAX
      /\ topics.count \in 0 .. E4_DEVICES_MAX
      /\ E4_TOPICS_MAX \in Nat \ {0} /\ E4_DEVICES_MAX \in Nat \ {0}
  BY SizeAssumption DEF TypeOK, TableOf
<1>1. CASE \E h \in Hashes : RemoveTopic(h)
  <2>1. PICK h \in Hashes : RemoveTopic(h)
    BY <1>1
  <2>2. FirstSlot(topics, h) \in 0 .. topics.count
    BY <1>0, ScanEnds
  <2>3. topics' \in TableOf(Hashes, TopicKeys, E4_TOPICS_MAX)
    BY <1>0, <2>1, <2>2, RemoveTable DEF RemoveTopic
  <2> QED
    BY <2>1, <2>3 DEF RemoveTopic, TypeOK, identity, secrets
<1>2. CASE \E d \in Ids : RemoveDevice(d)
  <2>1. PICK d \in Ids : RemoveDevice(d)
    BY <1>2
  <2>2. FirstSlot(devices, d) \in 0 .. devices.count
    BY <1>0, ScanEnds
  <2>3. devices' \in TableOf(Ids, PubKeys, E4_DEVICES_MAX)
    BY <1>0, <2>1, <2>2, RemoveTable DEF RemoveDevice, tables
  <2>4. topics' \in TableOf(Hashes, TopicKeys, E4_TOPICS_MAX)
    BY <1>0, <2>1, ZeroFirstRow DEF RemoveDevice, tables
  <2> QED
    BY <2>1, <2>3, <2>4 DEF RemoveDevice, TypeOK, identity, secrets
<1> QED
  BY <1>1, <1>2

(* Every step keeps the types.                                             *)
LEMMA NextType ==
    ASSUME TypeOK, [Next]_vars
    PROVE  TypeOK'
<1>1. CASE InitStore \/ ResetTopics \/ ResetDevices
  BY <1>1, EmptyTable, SizeAssumption
  DEF InitStore, ResetTopics, ResetDevices, TypeOK, identity, secrets
<1>2. CASE \/ \E i \in Ids : SetId(i)
           \/ \E k \in PubKeys : SetIdPubKey(k)
  BY <1>2 DEF SetId, SetIdPubKey, TypeOK, Hashes, secrets, tables
<1>3. CASE \/ \E k \in SecKeys : SetIdSecKey(k)
           \/ \E k \in C2Keys : SetC2PubKey(k)
           \/ \E k \in TopicKeys : SetC2SharedSecret(k)
  BY <1>3
  DEF SetIdSecKey, SetC2PubKey, SetC2SharedSecret, DeriveStore, TypeOK, identity, tables
<1>4. CASE \/ \E h \in Hashes, k \in TopicKeys : SetTopicKey(h, k)
           \/ \E d \in Ids, k \in PubKeys : SetDeviceKey(d, k)
  BY <1>4, SetType
<1>5. CASE \/ \E h \in Hashes : RemoveTopic(h)
           \/ \E d \in Ids : RemoveDevice(d)
  BY <1>5, RemoveType
<1>6. CASE UNCHANGED vars
  BY <1>6 DEF vars, identity, secrets, tables, TypeOK
<1> QED
  BY <1>1, <1>2, <1>3, <1>4, <1>5, <1>6 DEF Next

(* Neither count of the public-key store passes the end of its array,      *)
(* whatever the sizes, even though remove_device bounds its loop by the    *)
(* number of topics and leaves rows in the device table twice.             *)
THEOREM PkStoreTypeOK == Spec => []TypeOK
<1>1. Init => TypeOK
  BY InitType
<1>2. TypeOK /\ [Next]_vars => TypeOK'
  BY NextType
<1> QED
  BY <1>1, <1>2, PTL DEF Spec

-----------------------------------------------------------------------------
(* The topics as a map.  remove_device on a full table zeroes the first    *)
(* topic row in place, which leaves a row without a name among the live    *)
(* ones; until then the topic table is one of distinct names.              *)

(* No device is removed from a device table that is full.                  *)
RemovalFits ==
    \A d \in Ids : RemoveDevice(d) /\ FirstSlot(devices, d) < devices.count
                   => devices.count # E4_DEVICES_MAX

TopicRow == Rows(Hashes, TopicKeys)

(* A topic table whose live rows are rows that were set.                   *)
GoodTopics(t) ==
    /\ t \in Tables(E4_TOPICS_MAX, TopicRow)
    /\ UniqueNames(t)
    /\ \A i \in LiveSlots(t) : t.slot[i].name \in Hashes /\ t.slot[i].key \in TopicKeys

TopicMap == [h \in Hashes |-> Lookup(topics, h, Zero)]

(* The zeroed table.                                                       *)
LEMMA EmptyGood ==
    /\ GoodTopics(Empty(E4_TOPICS_MAX))
    /\ \A m : Lookup(Empty(E4_TOPICS_MAX), m, Zero) = Zero
<1> DEFINE t == Empty(E4_TOPICS_MAX)
<1>1. t \in Tables(E4_TOPICS_MAX, TopicRow)
  BY EmptyTable, TableOfIsTables, SizeAssumption DEF TopicRow
<1>2. LiveSlots(t) = {}
  BY DEF Empty, LiveSlots
<1> HIDE DEF t
<1>3. Names(t) = {}
  BY <1>2 DEF Names
<1> QED
  BY <1>1, <1>2, <1>3 DEF GoodTopics, UniqueNames, Lookup, t

(* set_topic_key binds the topic it is given and no other, or refuses a    *)
(* new topic when the table is full.                                       *)
LEMMA SetTopicStep ==
    ASSUME GoodTopics(topics), NEW h \in Hashes, NEW k \in TopicKeys, SetTopicKey(h, k)
    PROVE  /\ GoodTopics(topics')
           /\ \/ /\ h \in Names(topics) \/ topics.count < E4_TOPICS_MAX
                 /\ ret' # E4_ERROR_TOPICKEY_MISSING
                 /\ \A m : Lookup(topics', m, Zero)
                             = IF m = h THEN k ELSE Lookup(topics, m, Zero)
              \/ /\ h \notin Names(topics) /\ topics.count = E4_TOPICS_MAX
                 /\ ret' = E4_ERROR_TOPICKEY_MISSING
                 /\ topics' = topics
<1> DEFINE i == FirstSlot(topics, h)
<1>1. /\ topics \in Tables(E4_TOPICS_MAX, TopicRow) /\ UniqueNames(topics)
      /\ E4_TOPICS_MAX \in Nat /\ topics.count \in 0 .. E4_TOPICS_MAX
  BY SizeAssumption DEF GoodTopics, Tables
<1>2. /\ i \in 0 .. topics.count
      /\ h \in Names(topics) => i \in 0 .. topics.count - 1
      /\ h \notin Names(topics) => i = topics.count
  BY <1>1, FirstSlotRange DEF LiveSlots
<1>3. CASE i >= E4_TOPICS_MAX
  <2>1. ret' = E4_ERROR_TOPICKEY_MISSING /\ topics' = topics
    BY <1>3 DEF SetTopicKey
  <2>2. h \notin Names(topics) /\ topics.count = E4_TOPICS_MAX
    BY <1>1, <1>2, <1>3
  <2> QED
    BY <2>1, <2>2
<1>4. CASE ~(i >= E4_TOPICS_MAX)
  <2>1. ret' \in SyncResults /\ topics' = PutAt(topics, i, h, k)
    BY <1>4 DEF SetTopicKey, Synced
  <2>2. i < E4_TOPICS_MAX
    BY <1>1, <1>2, <1>4
  <2>3. h \in Names(topics) \/ topics.count < E4_TOPICS_MAX
    BY <1>2, <2>2
  <2>4. ret' # E4_ERROR_TOPICKEY_MISSING
    BY <2>1, SyncAssumption
  <2>5. [name |-> h, key |-> k] \in TopicRow
    BY DEF TopicRow, Rows
  <2>6. /\ topics' \in Tables(E4_TOPICS_MAX, TopicRow) /\ UniqueNames(topics')
        /\ \A m : Lookup(topics', m, Zero) = IF m = h THEN k ELSE Lookup(topics, m, Zero)
    BY <1>1, <2>1, <2>2, <2>5, PutCorrect
  <2>7. \A j \in LiveSlots(topics') :
           \/ topics'.slot[j] = [name |-> h, key |-> k]
           \/ \E l \in LiveSlots(topics) : topics'.slot[j] = topics.slot[l]
    BY <1>1, <2>1, <2>2, <2>5, PutRows
  <2>8. GoodTopics(topics')
    BY <2>6, <2>7 DEF GoodTopics
  <2> QED
    BY <2>3, <2>4, <2>6, <2>8
<1> QED
  BY <1>3, <1>4

(* remove_topic unbinds the topic it is given and no other, or finds none. *)
LEMMA RemoveTopicStep ==
    ASSUME GoodTopics(topics), NEW h \in Hashes, RemoveTopic(h)
    PROVE  /\ GoodTopics(topics')
           /\ \/ /\ h \in Names(topics) /\ ret' # E4_ERROR_TOPICKEY_MISSING
                 /\ \A m : Lookup(topics', m, Zero)
                             = IF m = h THEN Zero ELSE Lookup(topics, m, Zero)
              \/ /\ h \notin Names(topics) /\ ret' = E4_ERROR_TOPICKEY_MISSING
                 /\ topics' = topics
<1> DEFINE i == FirstSlot(topics, h)
<1>1. /\ topics \in Tables(E4_TOPICS_MAX, TopicRow) /\ UniqueNames(topics)
      /\ E4_TOPICS_MAX \in Nat /\ topics.count \in Nat
  BY SizeAssumption DEF GoodTopics, Tables
<1>2. /\ h \in Names(topics) => i \in LiveSlots(topics) /\ topics.slot[i].name = h
      /\ h \notin Names(topics) => i = topics.count
  BY <1>1, FirstSlotRange
<1>3. CASE h \in Names(topics)
  <2>1. i < topics.count
    BY <1>1, <1>2, <1>3 DEF LiveSlots
  <2>2. ret' \in SyncResults /\ topics' = CloseGap(topics, i, topics.count, ZeroEntry)
    BY <2>1 DEF RemoveTopic, Synced
  <2>3. ZeroEntry \in TopicRow
    BY DEF ZeroEntry, TopicRow, Rows
  <2> HIDE DEF i
  <2> DEFINE u == CloseGap(topics, i, topics.count, ZeroEntry)
  <2>4. i \in LiveSlots(topics) /\ topics.slot[i].name = h
    BY <1>2, <1>3
  <2>5. /\ u \in Tables(E4_TOPICS_MAX, TopicRow)
        /\ UniqueNames(u)
        /\ Names(u) = Names(topics) \ {h}
        /\ \A j \in LiveSlots(u) : \E l \in LiveSlots(topics) : u.slot[j] = topics.slot[l]
        /\ \A m : Lookup(u, m, Zero) = IF m = h THEN Zero ELSE Lookup(topics, m, Zero)
    BY <1>1, <2>3, <2>4, CloseGapCorrect
  <2>6. GoodTopics(u)
    BY <2>5 DEF GoodTopics
  <2>7. topics' = u /\ ret' # E4_ERROR_TOPICKEY_MISSING
    BY <2>2, SyncAssumption
  <2> HIDE DEF u
  <2> QED
    BY <1>3, <2>5, <2>6, <2>7
<1>4. CASE h \notin Names(topics)
  <2>1. ~(i < topics.count)
    BY <1>1, <1>2, <1>4
  <2> QED
    BY <1>4, <2>1 DEF RemoveTopic
<1> QED
  BY <1>3, <1>4

(* The calls on devices and on keys leave the topics alone.                *)
LEMMA OtherStep ==
    ASSUME RemovalFits,
           \/ \E d \in Ids, k \in PubKeys : SetDeviceKey(d, k)
           \/ \E d \in Ids : RemoveDevice(d)
           \/ ResetDevices
    PROVE  topics' = topics /\ ret' # E4_ERROR_TOPICKEY_MISSING
<1>2. /\ E4_ERROR_DEVICEPK_MISSING # E4_ERROR_TOPICKEY_MISSING
      /\ E4_RESULT_OK # E4_ERROR_TOPICKEY_MISSING
  BY DEF E4_ERROR_DEVICEPK_MISSING, E4_ERROR_TOPICKEY_MISSING, E4_RESULT_OK
<1>3. ret' \in SyncResults => ret' # E4_ERROR_TOPICKEY_MISSING
  BY SyncAssumption
<1>4. CASE \E d \in Ids, k \in PubKeys : SetDeviceKey(d, k)
  BY <1>2, <1>3, <1>4 DEF SetDeviceKey, Synced
<1>5. CASE \E d \in Ids : RemoveDevice(d)
  BY <1>2, <1>3, <1>5 DEF RemovalFits, RemoveDevice, Synced, tables
<1>6. CASE ResetDevices
  BY <1>2, <1>6 DEF ResetDevices, Ignored
<1> QED
  BY <1>4, <1>5, <1>6

(* As long as no removal from a full device table zeroes one of them, every *)
(* step keeps the topics distinct.                                         *)
LEMMA NextTopics ==
    ASSUME TypeOK, RemovalFits, GoodTopics(topics), [Next]_vars
    PROVE  GoodTopics(topics')
<1>1. CASE InitStore \/ ResetTopics
  BY <1>1, EmptyGood DEF InitStore, ResetTopics
<1>2. CASE \E h \in Hashes, k \in TopicKeys : SetTopicKey(h, k)
  BY <1>2, SetTopicStep
<1>3. CASE \E h \in Hashes : RemoveTopic(h)
  BY <1>3, RemoveTopicStep
<1>4. CASE \/ \E d \in Ids, k \in PubKeys : SetDeviceKey(d, k)
           \/ \E d \in Ids : RemoveDevice(d)
           \/ ResetDevices
  BY <1>4, OtherStep
<1>5. CASE UNCHANGED topics
  BY <1>5
<1>6. CASE \/ \E i \in Ids : SetId(i)
           \/ \E k \in PubKeys : SetIdPubKey(k)
           \/ \E k \in SecKeys : SetIdSecKey(k)
           \/ \E k \in C2Keys : SetC2PubKey(k)
           \/ \E k \in TopicKeys : SetC2SharedSecret(k)
           \/ UNCHANGED vars
  BY <1>5, <1>6 DEF SetId, SetIdPubKey, SetIdSecKey, SetC2PubKey, SetC2SharedSecret, tables, vars
<1> QED
  BY <1>1, <1>2, <1>3, <1>4, <1>6 DEF Next

(* What the map of the topics binds, and how much.                         *)
LEMMA BoundTopics ==
    ASSUME GoodTopics(topics)
    PROVE  /\ KM!Bound(TopicMap) = Names(topics)
           /\ KM!Cardinality(KM!Bound(TopicMap)) = topics.count
<1>1. /\ topics \in Tables(E4_TOPICS_MAX, TopicRow) /\ UniqueNames(topics)
      /\ E4_TOPICS_MAX \in Nat
  BY SizeAssumption DEF GoodTopics
<1>2. Names(topics) \subseteq Hashes
  BY DEF GoodTopics, Names
<1>3. ASSUME NEW h \in Hashes
      PROVE  (Lookup(topics, h, Zero) # Zero) <=> h \in Names(topics)
  <2>1. CASE h \in Names(topics)
    <3>1. PICK i \in LiveSlots(topics) : topics.slot[i].name = h
      BY <2>1 DEF Names
    <3>2. Lookup(topics, h, Zero) = topics.slot[i].key
      BY <1>1, <3>1, LookupLive
    <3>3. topics.slot[i].key \in TopicKeys
      BY <3>1 DEF GoodTopics
    <3> QED
      BY <2>1, <3>2, <3>3, NonZeroAssumption
  <2>2. CASE h \notin Names(topics)
    BY <2>2 DEF Lookup
  <2> QED
    BY <2>1, <2>2
<1>4. KM!Bound(TopicMap) = Names(topics)
  BY <1>2, <1>3 DEF KM!Bound, TopicMap
<1>5. Cardinality(Names(topics)) = topics.count
  BY <1>1, NamesCardinality
<1>6. KM!Cardinality(Names(topics)) = Cardinality(Names(topics))
  BY DEF KM!Cardinality, Cardinality
<1> QED
  BY <1>4, <1>5, <1>6

(* What CallsRefineKeyMap says of one step.                                *)
CallsAreTheirs ==
    /\ InitStore \/ ResetTopics => KM!Clear
    /\ \A h \in Hashes, k \in TopicKeys : SetTopicKey(h, k) => KM!Bind(h, k) \/ KM!BindFull(h)
    /\ \A h \in Hashes : RemoveTopic(h) => KM!Unbind(h) \/ KM!UnbindMissing(h)
    /\ \A d \in Ids, k \in PubKeys : SetDeviceKey(d, k) => KM!Other
    /\ \A d \in Ids : RemoveDevice(d) => KM!Other
    /\ ResetDevices => KM!Other

(* Each call is the operation on the map it is named for.                  *)
LEMMA CallsMap ==
    ASSUME TypeOK, RemovalFits, GoodTopics(topics)
    PROVE  CallsAreTheirs
<1>0. devices.count \in Nat /\ E4_RESULT_OK # E4_ERROR_TOPICKEY_MISSING
  BY DEF TypeOK, TableOf, E4_RESULT_OK, E4_ERROR_TOPICKEY_MISSING
<1>1. ASSUME InitStore \/ ResetTopics PROVE KM!Clear
  <2>1. topics' = Empty(E4_TOPICS_MAX) /\ ret' = E4_RESULT_OK
    BY <1>1 DEF InitStore, ResetTopics, Ignored
  <2>2. TopicMap' = [h \in Hashes |-> Zero]
    BY <2>1, EmptyGood DEF TopicMap
  <2> QED
    BY <1>0, <2>1, <2>2 DEF KM!Clear, TopicMap
<1>2. ASSUME NEW h \in Hashes, NEW k \in TopicKeys, SetTopicKey(h, k)
      PROVE  KM!Bind(h, k) \/ KM!BindFull(h)
  <2>1. CASE /\ h \in Names(topics) \/ topics.count < E4_TOPICS_MAX
             /\ ret' # E4_ERROR_TOPICKEY_MISSING
             /\ \A m : Lookup(topics', m, Zero) = IF m = h THEN k ELSE Lookup(topics, m, Zero)
    <3>1. TopicMap' = [TopicMap EXCEPT ![h] = k]
      BY <2>1 DEF TopicMap
    <3> QED
      BY <2>1, <3>1, BoundTopics DEF KM!Bind, TopicMap
  <2>2. CASE /\ h \notin Names(topics) /\ topics.count = E4_TOPICS_MAX
             /\ ret' = E4_ERROR_TOPICKEY_MISSING /\ topics' = topics
    BY <2>2, BoundTopics DEF KM!BindFull, TopicMap
  <2> QED
    BY <1>2, <2>1, <2>2, SetTopicStep
<1>3. ASSUME NEW h \in Hashes, RemoveTopic(h) PROVE KM!Unbind(h) \/ KM!UnbindMissing(h)
  <2>1. CASE /\ h \in Names(topics) /\ ret' # E4_ERROR_TOPICKEY_MISSING
             /\ \A m : Lookup(topics', m, Zero) = IF m = h THEN Zero ELSE Lookup(topics, m, Zero)
    <3>1. TopicMap' = [TopicMap EXCEPT ![h] = Zero]
      BY <2>1 DEF TopicMap
    <3> QED
      BY <2>1, <3>1, BoundTopics DEF KM!Unbind, TopicMap
  <2>2. CASE /\ h \notin Names(topics) /\ ret' = E4_ERROR_TOPICKEY_MISSING
             /\ topics' = topics
    BY <2>2, BoundTopics DEF KM!UnbindMissing, TopicMap
  <2> QED
    BY <1>3, <2>1, <2>2, RemoveTopicStep
<1>4. ASSUME \/ \E d \in Ids, k \in PubKeys : SetDeviceKey(d, k)
             \/ \E d \in Ids : RemoveDevice(d)
             \/ ResetDevices
      PROVE  KM!Other
  BY <1>0, <1>4, OtherStep DEF KM!Other
<1> QED
  BY <1>1, <1>2, <1>3, <1>4 DEF CallsAreTheirs

(* As long as no device is removed from a full device table, each call of  *)
(* the public-key store is the operation on a bounded map of topics it is  *)
(* named for, with its own arguments, for every value of the constants.    *)
(* The table may fill, be reset and be refused further devices.            *)
THEOREM PkStoreCallsRefineKeyMap == Spec /\ [][RemovalFits]_vars => CallsRefineKeyMap
<1>1. Init => GoodTopics(topics)
  BY EmptyGood DEF Init
<1>2. TypeOK /\ [RemovalFits]_vars /\ GoodTopics(topics) /\ [Next]_vars => GoodTopics(topics)'
  BY NextTopics DEF vars, tables
<1>3. TypeOK /\ [RemovalFits]_vars /\ GoodTopics(topics) /\ [Next]_vars => [CallsAreTheirs]_vars
  BY CallsMap
<1>4. CallsRefineKeyMap <=> [][CallsAreTheirs]_vars
  BY DEF CallsRefineKeyMap, CallsAreTheirs
<1> QED
  BY <1>1, <1>2, <1>3, <1>4, PkStoreTypeOK, PTL DEF Spec

=============================================================================

------------------------- MODULE SymMemStoreProofs -------------------------
(***************************************************************************)
(* The in-memory store is correct for every table size and every set of    *)
(* ids, keys and topics: its invariants are inductive, and it implements   *)
(* the bounded map of KeyMap.                                              *)
(***************************************************************************)
EXTENDS SymMemStore, KeyTableProofs

(* The three invariants are inductive together: the table lemmas need the  *)
(* type and the distinct names of the table they are applied to.           *)
IInv == TypeOK /\ TopicsUnique /\ CtrlTopicOfId

(* A table with live rows taken from Hashes and Keys.                      *)
GoodTable(t) ==
    /\ t \in Tables(E4_TOPICS_MAX, Entry)
    /\ UniqueNames(t)
    /\ \A i \in LiveSlots(t) : t.slot[i].name \in Hashes /\ t.slot[i].key \in Keys

(* Table, in the form the lemmas about tables use.                         *)
LEMMA TableIsTables == Table = Tables(E4_TOPICS_MAX, Entry)
  BY DEF Table, Tables

(* The table of a zeroed store has no rows.                                *)
LEMMA EmptyTableGood == GoodTable(EmptyTable) /\ Names(EmptyTable) = {}
<1>1. ZeroEntry \in Entry
  BY DEF ZeroEntry, Entry
<1>2. LiveSlots(EmptyTable) = {}
  BY DEF LiveSlots, EmptyTable
<1>3. EmptyTable \in Tables(E4_TOPICS_MAX, Entry)
  BY <1>1, MaxAssumption DEF EmptyTable, Tables
<1> QED
  BY <1>2, <1>3 DEF GoodTable, UniqueNames, Names

(* reset_topics keeps the rows and forgets how many there were.            *)
LEMMA ResetTableGood ==
    ASSUME NEW t, GoodTable(t)
    PROVE  LET u == [t EXCEPT !.count = 0] IN GoodTable(u) /\ Names(u) = {}
<1> DEFINE u == [t EXCEPT !.count = 0]
<1>1. u \in Tables(E4_TOPICS_MAX, Entry) /\ u.count = 0
  BY MaxAssumption DEF GoodTable, Tables
<1>2. LiveSlots(u) = {}
  BY <1>1 DEF LiveSlots
<1> QED
  BY <1>1, <1>2 DEF GoodTable, UniqueNames, Names

(* set_topic_key on a table with room for the row.                         *)
LEMMA PutTableGood ==
    ASSUME NEW t, GoodTable(t), NEW h \in Hashes, NEW k \in Keys,
           FirstSlot(t, h) < E4_TOPICS_MAX
    PROVE  LET u == PutAt(t, FirstSlot(t, h), h, k)
           IN  /\ GoodTable(u)
               /\ Names(u) = Names(t) \cup {h}
               /\ \A m : Lookup(u, m, Zero) = IF m = h THEN k ELSE Lookup(t, m, Zero)
<1> DEFINE i == FirstSlot(t, h)
           u == PutAt(t, i, h, k)
<1>1. [name |-> h, key |-> k] \in Entry
  BY DEF Entry
<1>2. /\ u \in Tables(E4_TOPICS_MAX, Entry)
      /\ UniqueNames(u)
      /\ Names(u) = Names(t) \cup {h}
      /\ \A m : Lookup(u, m, Zero) = IF m = h THEN k ELSE Lookup(t, m, Zero)
  BY <1>1, PutCorrect, MaxAssumption DEF GoodTable
<1>3. \A j \in LiveSlots(u) : u.slot[j].name \in Hashes /\ u.slot[j].key \in Keys
  <2>1. i \in 0 .. t.count
    BY FirstSlotRange, MaxAssumption DEF GoodTable
  <2>2. /\ t.count \in Nat
        /\ t.slot \in [0 .. E4_TOPICS_MAX - 1 -> Entry]
        /\ t.count <= E4_TOPICS_MAX
    BY MaxAssumption DEF GoodTable, Tables
  <2>3. i \in 0 .. E4_TOPICS_MAX - 1
    BY <2>1, <2>2, MaxAssumption
  <2> HIDE DEF i
  <2>4. SUFFICES ASSUME NEW j \in LiveSlots(u)
                 PROVE  u.slot[j].name \in Hashes /\ u.slot[j].key \in Keys
    OBVIOUS
  <2>5. CASE j = i
    BY <2>2, <2>3, <2>5 DEF PutAt
  <2>6. CASE j # i
    <3>1. j \in LiveSlots(t)
      BY <2>1, <2>2, <2>6 DEF PutAt, LiveSlots
    <3>2. u.slot[j] = t.slot[j]
      BY <2>2, <2>6, <3>1, MaxAssumption DEF PutAt, LiveSlots
    <3> QED
      BY <3>1, <3>2 DEF GoodTable
  <2> QED
    BY <2>5, <2>6
<1> QED
  BY <1>2, <1>3 DEF GoodTable

(* remove_topic on a table that has the row.                               *)
LEMMA RemoveTableGood ==
    ASSUME NEW t, GoodTable(t), NEW h, h \in Names(t)
    PROVE  LET u == CloseGap(t, FirstSlot(t, h), t.count, ZeroEntry)
           IN  /\ GoodTable(u)
               /\ Names(u) = Names(t) \ {h}
               /\ \A m : Lookup(u, m, Zero) = IF m = h THEN Zero ELSE Lookup(t, m, Zero)
<1> DEFINE i == FirstSlot(t, h)
           u == CloseGap(t, i, t.count, ZeroEntry)
<1>1. i \in LiveSlots(t) /\ t.slot[i].name = h
  BY FirstSlotRange, MaxAssumption DEF GoodTable
<1>2. ZeroEntry \in Entry
  BY DEF ZeroEntry, Entry
<1> HIDE DEF i
<1>3. /\ u \in Tables(E4_TOPICS_MAX, Entry)
      /\ UniqueNames(u)
      /\ Names(u) = Names(t) \ {h}
      /\ \A j \in LiveSlots(u) : \E l \in LiveSlots(t) : u.slot[j] = t.slot[l]
      /\ \A m : Lookup(u, m, Zero) = IF m = h THEN Zero ELSE Lookup(t, m, Zero)
  BY <1>1, <1>2, CloseGapCorrect, MaxAssumption DEF GoodTable
<1> QED
  BY <1>3 DEF GoodTable, i

(* Which rows the map of the store binds, and how many.                    *)
LEMMA BoundIsNames ==
    ASSUME IInv
    PROVE  /\ KM!Bound(TopicMap) = Names(topics)
           /\ Names(topics) \subseteq Hashes
           /\ Cardinality(Names(topics)) = topics.count
<1>1. GoodTable(topics)
  BY TableIsTables DEF IInv, TypeOK, TopicsUnique, GoodTable
<1>2. Names(topics) \subseteq Hashes
  BY <1>1 DEF GoodTable, Names
<1>3. ASSUME NEW h \in Hashes
      PROVE  (Lookup(topics, h, Zero) # Zero) <=> h \in Names(topics)
  <2>1. CASE h \in Names(topics)
    <3>1. PICK i \in LiveSlots(topics) : topics.slot[i].name = h
      BY <2>1 DEF Names
    <3>2. Lookup(topics, h, Zero) = topics.slot[i].key
      BY <1>1, <3>1, LookupLive, MaxAssumption DEF GoodTable
    <3> QED
      BY <1>1, <2>1, <3>2, ZeroAssumption DEF GoodTable
  <2>2. CASE h \notin Names(topics)
    BY <2>2 DEF Lookup
  <2> QED
    BY <2>1, <2>2
<1>4. Cardinality(Names(topics)) = topics.count
  BY <1>1, NamesCardinality, MaxAssumption DEF GoodTable
<1> QED
  BY <1>2, <1>3, <1>4 DEF KM!Bound, TopicMap

-----------------------------------------------------------------------------
(* What each call does to the store, in terms of the map it represents.    *)

(* set_topic_key binds its topic and no other, or refuses a new topic when *)
(* the table is full.                                                      *)
LEMMA SetTopicKeyStep ==
    ASSUME IInv, NEW h \in Hashes, NEW k \in Keys, SetTopicKey(h, k)
    PROVE  /\ GoodTable(topics')
           /\ \/ /\ h \in Names(topics) \/ topics.count < E4_TOPICS_MAX
                 /\ ret' = E4_RESULT_OK
                 /\ \A m : Lookup(topics', m, Zero)
                             = IF m = h THEN k ELSE Lookup(topics, m, Zero)
              \/ /\ h \notin Names(topics)
                 /\ topics.count = E4_TOPICS_MAX
                 /\ ret' = E4_ERROR_TOPICKEY_MISSING
                 /\ topics' = topics
<1> DEFINE i == FirstSlot(topics, h)
<1>1. GoodTable(topics)
  BY TableIsTables DEF IInv, TypeOK, TopicsUnique, GoodTable
<1>2. /\ i \in 0 .. topics.count
      /\ topics.count \in 0 .. E4_TOPICS_MAX
      /\ h \in Names(topics) => i \in 0 .. topics.count - 1
      /\ h \notin Names(topics) => i = topics.count
  BY <1>1, FirstSlotRange, MaxAssumption DEF GoodTable, Tables, LiveSlots
<1>3. CASE i >= E4_TOPICS_MAX
  <2>1. ret' = E4_ERROR_TOPICKEY_MISSING /\ topics' = topics
    BY <1>3 DEF SetTopicKey
  <2>2. h \notin Names(topics) /\ topics.count = E4_TOPICS_MAX
    BY <1>2, <1>3, MaxAssumption
  <2> QED
    BY <1>1, <2>1, <2>2
<1>4. CASE ~(i >= E4_TOPICS_MAX)
  <2>1. ret' = E4_RESULT_OK /\ topics' = PutAt(topics, i, h, k)
    BY <1>4 DEF SetTopicKey
  <2>2. i < E4_TOPICS_MAX
    BY <1>2, <1>4, MaxAssumption
  <2>3. h \in Names(topics) \/ topics.count < E4_TOPICS_MAX
    BY <1>2, <2>2
  <2> QED
    BY <1>1, <2>1, <2>2, <2>3, PutTableGood
<1> QED
  BY <1>3, <1>4

(* remove_topic unbinds its topic and no other, or finds none and changes  *)
(* nothing.                                                                *)
LEMMA RemoveTopicStep ==
    ASSUME IInv, NEW h \in Hashes, RemoveTopic(h)
    PROVE  /\ GoodTable(topics')
           /\ \/ /\ h \in Names(topics)
                 /\ ret' = E4_RESULT_OK
                 /\ \A m : Lookup(topics', m, Zero)
                             = IF m = h THEN Zero ELSE Lookup(topics, m, Zero)
              \/ /\ h \notin Names(topics)
                 /\ ret' = E4_ERROR_TOPICKEY_MISSING
                 /\ topics' = topics
<1> DEFINE i == FirstSlot(topics, h)
<1>1. GoodTable(topics)
  BY TableIsTables DEF IInv, TypeOK, TopicsUnique, GoodTable
<1>2. /\ topics.count \in 0 .. E4_TOPICS_MAX
      /\ h \in Names(topics) => i \in 0 .. topics.count - 1
      /\ h \notin Names(topics) => i = topics.count
  BY <1>1, FirstSlotRange, MaxAssumption DEF GoodTable, Tables, LiveSlots
<1>3. CASE h \in Names(topics)
  <2>1. i < topics.count
    BY <1>2, <1>3
  <2>2. ret' = E4_RESULT_OK /\ topics' = CloseGap(topics, i, topics.count, ZeroEntry)
    BY <2>1 DEF RemoveTopic
  <2> QED
    BY <1>1, <1>3, <2>2, RemoveTableGood
<1>4. CASE h \notin Names(topics)
  <2>1. ~(i < topics.count)
    BY <1>2, <1>4
  <2> QED
    BY <1>1, <1>4, <2>1 DEF RemoveTopic
<1> QED
  BY <1>3, <1>4

-----------------------------------------------------------------------------
(* The invariant.                                                          *)

(* The zeroed store satisfies the invariant.                               *)
LEMMA InitIInv == Init => IInv
  BY EmptyTableGood, TableIsTables
  DEF Init, IInv, TypeOK, TopicsUnique, CtrlTopicOfId, GoodTable

(* Every call preserves it.                                                *)
LEMMA NextIInv == IInv /\ [Next]_vars => IInv'
<1> SUFFICES ASSUME IInv, [Next]_vars PROVE IInv'
  OBVIOUS
<1>1. GoodTable(topics)
  BY TableIsTables DEF IInv, TypeOK, TopicsUnique, GoodTable
<1>2. CASE InitStore
  BY <1>2, EmptyTableGood, TableIsTables
  DEF InitStore, IInv, TypeOK, TopicsUnique, CtrlTopicOfId, GoodTable
<1>3. ASSUME NEW i \in Ids, SetId(i) PROVE IInv'
  <2>1. TopicHash(ControlTopic(i)) \in Hashes
    BY DEF Hashes
  <2>2. i # Zero
    BY ZeroAssumption
  <2> QED
    BY <1>3, <2>1, <2>2 DEF SetId, IInv, TypeOK, TopicsUnique, CtrlTopicOfId
<1>4. ASSUME NEW k \in Keys, SetIdKey(k) PROVE IInv'
  BY <1>4 DEF SetIdKey, IInv, TypeOK, TopicsUnique, CtrlTopicOfId
<1>5. ASSUME NEW h \in Hashes, NEW k \in Keys, SetTopicKey(h, k) PROVE IInv'
  <2>1. GoodTable(topics')
    BY <1>5, SetTopicKeyStep
  <2>2. /\ ret' \in {E4_RESULT_OK, E4_ERROR_TOPICKEY_MISSING}
        /\ UNCHANGED <<id, key, ctrltopic>>
    BY <1>5 DEF SetTopicKey
  <2> QED
    BY <2>1, <2>2, TableIsTables
    DEF IInv, TypeOK, TopicsUnique, CtrlTopicOfId, GoodTable
<1>6. ASSUME NEW h \in Hashes, RemoveTopic(h) PROVE IInv'
  <2>1. GoodTable(topics')
    BY <1>6, RemoveTopicStep
  <2>2. /\ ret' \in {E4_RESULT_OK, E4_ERROR_TOPICKEY_MISSING}
        /\ UNCHANGED <<id, key, ctrltopic>>
    BY <1>6 DEF RemoveTopic
  <2> QED
    BY <2>1, <2>2, TableIsTables
    DEF IInv, TypeOK, TopicsUnique, CtrlTopicOfId, GoodTable
<1>7. CASE ResetTopics
  <2>1. GoodTable(topics')
    BY <1>1, <1>7, ResetTableGood DEF ResetTopics
  <2> QED
    BY <1>7, <2>1, TableIsTables
    DEF ResetTopics, IInv, TypeOK, TopicsUnique, CtrlTopicOfId, GoodTable
<1>8. CASE UNCHANGED vars
  BY <1>8 DEF vars, IInv, TypeOK, TopicsUnique, CtrlTopicOfId
<1> QED
  BY <1>2, <1>3, <1>4, <1>5, <1>6, <1>7, <1>8 DEF Next

(* Types, one row per topic and the control topic of the id hold together  *)
(* after every sequence of calls.                                          *)
THEOREM SymMemStoreInvariant == Spec => []IInv
  BY InitIInv, NextIInv, PTL DEF Spec

(* Every call of the in-memory store keeps its fields well typed; the      *)
(* count never passes the end of the array, whatever E4_TOPICS_MAX is.     *)
THEOREM SymMemStoreTypeOK == Spec => []TypeOK
  BY SymMemStoreInvariant, PTL DEF IInv

(* The hash of the control topic, which set_id and init store beside the   *)
(* id, is always the one of the id in place; no other call disturbs it.    *)
THEOREM SymMemStoreCtrlTopicOfId == Spec => []CtrlTopicOfId
  BY SymMemStoreInvariant, PTL DEF IInv

(* Whatever the size of the table, set_topic_key and remove_topic never    *)
(* leave two live rows for one topic, nor a zeroed row among the live ones.*)
THEOREM SymMemStoreTopicsUnique == Spec => []TopicsUnique
  BY SymMemStoreInvariant, PTL DEF IInv

-----------------------------------------------------------------------------
(* The refinement.                                                         *)

(* The zeroed store represents the empty map.                              *)
LEMMA InitRefines == Init => KM!Init
<1> SUFFICES ASSUME Init PROVE KM!Init
  OBVIOUS
<1>1. \A h : Lookup(topics, h, Zero) = Zero
  BY EmptyTableGood DEF Init, Lookup
<1>2. TopicMap = [h \in Hashes |-> Zero]
  BY <1>1 DEF TopicMap
<1> QED
  BY <1>2 DEF Init, KM!Init

(* The size of the represented map, with KeyMap's own Cardinality.         *)
LEMMA BoundOfMap ==
    ASSUME IInv
    PROVE  /\ KM!Bound(TopicMap) = Names(topics)
           /\ KM!Cardinality(KM!Bound(TopicMap)) = topics.count
<1>1. KM!Cardinality(Names(topics)) = Cardinality(Names(topics))
  BY DEF KM!Cardinality, Cardinality
<1> QED
  BY <1>1, BoundIsNames

(* set_topic_key is a binding of the topic to the key it was given.        *)
LEMMA SetTopicKeyRefines ==
    ASSUME IInv, NEW h \in Hashes, NEW k \in Keys, SetTopicKey(h, k)
    PROVE  KM!Bind(h, k) \/ KM!BindFull(h)
<1>1. CASE /\ h \in Names(topics) \/ topics.count < E4_TOPICS_MAX
           /\ ret' = E4_RESULT_OK
           /\ \A m : Lookup(topics', m, Zero)
                       = IF m = h THEN k ELSE Lookup(topics, m, Zero)
  <2>1. TopicMap' = [TopicMap EXCEPT ![h] = k]
    BY <1>1 DEF TopicMap
  <2> QED
    BY <1>1, <2>1, BoundOfMap DEF KM!Bind
<1>2. CASE /\ h \notin Names(topics)
           /\ topics.count = E4_TOPICS_MAX
           /\ ret' = E4_ERROR_TOPICKEY_MISSING
           /\ topics' = topics
  BY <1>2, BoundOfMap
  DEF KM!BindFull, TopicMap, E4_RESULT_OK, E4_ERROR_TOPICKEY_MISSING
<1> QED
  BY <1>1, <1>2, SetTopicKeyStep

(* remove_topic is a removal of the topic it was given.                    *)
LEMMA RemoveTopicRefines ==
    ASSUME IInv, NEW h \in Hashes, RemoveTopic(h)
    PROVE  KM!Unbind(h) \/ KM!UnbindMissing(h)
<1>1. CASE /\ h \in Names(topics)
           /\ ret' = E4_RESULT_OK
           /\ \A m : Lookup(topics', m, Zero)
                       = IF m = h THEN Zero ELSE Lookup(topics, m, Zero)
  <2>1. TopicMap' = [TopicMap EXCEPT ![h] = Zero]
    BY <1>1 DEF TopicMap
  <2> QED
    BY <1>1, <2>1, BoundOfMap DEF KM!Unbind
<1>2. CASE /\ h \notin Names(topics)
           /\ ret' = E4_ERROR_TOPICKEY_MISSING
           /\ topics' = topics
  BY <1>2, BoundOfMap
  DEF KM!UnbindMissing, TopicMap, E4_RESULT_OK, E4_ERROR_TOPICKEY_MISSING
<1> QED
  BY <1>1, <1>2, RemoveTopicStep

(* init and reset_topics empty the map.                                    *)
LEMMA ClearRefines ==
    ASSUME IInv, InitStore \/ ResetTopics
    PROVE  KM!Clear
<1>1. GoodTable(topics)
  BY TableIsTables DEF IInv, TypeOK, TopicsUnique, GoodTable
<1>2. Names(topics') = {} /\ ret' = E4_RESULT_OK
  BY <1>1, EmptyTableGood, ResetTableGood DEF InitStore, ResetTopics
<1>3. \A m : Lookup(topics', m, Zero) = Zero
  BY <1>2 DEF Lookup
<1> QED
  BY <1>2, <1>3 DEF KM!Clear, TopicMap

(* set_id and set_idkey leave the map alone.                               *)
LEMMA OtherRefines ==
    ASSUME (\E i \in Ids : SetId(i)) \/ (\E k \in Keys : SetIdKey(k))
    PROVE  KM!Other
  BY DEF SetId, SetIdKey, KM!Other, TopicMap

(* Every call is a step of the map.                                        *)
LEMMA NextRefines == IInv /\ [Next]_vars => [KM!Next]_(KM!vars)
<1> SUFFICES ASSUME IInv, [Next]_vars PROVE [KM!Next]_(KM!vars)
  OBVIOUS
<1>1. CASE InitStore \/ ResetTopics
  BY <1>1, ClearRefines DEF KM!Next
<1>2. CASE (\E i \in Ids : SetId(i)) \/ (\E k \in Keys : SetIdKey(k))
  BY <1>2, OtherRefines DEF KM!Next
<1>3. ASSUME NEW h \in Hashes, NEW k \in Keys, SetTopicKey(h, k) PROVE KM!Next
  BY <1>3, SetTopicKeyRefines DEF KM!Next
<1>4. ASSUME NEW h \in Hashes, RemoveTopic(h) PROVE KM!Next
  BY <1>4, RemoveTopicRefines DEF KM!Next
<1>5. CASE UNCHANGED vars
  BY <1>5 DEF vars, KM!vars, TopicMap
<1> QED
  BY <1>1, <1>2, <1>3, <1>4, <1>5 DEF Next

(* The array of topic rows is a correct implementation of a map bounded by *)
(* E4_TOPICS_MAX, whatever the bound.                                      *)
THEOREM SymMemStoreRefinesKeyMap == Spec => RefinesKeyMap
<1>1. Init => KM!Init
  BY InitRefines
<1>2. IInv /\ [Next]_vars => [KM!Next]_(KM!vars)
  BY NextRefines
<1> QED
  BY <1>1, <1>2, SymMemStoreInvariant, PTL DEF Spec, RefinesKeyMap, KM!Spec

(* Each call of the store is its own operation on the map: set_topic_key   *)
(* and remove_topic bind and unbind the very topic they were given, for    *)
(* every table size and every set of topics and keys.                      *)
THEOREM SymMemStoreCallsRefineKeyMap == Spec => CallsRefineKeyMap
<1> DEFINE Calls ==
      /\ InitStore \/ ResetTopics => KM!Clear
      /\ \A h \in Hashes, k \in Keys :
            SetTopicKey(h, k) => KM!Bind(h, k) \/ KM!BindFull(h)
      /\ \A h \in Hashes : RemoveTopic(h) => KM!Unbind(h) \/ KM!UnbindMissing(h)
      /\ \A i \in Ids : SetId(i) => KM!Other
      /\ \A k \in Keys : SetIdKey(k) => KM!Other
<1>1. IInv => Calls
  BY ClearRefines, SetTopicKeyRefines, RemoveTopicRefines, OtherRefines
<1>2. IInv /\ [Next]_vars => [Calls]_vars
  BY <1>1
<1> QED
  BY <1>2, SymMemStoreInvariant, PTL DEF Spec, CallsRefineKeyMap

=============================================================================

---------------------------- MODULE SymMemStore ----------------------------
(***************************************************************************)
(* The symmetric-key store kept in memory, e4c_store_mem.c: the client's   *)
(* id and key, the hash of its control topic, and the table of topic keys. *)
(* One action per call that changes the store; ret is the call's result.   *)
(* The store's sync does nothing and always succeeds.                      *)
(***************************************************************************)
EXTENDS SymStore

VARIABLES
    id,         \* store->id
    key,        \* store->key
    ctrltopic,  \* store->ctrltopic
    topics,     \* store->topics and store->topiccount
    ret         \* result of the last call

vars == <<id, key, ctrltopic, topics, ret>>

-----------------------------------------------------------------------------

Init ==
    /\ id = Zero
    /\ key = Zero
    /\ ctrltopic = Zero
    /\ topics = EmptyTable
    /\ ret = E4_RESULT_OK

(* e4c_symkey_init                                                         *)
InitStore ==
    /\ id' = Zero
    /\ key' = Zero
    /\ ctrltopic' = Zero
    /\ topics' = EmptyTable
    /\ ret' = E4_RESULT_OK

(* Keeping the control topic of the previous id.                           *)
SetIdStaleTopic(i) ==
    /\ id' = i
    /\ ret' = E4_RESULT_OK
    /\ UNCHANGED <<key, ctrltopic, topics>>

(* e4c_symkey_set_id: the control topic of the new id, then the id.        *)
SetId(i) ==
    /\ ctrltopic' = TopicHash(ControlTopic(i))
    /\ id' = i
    /\ ret' = E4_RESULT_OK
    /\ UNCHANGED <<key, topics>>

(* Without the copy.                                                       *)
SetIdKeyLost(k) ==
    /\ ret' = E4_RESULT_OK
    /\ UNCHANGED <<id, key, ctrltopic, topics>>

(* e4c_symkey_set_idkey                                                    *)
SetIdKey(k) ==
    /\ key' = k
    /\ ret' = E4_RESULT_OK
    /\ UNCHANGED <<id, ctrltopic, topics>>

(* Without the test for space.                                             *)
SetTopicKeyNoSpaceCheck(h, k) ==
    /\ topics' = PutAt(topics, FirstSlot(topics, h), h, k)
    /\ ret' = E4_RESULT_OK
    /\ UNCHANGED <<id, key, ctrltopic>>

(* Keeping the first key of a topic.                                       *)
SetTopicKeyFirstWins(h, k) ==
    LET i == FirstSlot(topics, h)
    IN  /\ IF i >= E4_TOPICS_MAX
           THEN ret' = E4_ERROR_TOPICKEY_MISSING /\ UNCHANGED topics
           ELSE /\ topics' = IF i < topics.count THEN topics ELSE PutAt(topics, i, h, k)
                /\ ret' = E4_RESULT_OK
        /\ UNCHANGED <<id, key, ctrltopic>>

(* e4c_symkey_set_topic_key                                                *)
SetTopicKey(h, k) ==
    LET i == FirstSlot(topics, h)
    IN  /\ IF i >= E4_TOPICS_MAX
           THEN /\ ret' = E4_ERROR_TOPICKEY_MISSING
                /\ UNCHANGED topics
           ELSE /\ topics' = PutAt(topics, i, h, k)
                /\ ret' = E4_RESULT_OK
        /\ UNCHANGED <<id, key, ctrltopic>>

(* e4c_symkey_remove_topic                                                 *)
RemoveTopic(h) ==
    LET i == FirstSlot(topics, h)
    IN  /\ IF i < topics.count
           THEN /\ topics' = CloseGap(topics, i, topics.count, ZeroEntry)
                /\ ret' = E4_RESULT_OK
           ELSE /\ ret' = E4_ERROR_TOPICKEY_MISSING
                /\ UNCHANGED topics
        /\ UNCHANGED <<id, key, ctrltopic>>

(* e4c_symkey_reset_topics: the entries stay in the array.                 *)
ResetTopics ==
    /\ topics' = [topics EXCEPT !.count = 0]
    /\ ret' = E4_RESULT_OK
    /\ UNCHANGED <<id, key, ctrltopic>>

Next ==
    \/ InitStore
    \/ \E i \in Ids : SetId(i)
    \/ \E k \in Keys : SetIdKey(k)
    \/ \E h \in Hashes, k \in Keys : SetTopicKey(h, k)
    \/ \E h \in Hashes : RemoveTopic(h)
    \/ ResetTopics

Spec == Init /\ [][Next]_vars

-----------------------------------------------------------------------------
(* Reading the store.                                                      *)

(* e4c_symkey_gettopicindex followed by e4c_symkey_gettopickey: the key of *)
(* a topic, Zero when the table has none.                                  *)
TopicKey(t) == Lookup(topics, TopicHash(t), Zero)

(* e4c_symkey_is_device_ctrltopic, whose result 0 means yes.               *)
IsDeviceCtrlTopic(t) == ctrltopic = TopicHash(t)

-----------------------------------------------------------------------------
(* Properties.                                                             *)

(* Every field has its type; in particular topiccount never exceeds the    *)
(* array it counts.                                                        *)
TypeOK ==
    /\ id \in Ids \cup {Zero}
    /\ key \in Keys \cup {Zero}
    /\ ctrltopic \in Hashes \cup {Zero}
    /\ topics \in Table
    /\ ret \in {E4_RESULT_OK, E4_ERROR_TOPICKEY_MISSING}

(* A topic hash has at most one live row, and no live row is a zeroed one: *)
(* set_topic_key overwrites the row of a known topic instead of adding a   *)
(* second one, and remove_topic closes the gap without leaving a copy of a *)
(* row, or the row it zeroes, among the live ones.  Otherwise the key      *)
(* found by gettopicindex would survive a removal.                         *)
TopicsUnique ==
    /\ UniqueNames(topics)
    /\ \A i \in LiveSlots(topics) :
          topics.slot[i].name \in Hashes /\ topics.slot[i].key \in Keys

(* The control topic the client listens on is always that of its id.       *)
CtrlTopicOfId ==
    ctrltopic = IF id = Zero THEN Zero ELSE TopicHash(ControlTopic(id))

(* The array of rows with its linear scans, shifts and stale slots behaves *)
(* towards its callers as a bounded map from topic hashes to keys.         *)
TopicMap == [h \in Hashes |-> Lookup(topics, h, Zero)]

KM == INSTANCE KeyMap WITH
        Name <- Hashes, Key <- Keys, Capacity <- E4_TOPICS_MAX, NoKey <- Zero,
        map <- TopicMap, ok <- (ret = E4_RESULT_OK)

(* Every sequence of store calls, seen through lookups and results, is a   *)
(* behaviour of KeyMap: a call touches one topic, a failing call changes   *)
(* nothing, and E4_TOPICS_MAX is the number of topics that fit.            *)
RefinesKeyMap == KM!Spec

(* Moreover each call is the operation on the map it is named for, with    *)
(* its own arguments: set_topic_key binds the topic it was given to the    *)
(* key it was given, or refuses a new topic exactly when the table is      *)
(* full; remove_topic unbinds the topic it was given; set_id and set_idkey *)
(* do not touch the topics.                                                *)
CallsRefineKeyMap ==
    [][/\ InitStore \/ ResetTopics => KM!Clear
       /\ \A h \in Hashes, k \in Keys :
             SetTopicKey(h, k) => KM!Bind(h, k) \/ KM!BindFull(h)
       /\ \A h \in Hashes : RemoveTopic(h) => KM!Unbind(h) \/ KM!UnbindMissing(h)
       /\ \A i \in Ids : SetId(i) => KM!Other
       /\ \A k \in Keys : SetIdKey(k) => KM!Other]_vars

=============================================================================

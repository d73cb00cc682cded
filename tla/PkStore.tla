------------------------------ MODULE PkStore ------------------------------
(***************************************************************************)
(* The public-key store kept in memory, e4c_pk_store_mem.c: the client's   *)
(* id and key pair, the public key of the C2, the secret shared with it,   *)
(* which is derived from the two and cached, and the tables of topic keys  *)
(* and of the public keys of other devices.                                *)
(*                                                                         *)
(* One action per call that changes the store; ret is the call's result.   *)
(* sync does nothing and returns OK here.  The calls of the store in a     *)
(* file change the same fields in the same way: PkFileStore adds the file, *)
(* and SyncResults is what its sync can come to.                           *)
(***************************************************************************)
EXTENDS E4Proto, KeyTable

CONSTANTS
    Ids,             \* client ids
    TopicKeys,       \* symmetric keys of topics
    SecKeys,         \* Ed25519 private keys
    PubKeys,         \* Ed25519 public keys
    C2Keys,          \* X25519 public keys of the C2
    Topics,          \* names of ordinary topics
    E4_TOPICS_MAX,   \* size of the topic table
    E4_DEVICES_MAX,  \* size of the device table
    SyncResults,     \* what sync can return
    Zero             \* a zeroed field

Hashes == {TopicHash(t) : t \in Topics}
            \cup {TopicHash(ControlTopic(i)) : i \in Ids}

(* Both sizes are 100 by default.  The loop of remove_device leaves the    *)
(* array when there are more topics than device rows.                      *)
ASSUME SizeAssumption ==
    /\ {E4_TOPICS_MAX, E4_DEVICES_MAX} \subseteq Nat \ {0}
    /\ E4_TOPICS_MAX <= E4_DEVICES_MAX
ASSUME NonZeroAssumption ==
    Zero \notin Ids \cup TopicKeys \cup SecKeys \cup PubKeys \cup C2Keys \cup Hashes
ASSUME SyncAssumption ==
    {E4_ERROR_TOPICKEY_MISSING, E4_ERROR_DEVICEPK_MISSING} \cap SyncResults = {}

VARIABLES
    id, privkey, pubkey, ctrltopic,  \* the client
    c2key,                           \* store->c2key
    c2sharedkey,                     \* store->c2sharedkey
    devices, topics,                 \* the two tables
    ret,                             \* result of the last call
    foreign                          \* history: the application has set the
                                     \* secret, or init has left it there,
                                     \* and none was derived since

identity == <<id, ctrltopic, pubkey>>
secrets  == <<privkey, c2key, c2sharedkey, foreign>>
tables   == <<devices, topics>>
vars     == <<identity, secrets, tables, ret>>

ZeroEntry == [name |-> Zero, key |-> Zero]

Empty(max) == [count |-> 0, slot |-> [i \in 0 .. max - 1 |-> ZeroEntry]]

(* e4c_pubkey_c2sharedsecret_derive: SHA3 of the X25519 of the client's    *)
(* private key and the C2's public key, taken to be injective.             *)
Secret(sk, c2) == [sharedsecret |-> <<sk, c2>>]

Expected == IF privkey = Zero \/ c2key = Zero THEN Zero ELSE Secret(privkey, c2key)

Synced  == ret' \in SyncResults
Ignored == ret' = E4_RESULT_OK

-----------------------------------------------------------------------------

Init ==
    /\ id = Zero
    /\ ctrltopic = Zero
    /\ pubkey = Zero
    /\ privkey = Zero
    /\ c2key = Zero
    /\ c2sharedkey = Zero
    /\ devices = Empty(E4_DEVICES_MAX)
    /\ topics = Empty(E4_TOPICS_MAX)
    /\ ret = E4_RESULT_OK
    /\ foreign = FALSE

(* e4c_pubkey_init: the own public key, the key of the C2, the secret and  *)
(* the device table are left as they are.                                  *)
InitStore ==
    /\ id' = Zero
    /\ ctrltopic' = Zero
    /\ privkey' = Zero
    /\ topics' = Empty(E4_TOPICS_MAX)
    /\ ret' = E4_RESULT_OK
    /\ foreign' = (foreign \/ c2sharedkey # Zero)
    /\ UNCHANGED <<pubkey, c2key, c2sharedkey, devices>>

(* e4c_pubkey_set_id                                                       *)
SetId(i) ==
    /\ ctrltopic' = TopicHash(ControlTopic(i))
    /\ id' = i
    /\ ret' = E4_RESULT_OK
    /\ UNCHANGED <<pubkey, secrets, tables>>

(* e4c_pubkey_set_idpubkey                                                 *)
SetIdPubKey(k) ==
    /\ pubkey' = k
    /\ Ignored
    /\ UNCHANGED <<id, ctrltopic, secrets, tables>>

(* The secret is derived again when the other key it needs is there.       *)
DeriveStore(needed) ==
    IF needed # Zero
    THEN c2sharedkey' = Secret(privkey', c2key') /\ foreign' = FALSE
    ELSE UNCHANGED <<c2sharedkey, foreign>>

(* Keeping the secret of the old private key.                              *)
SetIdSecKeyNoDerive(k) ==
    /\ privkey' = k
    /\ Ignored
    /\ UNCHANGED <<identity, c2key, c2sharedkey, foreign, tables>>

(* e4c_pubkey_set_idseckey                                                 *)
SetIdSecKey(k) ==
    /\ privkey' = k
    /\ UNCHANGED c2key
    /\ DeriveStore(c2key)
    /\ Ignored
    /\ UNCHANGED <<identity, tables>>

(* e4c_set_c2_pubkey, as e4c_pk_store_mem.c calls it                       *)
SetC2PubKey(k) ==
    /\ c2key' = k
    /\ UNCHANGED privkey
    /\ DeriveStore(privkey)
    /\ Ignored
    /\ UNCHANGED <<identity, tables>>

(* e4c_pubkey_set_c2sharedsecret, called by the application.               *)
SetC2SharedSecret(k) ==
    /\ c2sharedkey' = k
    /\ foreign' = TRUE
    /\ ret' = E4_RESULT_OK
    /\ UNCHANGED <<identity, privkey, c2key, tables>>

(* Without the test for space.                                             *)
SetTopicKeyNoSpaceCheck(h, k) ==
    /\ topics' = PutAt(topics, FirstSlot(topics, h), h, k)
    /\ Synced
    /\ UNCHANGED <<identity, secrets, devices>>

(* e4c_pubkey_set_topic_key                                                *)
SetTopicKey(h, k) ==
    LET i == FirstSlot(topics, h)
    IN  /\ IF i >= E4_TOPICS_MAX
           THEN /\ ret' = E4_ERROR_TOPICKEY_MISSING
                /\ UNCHANGED topics
           ELSE /\ topics' = PutAt(topics, i, h, k)
                /\ Synced
        /\ UNCHANGED <<identity, secrets, devices>>

(* e4c_pubkey_remove_topic.  With a full table the row that is zeroed lies *)
(* over filepath, after which sync fails.                                  *)
RemoveTopic(h) ==
    LET i == FirstSlot(topics, h)
    IN  /\ IF i < topics.count
           THEN /\ topics' = CloseGap(topics, i, topics.count, ZeroEntry)
                /\ Synced
           ELSE /\ ret' = E4_ERROR_TOPICKEY_MISSING
                /\ UNCHANGED topics
        /\ UNCHANGED <<identity, secrets, devices>>

(* e4c_pubkey_reset_topics: the rows are zeroed too.                       *)
ResetTopics ==
    /\ topics' = Empty(E4_TOPICS_MAX)
    /\ Ignored
    /\ UNCHANGED <<identity, secrets, devices>>

(* e4c_pubkey_set_device_key                                               *)
SetDeviceKey(d, k) ==
    LET i == FirstSlot(devices, d)
    IN  /\ IF i >= E4_DEVICES_MAX
           THEN /\ ret' = E4_ERROR_DEVICEPK_MISSING
                /\ UNCHANGED devices
           ELSE /\ devices' = PutAt(devices, i, d, k)
                /\ Synced
        /\ UNCHANGED <<identity, secrets, topics>>

(* e4c_pubkey_remove_device.  The loop that moves rows up is bounded by    *)
(* topiccount.  With a full table the row that is zeroed is the first one  *)
(* of topics, which follows devices.                                       *)
RemoveDevice(d) ==
    LET i == FirstSlot(devices, d)
    IN  /\ IF i < devices.count
           THEN /\ devices' = CloseGap(devices, i, topics.count, ZeroEntry)
                /\ topics' = IF devices.count = E4_DEVICES_MAX
                             THEN [topics EXCEPT !.slot[0] = ZeroEntry] ELSE topics
                /\ Synced
           ELSE /\ ret' = E4_ERROR_DEVICEPK_MISSING
                /\ UNCHANGED tables
        /\ UNCHANGED <<identity, secrets>>

(* e4c_pubkey_reset_devices                                                *)
ResetDevices ==
    /\ devices' = Empty(E4_DEVICES_MAX)
    /\ Ignored
    /\ UNCHANGED <<identity, secrets, topics>>

Next ==
    \/ InitStore
    \/ \E i \in Ids : SetId(i)
    \/ \E k \in PubKeys : SetIdPubKey(k)
    \/ \E k \in SecKeys : SetIdSecKey(k)
    \/ \E k \in C2Keys : SetC2PubKey(k)
    \/ \E k \in TopicKeys : SetC2SharedSecret(k)
    \/ \E h \in Hashes, k \in TopicKeys : SetTopicKey(h, k)
    \/ \E h \in Hashes : RemoveTopic(h)
    \/ ResetTopics
    \/ \E d \in Ids, k \in PubKeys : SetDeviceKey(d, k)
    \/ \E d \in Ids : RemoveDevice(d)
    \/ ResetDevices

Spec == Init /\ [][Next]_vars

-----------------------------------------------------------------------------
(* Reading the store.                                                      *)

(* e4c_pubkey_gettopicindex, e4c_pubkey_gettopickey                        *)
TopicKey(t) == Lookup(topics, TopicHash(t), Zero)

(* e4c_pubkey_is_device_ctrltopic, whose result 0 means yes.               *)
IsDeviceCtrlTopic(t) == ctrltopic = TopicHash(t)

(* e4c_pubkey_getdeviceindex, e4c_pubkey_getdevicekey                      *)
DeviceKey(d) == Lookup(devices, d, Zero)

-----------------------------------------------------------------------------
(* Properties.                                                             *)

TableOf(names, keys, max) ==
    [count : 0 .. max,
     slot  : [0 .. max - 1 -> [name : names \cup {Zero}, key : keys \cup {Zero}]]]

(* Every field has its type, and neither table claims more rows than its   *)
(* array has.                                                              *)
TypeOK ==
    /\ id \in Ids \cup {Zero}
    /\ ctrltopic \in Hashes \cup {Zero}
    /\ pubkey \in PubKeys \cup {Zero}
    /\ privkey \in SecKeys \cup {Zero}
    /\ c2key \in C2Keys \cup {Zero}
    /\ devices \in TableOf(Ids, PubKeys, E4_DEVICES_MAX)
    /\ topics \in TableOf(Hashes, TopicKeys, E4_TOPICS_MAX)
    /\ foreign \in BOOLEAN

(* The secret is always the one of the current private key and the current *)
(* key of the C2, in whichever order and however often they were set, and  *)
(* there is none as long as one of them is missing, unless the application *)
(* has set it or init has left it in place.                                *)
SecretMatchesKeys == ~foreign => c2sharedkey = Expected

KM == INSTANCE KeyMap WITH
        Name <- Hashes, Key <- TopicKeys, Capacity <- E4_TOPICS_MAX, NoKey <- Zero,
        map <- [h \in Hashes |-> Lookup(topics, h, Zero)],
        ok <- (ret # E4_ERROR_TOPICKEY_MISSING)

(* As long as the device table is not filled, each call is the operation   *)
(* on a bounded map of topics it is named for, with its own arguments: no  *)
(* call on devices or keys touches a topic, a topic that is refused or     *)
(* missing changes nothing, and a sync that fails does not undo the change *)
(* in memory.                                                              *)
CallsRefineKeyMap ==
    [][/\ InitStore \/ ResetTopics => KM!Clear
       /\ \A h \in Hashes, k \in TopicKeys :
             SetTopicKey(h, k) => KM!Bind(h, k) \/ KM!BindFull(h)
       /\ \A h \in Hashes : RemoveTopic(h) => KM!Unbind(h) \/ KM!UnbindMissing(h)
       /\ \A d \in Ids, k \in PubKeys : SetDeviceKey(d, k) => KM!Other
       /\ \A d \in Ids : RemoveDevice(d) => KM!Other
       /\ ResetDevices => KM!Other]_vars

-----------------------------------------------------------------------------
(* Statements the code does not live up to.                                *)

DeviceMap == [d \in Ids |-> DeviceKey(d)]

(* remove_device removes the item and moves the list up: the device it is  *)
(* called for has no key afterwards and every other one keeps its own.     *)
RemoveDeviceUnbinds ==
    [][\A d \in Ids : RemoveDevice(d) /\ ret' # E4_ERROR_DEVICEPK_MISSING
          => DeviceMap' = [DeviceMap EXCEPT ![d] = Zero]]_vars

=============================================================================

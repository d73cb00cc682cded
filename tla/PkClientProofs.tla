--------------------------- MODULE PkClientProofs ---------------------------
(***************************************************************************)
(* The public-key client between its C2, other devices and a network that  *)
(* loses, delays, repeats and reorders: whose messages it accepts, and how *)
(* it follows a chain of rotations of its key pair.  For any number of     *)
(* devices, keys, topics, messages and rotations, any table sizes with     *)
(* E4_TOPICS_MAX <= E4_DEVICES_MAX, both builds and all options.           *)
(***************************************************************************)
EXTENDS PkClient, PkStoreProofs

(* What a message can say.                                                 *)
Bodies == Commands \cup {Data} \cup {Body("SetIdKey", Zero, k) : k \in SecKeys}

(* Plaintexts; the client is still the one that was provisioned.           *)
ClientBasics ==
    /\ TypeOK
    /\ ctrltopic = TopicHash(ctrl)
    /\ accepted \subseteq net
    /\ \A m \in net : m.body \in Bodies

(* Every row of the device table is one the C2 has certified, whichever    *)
(* rows remove_device has left there twice.                                *)
RowsCertified ==
    \A i \in LiveSlots(devices) :
       \E c \in net : /\ c.topic = ctrl
                      /\ c.body = Body("SetPubKey", devices.slot[i].name, devices.slot[i].key)

(* The rotations that were sent, and the private keys they lead to.        *)
Rotations == {m \in net : m.topic = ctrl /\ m.body.cmd = "SetIdKey"}

Issued == {FirstSecKey} \cup {m.body.key : m \in Rotations}

(* The secret of the client and the C2 for a private key.                  *)
Shared(k) == Secret(k, C2Key)

(* The C2's keys form a chain: one rotation leads on from every key but    *)
(* the last, and no two lead to the same.                                  *)
C2Chain ==
    /\ c2view \in Issued
    /\ \A m \in Rotations : \E k \in Issued \ {c2view} : m.key = Shared(k)
    /\ \A m, n \in Rotations : m.key = n.key \/ m.body.key = n.body.key => m = n
    /\ \A k \in Issued \ {c2view} : \E m \in Rotations : m.key = Shared(k)

(* The client's place on the chain: the rotations behind it are the        *)
(* accepted ones, and no other leads to its key or to one behind it.       *)
Position ==
    /\ privkey \in Issued
    /\ c2key = C2Key
    /\ c2sharedkey = Shared(privkey)
    /\ \A m \in Rotations \cap accepted : m.key # c2sharedkey
    /\ \A m \in Rotations \ accepted :
          /\ m.body.key # privkey
          /\ \A n \in Rotations \cap accepted : Shared(m.body.key) # n.key

ClientInv == ClientBasics /\ RowsCertified /\ OriginAuthentic /\ C2Chain /\ Position

-----------------------------------------------------------------------------
(* Messages.                                                               *)

(* The arguments of a command are of the types the store's calls take.     *)
LEMMA BodyKinds ==
    ASSUME NEW b \in Bodies
    PROVE  /\ b.cmd = "SetIdKey" => b.key \in SecKeys
           /\ b.cmd = "SetTopicKey" => b.name \in Hashes /\ b.key \in TopicKeys
           /\ b.cmd = "RemovePubKeyLong" => b.name \in Ids
           /\ b.cmd = "SetPubKey" => /\ b.name \in Ids
                                     /\ b.key \in PubKeys
                                     /\ b = Body("SetPubKey", b.name, b.key)
<1>0. OrdinaryHashes \subseteq Hashes /\ Peers \subseteq Ids
  BY DEF OrdinaryHashes, Hashes, Peers
<1>1. \/ \E h : b = Body("RemoveTopic", h, Zero)
      \/ \E h \in OrdinaryHashes, k \in TopicKeys : b = Body("SetTopicKey", h, k)
      \/ \E d \in Peers : b = Body("RemovePubKey", d, Zero) \/ b = Body("RemovePubKeyLong", d, Zero)
      \/ \E d \in Peers, p \in PubKeys : b = Body("SetPubKey", d, p)
      \/ b \in {Body("ResetTopics", Zero, Zero), Body("RemovePubKeys", Zero, Zero),
                Body("RemovePubKeyShort", Zero, Zero), Body("Malformed", Zero, Zero),
                Body("Data", Zero, Zero)}
      \/ \E k \in SecKeys : b = Body("SetIdKey", Zero, k)
  BY DEF Bodies, Commands, Data
<1>2. ASSUME NEW c, NEW n, NEW k, b = Body(c, n, k)
      PROVE  b.cmd = c /\ b.name = n /\ b.key = k
  BY <1>2 DEF Body
<1>3. CASE \E h : b = Body("RemoveTopic", h, Zero)
  BY <1>2, <1>3
<1>4. CASE \E h \in OrdinaryHashes, k \in TopicKeys : b = Body("SetTopicKey", h, k)
  BY <1>0, <1>2, <1>4
<1>5. CASE \E d \in Peers : b = Body("RemovePubKey", d, Zero) \/ b = Body("RemovePubKeyLong", d, Zero)
  BY <1>0, <1>2, <1>5
<1>6. CASE \E d \in Peers, p \in PubKeys : b = Body("SetPubKey", d, p)
  BY <1>0, <1>2, <1>6
<1>7. CASE b \in {Body("ResetTopics", Zero, Zero), Body("RemovePubKeys", Zero, Zero),
                  Body("RemovePubKeyShort", Zero, Zero), Body("Malformed", Zero, Zero),
                  Body("Data", Zero, Zero)}
  BY <1>2, <1>7
<1>8. CASE \E k \in SecKeys : b = Body("SetIdKey", Zero, k)
  BY <1>2, <1>8
<1> QED
  BY <1>1, <1>3, <1>4, <1>5, <1>6, <1>7, <1>8

(* Different topics have different hashes.                                 *)
LEMMA TopicHashInjective ==
    ASSUME NEW s, NEW t, TopicHash(s) = TopicHash(t)
    PROVE  s = t
<1>1. TopicHash(s).topichash = s /\ TopicHash(t).topichash = t
  BY DEF TopicHash
<1> QED
  BY <1>1

(* Different private keys share different secrets with the C2.             *)
LEMMA SharedInjective ==
    ASSUME NEW j, NEW k, Shared(j) = Shared(k)
    PROVE  j = k
<1>1. Shared(j).sharedsecret = <<j, C2Key>> /\ Shared(k).sharedsecret = <<k, C2Key>>
  BY DEF Shared, Secret
<1> QED
  BY <1>1

(* The client reaches its store through the store's calls only.            *)
LEMMA ExecuteIsCall ==
    ASSUME NEW b \in Bodies, Execute(b)
    PROVE  [Next]_vars
<1>1. CASE UNCHANGED store
  BY <1>1 DEF store
<1>2. CASE b.cmd = "RemoveTopic" /\ \E h \in Hashes : RemoveTopic(h)
  BY <1>2 DEF Next
<1>3. CASE ResetTopics \/ ResetDevices
  BY <1>3 DEF Next
<1>4. CASE b.cmd = "SetIdKey" /\ SetIdSecKey(b.key)
  BY <1>4, BodyKinds DEF Next
<1>5. CASE b.cmd = "SetTopicKey" /\ SetTopicKey(b.name, b.key)
  BY <1>5, BodyKinds DEF Next
<1>6. CASE \/ b.cmd = "RemovePubKeyLong" /\ RemoveDevice(b.name)
           \/ \E d \in Ids : RemoveDevice(d)
  BY <1>6, BodyKinds DEF Next
<1>7. CASE b.cmd = "SetPubKey" /\ SetDeviceKey(b.name, b.key)
  BY <1>7, BodyKinds DEF Next
<1> QED
  BY <1>1, <1>2, <1>3, <1>4, <1>5, <1>6, <1>7 DEF Execute

(* What a command does to the key pair: only SetIdKey changes it, and the  *)
(* secret with it.                                                         *)
LEMMA ExecuteKeys ==
    ASSUME Position, NEW b \in Bodies, Execute(b)
    PROVE  /\ UNCHANGED <<ctrltopic, c2key>>
           /\ b.cmd = "SetIdKey" => /\ privkey' = b.key
                                    /\ c2sharedkey' = Shared(b.key)
                                    /\ res' = E4_RESULT_OK_CONTROL
           /\ b.cmd # "SetIdKey" => UNCHANGED <<privkey, c2sharedkey>>
<1>1. CASE b.cmd \in {"Malformed", "RemovePubKey"} /\ UNCHANGED store
  BY <1>1 DEF store, vars, identity, secrets
<1>2. CASE b.cmd = "RemoveTopic" /\ \E h \in Hashes : RemoveTopic(h)
  BY <1>2 DEF RemoveTopic, identity, secrets
<1>3. CASE \/ b.cmd = "ResetTopics" /\ ResetTopics
           \/ b.cmd = "RemovePubKeys" /\ ResetDevices
  BY <1>3 DEF ResetTopics, ResetDevices, identity, secrets
<1>4. CASE /\ b.cmd = "SetIdKey" /\ SetIdSecKey(b.key)
           /\ res' = IF ret' = E4_RESULT_OK THEN E4_RESULT_OK_CONTROL ELSE ret'
  <2>1. c2key # Zero
    BY NonZeroAssumption, ClientAssumption DEF Position
  <2>2. /\ UNCHANGED <<ctrltopic, c2key>> /\ privkey' = b.key
        /\ c2sharedkey' = Secret(privkey', c2key')
        /\ ret' = E4_RESULT_OK
    BY <1>4, <2>1 DEF SetIdSecKey, DeriveStore, Ignored, identity
  <2> QED
    BY <1>4, <2>2 DEF Position, Shared
<1>5. CASE b.cmd = "SetTopicKey" /\ SetTopicKey(b.name, b.key)
  BY <1>5 DEF SetTopicKey, identity, secrets
<1>6. CASE \/ b.cmd = "RemovePubKeyLong" /\ RemoveDevice(b.name)
           \/ b.cmd = "RemovePubKeyShort" /\ \E d \in Ids : RemoveDevice(d)
  BY <1>6 DEF RemoveDevice, identity, secrets
<1>7. CASE b.cmd = "SetPubKey" /\ SetDeviceKey(b.name, b.key)
  BY <1>7 DEF SetDeviceKey, identity, secrets
<1> QED
  BY <1>1, <1>2, <1>3, <1>4, <1>5, <1>6, <1>7 DEF Execute

(* What a command does to the device table: only SetPubKey brings in a     *)
(* row, its own; remove_device moves rows but makes none.                  *)
LEMMA ExecuteRows ==
    ASSUME TypeOK, NEW b \in Bodies, Execute(b)
    PROVE  \A j \in LiveSlots(devices') :
              \/ \E l \in LiveSlots(devices) : devices'.slot[j] = devices.slot[l]
              \/ /\ b.cmd = "SetPubKey"
                 /\ devices'.slot[j] = [name |-> b.name, key |-> b.key]
<1> DEFINE E == Rows(Ids, PubKeys)
<1>0. /\ devices \in Tables(E4_DEVICES_MAX, E)
      /\ E4_DEVICES_MAX \in Nat /\ ZeroEntry \in E
      /\ topics.count \in 0 .. E4_DEVICES_MAX
  <2>1. devices \in Tables(E4_DEVICES_MAX, E)
    BY TableOfIsTables DEF TypeOK
  <2>2. ZeroEntry \in E
    BY DEF ZeroEntry, Rows
  <2>3. topics.count \in 0 .. E4_DEVICES_MAX /\ E4_DEVICES_MAX \in Nat
    BY SizeAssumption DEF TypeOK, TableOf
  <2> QED
    BY <2>1, <2>2, <2>3
<1>1. CASE UNCHANGED devices
  BY <1>1
<1>2. CASE b.cmd = "RemoveTopic" /\ \E h \in Hashes : RemoveTopic(h)
  BY <1>1, <1>2 DEF RemoveTopic
<1>3. CASE ResetDevices
  <2>1. LiveSlots(devices') = {}
    BY <1>3 DEF ResetDevices, Empty, LiveSlots
  <2> QED
    BY <2>1
<1>4. ASSUME NEW d, RemoveDevice(d)
      PROVE  \A j \in LiveSlots(devices') :
                \E l \in LiveSlots(devices) : devices'.slot[j] = devices.slot[l]
  <2>1. CASE FirstSlot(devices, d) < devices.count
    <3>1. devices' = CloseGap(devices, FirstSlot(devices, d), topics.count, ZeroEntry)
      BY <1>4, <2>1 DEF RemoveDevice
    <3>2. \A j \in LiveSlots(devices') :
             \E l \in LiveSlots(devices) : devices'.slot[j] = devices.slot[l]
      BY <1>0, <2>1, <3>1, GapRowsUpTo
    <3> QED
      BY <3>2
  <2>2. CASE ~(FirstSlot(devices, d) < devices.count)
    BY <1>1, <1>4, <2>2 DEF RemoveDevice, tables
  <2> QED
    BY <2>1, <2>2
<1>5. CASE b.cmd = "SetPubKey" /\ SetDeviceKey(b.name, b.key)
  <2> DEFINE i == FirstSlot(devices, b.name)
  <2>1. CASE i >= E4_DEVICES_MAX
    BY <1>1, <1>5, <2>1 DEF SetDeviceKey
  <2>2. CASE ~(i >= E4_DEVICES_MAX)
    <3>1. devices' = PutAt(devices, i, b.name, b.key)
      BY <1>5, <2>2 DEF SetDeviceKey
    <3>2. i \in 0 .. devices.count /\ devices.count \in Nat
      BY <1>0, ScanFirst DEF Tables
    <3>3. i < E4_DEVICES_MAX
      BY <1>0, <2>2, <3>2
    <3>4. [name |-> b.name, key |-> b.key] \in E
      BY <1>5, BodyKinds DEF Rows
    <3>5. \A j \in LiveSlots(devices') :
             \/ devices'.slot[j] = [name |-> b.name, key |-> b.key]
             \/ \E l \in LiveSlots(devices) : devices'.slot[j] = devices.slot[l]
      BY <1>0, <3>1, <3>3, <3>4, PutRows
    <3> QED
      BY <1>5, <3>5
  <2> QED
    BY <2>1, <2>2
<1>6. CASE UNCHANGED store
  BY <1>1, <1>6 DEF store, vars, tables
<1>7. CASE ResetTopics \/ SetIdSecKey(b.key) \/ SetTopicKey(b.name, b.key)
  BY <1>1, <1>7 DEF ResetTopics, SetIdSecKey, SetTopicKey, tables
<1> QED
  BY <1>2, <1>3, <1>4, <1>5, <1>6, <1>7 DEF Execute

-----------------------------------------------------------------------------
(* The steps, by what they do to the invariant.                            *)

(* Nothing happens to the client.                                          *)
ClientStays == UNCHANGED <<store, accepted, unsigned>>

(* A message that is not a rotation is sent.                               *)
Sends(m) ==
    /\ net' = net \cup {m}
    /\ m.body \in Bodies /\ m.body.cmd # "SetIdKey"
    /\ ClientStays /\ UNCHANGED c2view

(* The C2 moves on to private key k.                                       *)
Rotates(k) ==
    /\ k \in SecKeys \ Issued
    /\ net' = net \cup {C2Msg(c2view, Body("SetIdKey", Zero, k))}
    /\ c2view' = k
    /\ ClientStays

(* Every step is a message, a rotation, a step without effect on the       *)
(* invariant, or a delivery.                                               *)
LEMMA StepKinds ==
    ASSUME [ClientNext]_all
    PROVE  \/ \E m : Sends(m)
           \/ \E k : Rotates(k)
           \/ ClientStays /\ UNCHANGED <<net, c2view>>
           \/ \E m \in net, opts \in Options : Unprotect(m, opts)
<1>1. CASE \/ Tick \/ ClockTick \/ (\E t \in RTCDates : SetClock(t)) \/ RefuseCall
           \/ \E t \in Topics, n \in 0 .. 1 : Protect(t, n)
  BY <1>1 DEF Tick, ClockTick, SetClock, RefuseCall, Protect, ClientStays, history
<1>2. ASSUME NEW b \in Commands, C2Command(b) PROVE \E m : Sends(m)
  <2> DEFINE m == C2Msg(c2view, b)
  <2>1. m.body = b
    BY DEF C2Msg
  <2>2. b \in Bodies /\ b.cmd # "SetIdKey"
    BY DEF Bodies, Commands, Body
  <2>3. net' = net \cup {m} /\ ClientStays /\ UNCHANGED c2view
    BY <1>2 DEF C2Command, Send, ClientStays, history
  <2> HIDE DEF m
  <2>4. Sends(m)
    BY <2>1, <2>2, <2>3 DEF Sends
  <2> QED
    BY <2>4
<1>3. ASSUME NEW k \in SecKeys, C2Rotate(k) PROVE Rotates(k)
  <2>1. k \notin Issued
    BY <1>3 DEF C2Rotate, Issued, Rotations
  <2> QED
    BY <1>3, <2>1 DEF C2Rotate, Rotates, Send, ClientStays, history
<1>4. ASSUME NEW t \in Topics, NEW d \in Peers, NEW p \in PubKeys, NEW k \in TopicKeys,
             PeerSend(t, d, p, k)
      PROVE  \E m : Sends(m)
  <2> DEFINE m == PeerMsg(t, d, p, k)
  <2>1. m.body = Data /\ Data \in Bodies /\ Data.cmd # "SetIdKey"
    BY DEF PeerMsg, Bodies, Data, Body
  <2>2. net' = net \cup {m} /\ ClientStays /\ UNCHANGED c2view
    BY <1>4 DEF PeerSend, Send, ClientStays, history
  <2> HIDE DEF m
  <2>3. Sends(m)
    BY <2>1, <2>2 DEF Sends
  <2> QED
    BY <2>3
<1>5. CASE UNCHANGED all
  BY <1>5 DEF all, ClientStays, history
<1> QED
  BY <1>1, <1>2, <1>3, <1>4, <1>5 DEF ClientNext, ClientStep

(* What a message has passed that is taken for another device's.           *)
LEMMA OpenOk ==
    ASSUME NEW m, NEW opts, Open(m, opts) = E4_RESULT_OK
    PROVE  /\ IsDeviceCtrlTopic(m.topic) => m.key = c2sharedkey
           /\ ~IsDeviceCtrlTopic(m.topic) /\ m.from \in Names(devices) =>
                 m.sig = DeviceKey(m.from)
  BY DEF Open, E4_RESULT_OK, E4_ERROR_PERSISTENCE_ERROR, E4_ERROR_INVALID_TAG,
         E4_ERROR_PK_SIGVERIF_FAILED, E4_ERROR_DEVICEPK_MISSING, E4_ERROR_TOPICKEY_MISSING

(* A message is refused, taken for data, or carried out as a command.      *)
LEMMA UnprotectKinds ==
    ASSUME ClientInv, NEW m \in net, NEW opts, Unprotect(m, opts)
    PROVE  /\ UNCHANGED <<net, c2view>>
           /\ \/ ClientStays
              \/ /\ m.topic # ctrl
                 /\ m.from \in Names(devices) => m.sig = DeviceKey(m.from)
                 /\ UNCHANGED store
                 /\ accepted' = accepted \cup {m}
                 /\ unsigned' = IF m.from \notin Names(devices)
                                THEN unsigned \cup {m} ELSE unsigned
              \/ /\ m.topic = ctrl
                 /\ m.key = c2sharedkey
                 /\ Execute(m.body)
                 /\ \/ UNCHANGED accepted /\ res' # E4_RESULT_OK_CONTROL
                    \/ accepted' = accepted \cup {m}
                 /\ UNCHANGED unsigned
<1>1. UNCHANGED <<net, c2view>>
  BY DEF Unprotect
<1>2. ctrltopic = TopicHash(ctrl)
  BY DEF ClientInv, ClientBasics
<1>3. CASE UNCHANGED <<store, secs1970, history>>
  BY <1>1, <1>3 DEF ClientStays, history
<1>4. CASE /\ Open(m, opts) = E4_RESULT_OK
           /\ ~IsDeviceCtrlTopic(m.topic)
           /\ res' = E4_RESULT_OK
           /\ Record(m)
           /\ UNCHANGED <<store, secs1970>>
  <2>1. m.topic # ctrl
    BY <1>2, <1>4 DEF IsDeviceCtrlTopic
  <2>2. m.from \in Names(devices) => m.sig = DeviceKey(m.from)
    BY <1>4, OpenOk
  <2>3. /\ accepted' = accepted \cup {m}
        /\ unsigned' = IF m.from \notin Names(devices) THEN unsigned \cup {m} ELSE unsigned
    BY <1>4, <2>1 DEF Record
  <2> QED
    BY <1>1, <1>4, <2>1, <2>2, <2>3
<1>5. CASE /\ Open(m, opts) = E4_RESULT_OK
           /\ IsDeviceCtrlTopic(m.topic)
           /\ Execute(m.body)
           /\ Record(m)
  <2>1. m.topic = ctrl
    BY <1>2, <1>5, TopicHashInjective DEF IsDeviceCtrlTopic
  <2>2. m.key = c2sharedkey
    BY <1>5, OpenOk
  <2>3. /\ \/ UNCHANGED accepted /\ res' # E4_RESULT_OK_CONTROL
           \/ accepted' = accepted \cup {m}
        /\ UNCHANGED unsigned
    BY <1>5, <2>1 DEF Record, history
  <2> QED
    BY <1>1, <1>5, <2>1, <2>2, <2>3
<1> QED
  BY <1>3, <1>4, <1>5 DEF Unprotect

-----------------------------------------------------------------------------
(* The store and the device table.                                         *)

(* Every step of the client is a call of its store, or leaves it alone.    *)
LEMMA StoreStep ==
    ASSUME ClientInv, [ClientNext]_all
    PROVE  [Next]_vars
<1>1. CASE ClientStays
  BY <1>1 DEF ClientStays, store
<1>2. (\E m : Sends(m)) \/ (\E k : Rotates(k)) => ClientStays
  BY DEF Sends, Rotates
<1>3. ASSUME NEW m \in net, NEW opts \in Options, Unprotect(m, opts) PROVE [Next]_vars
  <2>1. m.body \in Bodies
    BY DEF ClientInv, ClientBasics
  <2>2. CASE UNCHANGED store
    BY <2>2 DEF store
  <2>3. CASE Execute(m.body)
    BY <2>1, <2>3, ExecuteIsCall
  <2> QED
    BY <1>1, <1>3, <2>2, <2>3, UnprotectKinds
<1> QED
  BY <1>1, <1>2, <1>3, StepKinds

(* Types are kept, and the client's id.                                    *)
LEMMA BasicsNext ==
    ASSUME ClientInv, [ClientNext]_all
    PROVE  ClientBasics'
<1>0. ClientBasics /\ Position
  BY DEF ClientInv
<1>1. TypeOK'
  BY <1>0, StoreStep, NextType DEF ClientBasics
<1>2. CASE ClientStays /\ UNCHANGED net
  BY <1>0, <1>1, <1>2 DEF ClientBasics, ClientStays, store, vars, identity
<1>3. ASSUME NEW m, Sends(m) PROVE ClientBasics'
  BY <1>0, <1>1, <1>3 DEF ClientBasics, Sends, ClientStays, store, vars, identity
<1>4. ASSUME NEW k, Rotates(k) PROVE ClientBasics'
  <2> DEFINE m == C2Msg(c2view, Body("SetIdKey", Zero, k))
  <2>1. m.body = Body("SetIdKey", Zero, k)
    BY DEF C2Msg
  <2>2. m.body \in Bodies
    BY <1>4, <2>1 DEF Bodies, Rotates
  <2>3. net' = net \cup {m} /\ ClientStays
    BY <1>4 DEF Rotates
  <2> HIDE DEF m
  <2> QED
    BY <1>0, <1>1, <2>2, <2>3 DEF ClientBasics, ClientStays, store, vars, identity
<1>5. ASSUME NEW m \in net, NEW opts \in Options, Unprotect(m, opts) PROVE ClientBasics'
  <2>1. UNCHANGED net /\ accepted' \subseteq accepted \cup {m}
    BY <1>5, UnprotectKinds DEF ClientStays
  <2>2. UNCHANGED ctrltopic
    <3>1. CASE UNCHANGED store
      BY <3>1 DEF store, vars, identity
    <3>2. CASE Execute(m.body)
      BY <1>0, <3>2, ExecuteKeys DEF ClientBasics
    <3> QED
      BY <1>5, <3>1, <3>2, UnprotectKinds DEF ClientStays
  <2> QED
    BY <1>0, <1>1, <2>1, <2>2 DEF ClientBasics
<1> QED
  BY <1>2, <1>3, <1>4, <1>5, StepKinds

(* A row of the device table stays one that the C2 has certified.          *)
LEMMA RowsNext ==
    ASSUME ClientInv, [ClientNext]_all
    PROVE  RowsCertified'
<1>0. RowsCertified
  BY DEF ClientInv
<1>1. CASE net \subseteq net' /\ UNCHANGED devices
  BY <1>0, <1>1 DEF RowsCertified
<1>2. ClientStays => UNCHANGED devices
  BY DEF ClientStays, store, vars, tables
<1>3. (\E m : Sends(m)) \/ (\E k : Rotates(k)) => net \subseteq net' /\ ClientStays
  BY DEF Sends, Rotates
<1>4. ASSUME NEW m \in net, NEW opts \in Options, Unprotect(m, opts), devices' # devices
      PROVE  RowsCertified'
  <2>1. m.topic = ctrl /\ Execute(m.body) /\ net' = net /\ m.body \in Bodies
    <3>1. UNCHANGED store => UNCHANGED devices
      BY DEF store, vars, tables
    <3>2. m.body \in Bodies
      BY DEF ClientInv, ClientBasics
    <3> QED
      BY <1>2, <1>4, <3>1, <3>2, UnprotectKinds
  <2> SUFFICES ASSUME NEW j \in LiveSlots(devices')
               PROVE  \E c \in net : /\ c.topic = ctrl
                                     /\ c.body = Body("SetPubKey", devices'.slot[j].name,
                                                                   devices'.slot[j].key)
    BY <2>1 DEF RowsCertified
  <2>2. \/ \E l \in LiveSlots(devices) : devices'.slot[j] = devices.slot[l]
        \/ /\ m.body.cmd = "SetPubKey"
           /\ devices'.slot[j] = [name |-> m.body.name, key |-> m.body.key]
    BY <2>1, ExecuteRows DEF ClientInv, ClientBasics
  <2>3. CASE \E l \in LiveSlots(devices) : devices'.slot[j] = devices.slot[l]
    <3>1. PICK l \in LiveSlots(devices) : devices'.slot[j] = devices.slot[l]
      BY <2>3
    <3> QED
      BY <1>0, <3>1 DEF RowsCertified
  <2>4. CASE /\ m.body.cmd = "SetPubKey"
             /\ devices'.slot[j] = [name |-> m.body.name, key |-> m.body.key]
    <3>1. devices'.slot[j].name = m.body.name /\ devices'.slot[j].key = m.body.key
      BY <2>4
    <3>2. m.body = Body("SetPubKey", m.body.name, m.body.key)
      BY <2>1, <2>4, BodyKinds
    <3> QED
      BY <2>1, <3>1, <3>2
  <2> QED
    BY <2>2, <2>3, <2>4
<1>5. ASSUME NEW m \in net, NEW opts \in Options, Unprotect(m, opts)
      PROVE  net \subseteq net'
  BY <1>5, UnprotectKinds
<1> QED
  BY <1>1, <1>2, <1>3, <1>4, <1>5, StepKinds

(* The signature of a known sender verifies under its first row's key,     *)
(* which is a certified one.                                               *)
LEMMA OriginNext ==
    ASSUME ClientInv, [ClientNext]_all
    PROVE  OriginAuthentic'
<1>0. OriginAuthentic /\ RowsCertified
  BY DEF ClientInv
<1>1. CASE net \subseteq net' /\ UNCHANGED <<accepted, unsigned>>
  BY <1>0, <1>1 DEF OriginAuthentic
<1>2. (\E m : Sends(m)) \/ (\E k : Rotates(k)) => net \subseteq net' /\ ClientStays
  BY DEF Sends, Rotates
<1>3. ASSUME NEW m \in net, NEW opts \in Options, Unprotect(m, opts)
      PROVE  OriginAuthentic'
  <2>0. UNCHANGED net
    BY <1>3, UnprotectKinds
  <2>1. CASE ClientStays
    BY <1>1, <2>0, <2>1 DEF ClientStays
  <2>2. CASE /\ m.from \in Names(devices) => m.sig = DeviceKey(m.from)
             /\ accepted' = accepted \cup {m}
             /\ unsigned' = IF m.from \notin Names(devices) THEN unsigned \cup {m} ELSE unsigned
    <3>1. CASE m.from \notin Names(devices)
      BY <1>0, <2>0, <2>2, <3>1 DEF OriginAuthentic
    <3>2. CASE m.from \in Names(devices)
      <4>1. devices.count \in Nat
        BY SizeAssumption DEF ClientInv, ClientBasics, TypeOK, TableOf
      <4> DEFINE i == FirstSlot(devices, m.from)
      <4>2. i \in LiveSlots(devices) /\ devices.slot[i].name = m.from
        BY <3>2, <4>1, ScanFirst
      <4>3. m.sig = devices.slot[i].key
        BY <2>2, <3>2 DEF DeviceKey, Lookup
      <4>4. \E c \in net : c.topic = ctrl /\ c.body = Body("SetPubKey", m.from, m.sig)
        BY <1>0, <4>2, <4>3 DEF RowsCertified
      <4> QED
        BY <1>0, <2>0, <2>2, <3>2, <4>4 DEF OriginAuthentic
    <3> QED
      BY <3>1, <3>2
  <2>3. CASE m.topic = ctrl /\ accepted' \subseteq accepted \cup {m} /\ UNCHANGED unsigned
    BY <1>0, <2>0, <2>3 DEF OriginAuthentic
  <2> QED
    BY <1>3, <2>1, <2>2, <2>3, UnprotectKinds
<1> QED
  BY <1>1, <1>2, <1>3, StepKinds DEF ClientStays

-----------------------------------------------------------------------------
(* The chain of key pairs.                                                 *)

(* The rotations are the same when nothing is sent, or no rotation.        *)
LEMMA SameRotations ==
    ASSUME net' = net \/ \E m : Sends(m)
    PROVE  Rotations' = Rotations /\ Issued' = Issued
<1>1. Rotations' = Rotations
  BY DEF Rotations, Sends
<1> QED
  BY <1>1 DEF Issued

(* The message of a rotation, and the rotations after it.                  *)
LEMMA RotatesKinds ==
    ASSUME ClientInv, NEW k, Rotates(k)
    PROVE  \E r : /\ r.key = Shared(c2view) /\ r.body.key = k
                  /\ Rotations' = Rotations \cup {r}
                  /\ r \notin Rotations /\ r \notin accepted
                  /\ Issued' = Issued \cup {k}
<1> DEFINE r == C2Msg(c2view, Body("SetIdKey", Zero, k))
<1>1. /\ r.topic = ctrl /\ r.body.cmd = "SetIdKey"
      /\ r.key = Shared(c2view) /\ r.body.key = k
  BY DEF C2Msg, Body, Shared
<1>2. net' = net \cup {r}
  BY DEF Rotates
<1> HIDE DEF r
<1>3. Rotations' = Rotations \cup {r}
  BY <1>1, <1>2 DEF Rotations
<1>4. r \notin Rotations
  BY <1>1 DEF Rotates, Issued
<1>5. r \notin accepted
  BY <1>1, <1>4 DEF ClientInv, ClientBasics, Rotations
<1>6. Issued' = Issued \cup {k}
  BY <1>1, <1>3 DEF Issued
<1> QED
  BY <1>1, <1>3, <1>4, <1>5, <1>6

(* The C2's keys stay a chain: a rotation starts from the last key and     *)
(* leads to one that was never used.                                       *)
LEMMA ChainNext ==
    ASSUME ClientInv, [ClientNext]_all
    PROVE  C2Chain'
<1>0. C2Chain
  BY DEF ClientInv
<1>1. CASE Rotations' = Rotations /\ Issued' = Issued /\ UNCHANGED c2view
  BY <1>0, <1>1 DEF C2Chain
<1>2. ASSUME NEW k, Rotates(k) PROVE C2Chain'
  <2>1. PICK r : /\ r.key = Shared(c2view) /\ r.body.key = k
                 /\ Rotations' = Rotations \cup {r}
                 /\ r \notin Rotations /\ r \notin accepted
                 /\ Issued' = Issued \cup {k}
    BY <1>2, RotatesKinds
  <2>2. k \notin Issued /\ c2view' = k
    BY <1>2 DEF Rotates
  <2>3. c2view \in Issued /\ c2view \in Issued' \ {c2view'}
    BY <1>0, <2>1, <2>2 DEF C2Chain
  <2>4. ASSUME NEW m \in Rotations' PROVE \E j \in Issued' \ {c2view'} : m.key = Shared(j)
    <3>1. CASE m \in Rotations
      <4>1. PICK j \in Issued \ {c2view} : m.key = Shared(j)
        BY <1>0, <3>1 DEF C2Chain
      <4>2. j \in Issued' \ {c2view'}
        BY <2>1, <2>2
      <4> QED
        BY <4>1, <4>2
    <3>2. CASE m = r
      BY <2>1, <2>3, <3>2
    <3> QED
      BY <2>1, <3>1, <3>2
  <2>5. ASSUME NEW m \in Rotations PROVE m.key # r.key /\ m.body.key # r.body.key
    <3>1. PICK j \in Issued \ {c2view} : m.key = Shared(j)
      BY <1>0 DEF C2Chain
    <3>2. m.key # r.key
      BY <2>1, <3>1, SharedInjective
    <3>3. m.body.key \in Issued
      BY DEF Issued
    <3> QED
      BY <2>1, <2>2, <3>2, <3>3
  <2>6. \A m, n \in Rotations' : m.key = n.key \/ m.body.key = n.body.key => m = n
    BY <1>0, <2>1, <2>5 DEF C2Chain
  <2>7. ASSUME NEW j \in Issued' \ {c2view'} PROVE \E m \in Rotations' : m.key = Shared(j)
    <3>1. CASE j = c2view
      BY <2>1, <3>1
    <3>2. CASE j # c2view
      <4>1. j \in Issued \ {c2view}
        BY <2>1, <2>2, <3>2
      <4>2. \E m \in Rotations : m.key = Shared(j)
        BY <1>0, <4>1 DEF C2Chain
      <4> QED
        BY <2>1, <4>2
    <3> QED
      BY <3>1, <3>2
  <2>8. Shared(c2view)' = Shared(c2view') /\ c2view' \in Issued'
    BY <2>1, <2>2 DEF Shared, Secret
  <2> QED
    BY <2>4, <2>6, <2>7, <2>8 DEF C2Chain
<1>3. ASSUME NEW m, Sends(m)
      PROVE  Rotations' = Rotations /\ Issued' = Issued /\ UNCHANGED c2view
  BY <1>3, SameRotations DEF Sends
<1>4. ASSUME NEW m \in net, NEW opts \in Options, Unprotect(m, opts)
      PROVE  Rotations' = Rotations /\ Issued' = Issued /\ UNCHANGED c2view
  BY <1>4, UnprotectKinds, SameRotations
<1> QED
  BY <1>1, <1>2, <1>3, <1>4, StepKinds, SameRotations

(* The client stays on the chain: a rotation it carries out is the next    *)
(* one.                                                                    *)
LEMMA PositionNext ==
    ASSUME ClientInv, [ClientNext]_all
    PROVE  Position'
<1>0. C2Chain /\ Position /\ accepted \subseteq net
  BY DEF ClientInv, ClientBasics
<1> DEFINE Keeps == UNCHANGED <<privkey, c2key, c2sharedkey>>
<1>1. CASE /\ Rotations' = Rotations /\ Issued' = Issued /\ Keeps
           /\ Rotations \cap accepted' = Rotations \cap accepted
  <2>1. Rotations \ accepted' = Rotations \ accepted
    BY <1>1
  <2> QED
    BY <1>0, <1>1, <2>1 DEF Position, Shared, Secret
<1>2. UNCHANGED store => Keeps
  BY DEF store, vars, secrets
<1>3. ASSUME NEW k, Rotates(k) PROVE Position'
  <2>1. PICK r : /\ r.key = Shared(c2view) /\ r.body.key = k
                 /\ Rotations' = Rotations \cup {r}
                 /\ r \notin Rotations /\ r \notin accepted
                 /\ Issued' = Issued \cup {k}
    BY <1>3, RotatesKinds
  <2>2. k \notin Issued /\ Keeps /\ accepted' = accepted
    BY <1>2, <1>3 DEF Rotates, ClientStays
  <2>3. /\ Rotations' \cap accepted' = Rotations \cap accepted
        /\ Rotations' \ accepted' = (Rotations \ accepted) \cup {r}
    BY <2>1, <2>2
  <2>4. r.body.key # privkey
    BY <1>0, <2>1, <2>2 DEF Position
  <2>5. ASSUME NEW n \in Rotations PROVE Shared(r.body.key) # n.key
    <3>1. PICK j \in Issued \ {c2view} : n.key = Shared(j)
      BY <1>0 DEF C2Chain
    <3> QED
      BY <2>1, <2>2, <3>1, SharedInjective
  <2>6. \A m \in Rotations' \ accepted' :
           m.body.key # privkey /\ \A n \in Rotations \cap accepted : Shared(m.body.key) # n.key
    BY <1>0, <2>3, <2>4, <2>5 DEF Position
  <2> QED
    BY <1>0, <2>1, <2>2, <2>3, <2>6 DEF Position, Shared, Secret
<1>4. ASSUME NEW m \in net, NEW opts \in Options, Unprotect(m, opts) PROVE Position'
  <2>0. Rotations' = Rotations /\ Issued' = Issued
    BY <1>4, UnprotectKinds, SameRotations
  <2>1. CASE ClientStays
    BY <1>1, <1>2, <2>0, <2>1 DEF ClientStays
  <2>2. CASE m.topic # ctrl /\ UNCHANGED store /\ accepted' = accepted \cup {m}
    <3>1. m \notin Rotations
      BY <2>2 DEF Rotations
    <3> QED
      BY <1>1, <1>2, <2>0, <2>2, <3>1
  <2>3. CASE /\ m.topic = ctrl /\ m.key = c2sharedkey /\ Execute(m.body)
             /\ \/ UNCHANGED accepted /\ res' # E4_RESULT_OK_CONTROL
                \/ accepted' = accepted \cup {m}
    <3>0. m.body \in Bodies
      BY DEF ClientInv, ClientBasics
    <3>1. CASE m.body.cmd # "SetIdKey"
      <4>1. Keeps
        BY <1>0, <2>3, <3>0, <3>1, ExecuteKeys
      <4>2. m \notin Rotations
        BY <3>1 DEF Rotations
      <4> QED
        BY <1>1, <2>0, <2>3, <4>1, <4>2
    <3>2. CASE m.body.cmd = "SetIdKey"
      <4>1. /\ UNCHANGED c2key /\ privkey' = m.body.key /\ c2sharedkey' = Shared(m.body.key)
            /\ res' = E4_RESULT_OK_CONTROL
        BY <1>0, <2>3, <3>0, <3>2, ExecuteKeys
      <4>2. accepted' = accepted \cup {m} /\ m \in Rotations
        BY <2>3, <3>2, <4>1 DEF Rotations
      <4>3. m \notin accepted
        BY <1>0, <2>3, <4>2 DEF Position
      <4>4. /\ Rotations \cap accepted' = (Rotations \cap accepted) \cup {m}
            /\ Rotations \ accepted' = (Rotations \ accepted) \ {m}
        BY <4>2
      <4>5. privkey' \in Issued' /\ c2key' = C2Key /\ c2sharedkey' = Shared(privkey')
        BY <1>0, <2>0, <4>1, <4>2 DEF Position, Issued
      <4>6. \A n \in Rotations \cap accepted : n.key # c2sharedkey'
        BY <1>0, <4>1, <4>2, <4>3 DEF Position
      <4>7. m.key # c2sharedkey'
        <5>1. m.body.key # privkey
          BY <1>0, <4>2, <4>3 DEF Position
        <5>2. m.key = Shared(privkey)
          BY <1>0, <2>3 DEF Position
        <5> QED
          BY <4>1, <5>1, <5>2, SharedInjective
      <4>8. ASSUME NEW n \in Rotations \ accepted'
            PROVE  /\ n.body.key # privkey'
                   /\ \A a \in Rotations \cap accepted' : Shared(n.body.key) # a.key
        <5>1. n \in Rotations \ accepted /\ n # m
          BY <4>4
        <5>2. n.body.key # m.body.key
          BY <1>0, <4>2, <5>1 DEF C2Chain
        <5>3. Shared(n.body.key) # m.key
          <6>1. n.body.key # privkey
            BY <1>0, <5>1 DEF Position
          <6>2. m.key = Shared(privkey)
            BY <1>0, <2>3 DEF Position
          <6> QED
            BY <6>1, <6>2, SharedInjective
        <5> QED
          BY <1>0, <4>1, <4>4, <5>1, <5>2, <5>3 DEF Position
      <4> QED
        BY <2>0, <4>4, <4>5, <4>6, <4>7, <4>8 DEF Position, Shared, Secret
    <3> QED
      BY <3>1, <3>2
  <2> QED
    BY <1>4, <2>1, <2>2, <2>3, UnprotectKinds
<1>5. ASSUME NEW m, Sends(m) PROVE Position'
  BY <1>1, <1>2, <1>5, SameRotations DEF Sends, ClientStays
<1>6. CASE ClientStays /\ UNCHANGED net
  BY <1>1, <1>2, <1>6, SameRotations DEF ClientStays
<1> QED
  BY <1>3, <1>4, <1>5, <1>6, StepKinds

-----------------------------------------------------------------------------
(* The theorems.                                                           *)

(* The client is provisioned with the C2's key and its own.                *)
LEMMA InitClient == ClientInit => ClientInv
<1> SUFFICES ASSUME ClientInit PROVE ClientInv
  OBVIOUS
<1>1. /\ devices \in TableOf(Ids, PubKeys, E4_DEVICES_MAX)
      /\ topics \in TableOf(Hashes, TopicKeys, E4_TOPICS_MAX)
  BY EmptyTable, SizeAssumption DEF ClientInit
<1>2. TypeOK
  BY <1>1, ClientAssumption DEF ClientInit, TypeOK, Hashes, ctrl
<1>3. ClientBasics
  BY <1>2 DEF ClientInit, ClientBasics
<1>4. LiveSlots(devices) = {}
  BY DEF ClientInit, Empty, LiveSlots
<1>5. RowsCertified /\ OriginAuthentic
  BY <1>4 DEF ClientInit, RowsCertified, OriginAuthentic
<1>6. Rotations = {} /\ Issued = {FirstSecKey}
  BY DEF ClientInit, Rotations, Issued
<1>7. C2Chain /\ Position
  BY <1>6 DEF ClientInit, C2Chain, Position, Shared
<1> QED
  BY <1>3, <1>5, <1>7 DEF ClientInv

(* The inductive invariant: plaintexts, the origin of every row of the     *)
(* device table, the chain of key pairs and the client's place on it.      *)
THEOREM PkClientInvariant == ClientSpec => []ClientInv
<1>1. ClientInv /\ [ClientNext]_all => ClientInv'
  BY BasicsNext, RowsNext, OriginNext, ChainNext, PositionNext DEF ClientInv
<1> QED
  BY <1>1, InitClient, PTL DEF ClientSpec

(* A message of another device that unprotect_message accepts under a key  *)
(* it has for the sender carries a signature the C2 has certified for that *)
(* sender, in spite of the rows remove_device leaves behind or doubles.    *)
THEOREM PkClientOriginAuthentic == ClientSpec => []OriginAuthentic
<1>1. ClientInv => OriginAuthentic
  BY DEF ClientInv
<1> QED
  BY <1>1, PkClientInvariant, PTL

(* A client that is behind the C2 has a rotation under its secret that it  *)
(* has not carried out, and unprotect_message would take it for a command  *)
(* but for the window of timestamps.                                       *)
THEOREM PkClientRotationChain == ClientSpec => []RotationChain
<1>1. ClientInv => RotationChain
  <2> SUFFICES ASSUME ClientInv, c2sharedkey # Secret(c2view, C2Key)
               PROVE  \E m \in net \ accepted : /\ m.key = c2sharedkey
                                                /\ m.body.cmd = "SetIdKey"
                                                /\ Open(m, {}) = E4_RESULT_OK
                                                /\ IsDeviceCtrlTopic(m.topic)
    BY DEF RotationChain
  <2>1. privkey \in Issued \ {c2view} /\ c2sharedkey = Shared(privkey)
    BY DEF ClientInv, Position, Shared
  <2>2. PICK m \in Rotations : m.key = c2sharedkey
    BY <2>1 DEF ClientInv, C2Chain
  <2>3. m \notin accepted
    BY <2>2 DEF ClientInv, Position
  <2>4. IsDeviceCtrlTopic(m.topic)
    BY DEF Rotations, IsDeviceCtrlTopic, ClientInv, ClientBasics
  <2>5. c2sharedkey # Zero
    <3>1. \A r \in Rotations : r.body.key \in SecKeys
      BY BodyKinds DEF Rotations, ClientInv, ClientBasics
    <3>2. privkey \in SecKeys
      BY <2>1, <3>1, ClientAssumption DEF Issued
    <3> QED
      BY <2>1, <3>2, SecretAssumption DEF Shared
  <2>6. Open(m, {}) = E4_RESULT_OK
    BY <2>2, <2>4, <2>5 DEF Open
  <2> QED
    BY <2>2, <2>3, <2>4, <2>6 DEF Rotations
<1> QED
  BY <1>1, PkClientInvariant, PTL

(* The client starts with the secret of the keys it is provisioned with,   *)
(* and without topics.                                                     *)
LEMMA InitStored == ClientInit => SecretMatchesKeys /\ GoodTopics(topics)
  BY EmptyGood, ClientAssumption, NonZeroAssumption
  DEF ClientInit, SecretMatchesKeys, Expected

(* Whatever the client receives, its store sees nothing but the calls of   *)
(* e4c_pk_store_mem.c with arguments of their types.  What PkStoreProofs   *)
(* shows of every call therefore holds of the store of a client: the types *)
(* and the cached secret, and, as long as the C2 removes no device from a  *)
(* full device table, the topics are a bounded map on which every command  *)
(* does what it is named for.                                              *)
THEOREM PkClientCallsStore ==
    ClientSpec => /\ [][Next]_vars
                  /\ []TypeOK
                  /\ []SecretMatchesKeys
                  /\ [][RemovalFits]_vars => CallsRefineKeyMap
<1>1. ClientInv /\ [ClientNext]_all => [Next]_vars
  BY StoreStep
<1>2. ClientInv => TypeOK
  BY DEF ClientInv, ClientBasics
<1>3. SecretMatchesKeys /\ [Next]_vars => SecretMatchesKeys'
  BY NextSecret
<1>4. TypeOK /\ [RemovalFits]_vars /\ GoodTopics(topics) /\ [Next]_vars => GoodTopics(topics)'
  BY NextTopics DEF vars, tables
<1>5. TypeOK /\ [RemovalFits]_vars /\ GoodTopics(topics) /\ [Next]_vars => [CallsAreTheirs]_vars
  BY CallsMap
<1>6. CallsRefineKeyMap <=> [][CallsAreTheirs]_vars
  BY DEF CallsRefineKeyMap, CallsAreTheirs
<1> QED
  BY <1>1, <1>2, <1>3, <1>4, <1>5, <1>6, InitStored, PkClientInvariant, PTL DEF ClientSpec

=============================================================================

------------------------------ MODULE PkClient ------------------------------
(***************************************************************************)
(* e4pkcclient.c on the public-key store: protect_message and              *)
(* unprotect_message with signatures, timestamps and the C2's commands.    *)
(*                                                                         *)
(* Two kinds of messages reach the client.  The C2's, on the control       *)
(* topic, are encrypted under the secret the two share.  Those of other    *)
(* devices, on ordinary topics, are encrypted under the topic's key and    *)
(* carry the sender's id and a signature; a device that has the topic key  *)
(* can put any id there.  Cryptography is symbolic: AES-SIV opens with the *)
(* key it was made with only, and a signature is the public key under      *)
(* which it verifies.  The network keeps every message and delivers it any *)
(* number of times in any order, or never.                                 *)
(*                                                                         *)
(* The C2 and the client have a clock each, as in SymClient.               *)
(***************************************************************************)
EXTENDS PkStore, FiniteSets

CONSTANTS
    Client,            \* the id of the client
    FirstSecKey,       \* the private key it is provisioned with
    C2Key,             \* the public key of the C2
    Builds,            \* values of HasRTC, which is FALSE for AVR
    Options,           \* the values of proto_opts, as sets of flags
    RealTime,          \* 946684800, below which a clock is unset
    RTCDates,          \* dates a clock can show at first, or be set to
    E4C_TIME_FUTURE,   \* how far a timestamp may be ahead of the clock
    E4C_TIME_TOO_OLD,  \* how far behind
    MaxTime,           \* bound on the time of both clocks
    MaxMsgs            \* bound on the messages ever sent

ASSUME ClientAssumption ==
    /\ Client \in Ids
    /\ FirstSecKey \in SecKeys
    /\ C2Key \in C2Keys
    /\ Options \subseteq SUBSET {"IGNORE_TIMESTAMP", "IGNORE_MISSING_PUBKEY"}
(* The secret is a hash, which is taken never to be zero.                  *)
ASSUME SecretAssumption == \A k \in SecKeys : Secret(k, C2Key) # Zero
ASSUME TimeAssumption ==
    /\ Builds \subseteq BOOLEAN
    /\ {RealTime, E4C_TIME_FUTURE, E4C_TIME_TOO_OLD, MaxTime, MaxMsgs} \subseteq Nat
    /\ RTCDates \subseteq Nat

VARIABLES
    HasRTC,    \* the build, which never changes
    now,       \* the C2's clock
    secs1970,  \* the client's clock
    net,       \* messages sent
    c2view,    \* the client's private key, as the C2 knows it
    res,       \* result of the client's last call
    accepted,  \* history: messages unprotected with success
    unsigned,  \* history: those of them from a sender without a key
    revoked    \* history: devices whose key the C2 has had removed

store   == vars
history == <<accepted, unsigned, revoked>>
all     == <<HasRTC, store, now, secs1970, net, c2view, res, history>>

ctrl == ControlTopic(Client)

Peers == Ids \ {Client}

-----------------------------------------------------------------------------
(* Messages.                                                               *)

Body(cmd, name, k) == [cmd |-> cmd, name |-> name, key |-> k]

Data == Body("Data", Zero, Zero)

OrdinaryHashes == {TopicHash(t) : t \in Topics}

(* The commands other than SetIdKey.  RemoveTopic may come with its hash   *)
(* cut off, RemovePubKey with its id cut off or with bytes after it;       *)
(* Malformed has an unknown code, or a wrong length where the code looks.  *)
Commands ==
    {Body("RemoveTopic", h, Zero) : h \in OrdinaryHashes \cup {Zero}}
      \cup {Body("SetTopicKey", h, k) : h \in OrdinaryHashes, k \in TopicKeys}
      \cup {Body(c, d, Zero) : c \in {"RemovePubKey", "RemovePubKeyLong"}, d \in Peers}
      \cup {Body("SetPubKey", d, p) : d \in Peers, p \in PubKeys}
      \cup {Body(c, Zero, Zero) : c \in {"ResetTopics", "RemovePubKeys", "RemovePubKeyShort",
                                 "Malformed"}}

C2Msg(sk, b) ==
    [topic |-> ctrl, ts |-> now, from |-> Zero, sig |-> Zero, key |-> Secret(sk, C2Key), body |-> b]

PeerMsg(t, d, p, k) ==
    [topic |-> t, ts |-> now, from |-> d, sig |-> p, key |-> k, body |-> Data]

-----------------------------------------------------------------------------

ClientInit ==
    /\ id = Client
    /\ ctrltopic = TopicHash(ctrl)
    /\ pubkey = Zero
    /\ privkey = FirstSecKey
    /\ c2key = C2Key
    /\ c2sharedkey = Secret(FirstSecKey, C2Key)
    /\ devices = Empty(E4_DEVICES_MAX)
    /\ topics = Empty(E4_TOPICS_MAX)
    /\ ret = E4_RESULT_OK
    /\ foreign = FALSE
    /\ HasRTC \in Builds
    /\ now = RealTime
    /\ secs1970 \in IF HasRTC THEN RTCDates ELSE {0}
    /\ net = {}
    /\ c2view = FirstSecKey
    /\ res = E4_RESULT_OK
    /\ accepted = {}
    /\ unsigned = {}
    /\ revoked = {}

(* A second passes on the C2's clock, or on the client's.                  *)
Tick ==
    /\ now < MaxTime
    /\ now' = now + 1
    /\ UNCHANGED <<secs1970, store, net, c2view, res, history>>

ClockTick ==
    /\ secs1970 < MaxTime
    /\ secs1970' = secs1970 + 1
    /\ UNCHANGED <<now, store, net, c2view, res, history>>

(* The clock of a device that has one is set, forward or back.             *)
SetClock(t) ==
    /\ HasRTC
    /\ secs1970' = t
    /\ UNCHANGED <<now, store, net, c2view, res, history>>

Send(m) ==
    /\ Cardinality(net) < MaxMsgs
    /\ net' = net \cup {m}

(* The C2 sends a command.                                                 *)
C2Command(b) ==
    /\ Send(C2Msg(c2view, b))
    /\ UNCHANGED <<store, now, secs1970, c2view, res, history>>

(* The C2 replaces the client's key pair: it sends the new private key     *)
(* under the old secret and uses the new one from then on.                 *)
C2Rotate(k) ==
    /\ \A m \in net : m.body.key # k
    /\ k # FirstSecKey
    /\ Send(C2Msg(c2view, Body("SetIdKey", Zero, k)))
    /\ c2view' = k
    /\ UNCHANGED <<store, now, secs1970, res, history>>

(* A device publishes, under its own id or another one.                    *)
PeerSend(t, d, p, k) ==
    /\ Send(PeerMsg(t, d, p, k))
    /\ UNCHANGED <<store, now, secs1970, c2view, res, history>>

-----------------------------------------------------------------------------
(* protect_message.                                                        *)

HasTopic(t) == TopicHash(t) \in Names(topics)

E4_TIMESTAMP_LEN      == 8
E4_ID_LEN             == 16
E4_TAG_LEN            == 16
E4_PK_EDDSA_SIG_LEN   == 64
E4_PK_TOPICMSGHDR_LEN == E4_TAG_LEN + E4_TIMESTAMP_LEN + E4_ID_LEN

(* The result for a topic and a message of mlen bytes: the length to be    *)
(* returned is compared with that of the pieces, after they are written.   *)
ProtectResult(t, mlen) ==
    LET clen     == mlen + E4_PK_TOPICMSGHDR_LEN
        clen_siv == mlen + E4_TAG_LEN
    IN  CASE ~HasTopic(t) -> E4_ERROR_TOPICKEY_MISSING
          [] clen # clen_siv + E4_PK_EDDSA_SIG_LEN + E4_TIMESTAMP_LEN + E4_ID_LEN ->
                E4_ERROR_INTERNAL
          [] OTHER -> E4_RESULT_OK

(* e4c_pubkey_protect_message.  The client does not receive what it sends. *)
Protect(t, mlen) ==
    /\ res' = ProtectResult(t, mlen)
    /\ UNCHANGED <<store, now, secs1970, net, c2view, history>>

(* A call with a NULL pointer, or with a buffer the result or the header   *)
(* does not fit in, returns before it does anything.                       *)
RefuseCall ==
    /\ res' \in {E4_ERROR_CIPHERTEXT_TOO_SHORT, E4_ERROR_PARAMETER_OVERFLOW,
                 E4_ERROR_PARAMETER_INVALID}
    /\ UNCHANGED <<store, now, secs1970, net, c2view, history>>

-----------------------------------------------------------------------------
(* unprotect_message.                                                      *)

(* The clock knows the date.                                               *)
Calibrated == secs1970 >= RealTime

(* Taking the signature on trust.                                          *)
OpenNoVerify(m, opts) ==
    CASE IsDeviceCtrlTopic(m.topic) ->
            CASE c2sharedkey = Zero    -> E4_ERROR_PERSISTENCE_ERROR
              [] m.key # c2sharedkey   -> E4_ERROR_INVALID_TAG
              [] OTHER                 -> E4_RESULT_OK
      [] OTHER ->
            CASE m.from \notin Names(devices) /\ "IGNORE_MISSING_PUBKEY" \notin opts
                                       -> E4_ERROR_DEVICEPK_MISSING
              [] ~HasTopic(m.topic)    -> E4_ERROR_TOPICKEY_MISSING
              [] m.key # TopicKey(m.topic) -> E4_ERROR_INVALID_TAG
              [] OTHER                 -> E4_RESULT_OK

(* The key for the message, the signature and the decryption: the control  *)
(* topic comes before the table, and a known sender's signature must       *)
(* verify whatever the options.                                            *)
Open(m, opts) ==
    CASE IsDeviceCtrlTopic(m.topic) ->
            CASE c2sharedkey = Zero    -> E4_ERROR_PERSISTENCE_ERROR
              [] m.key # c2sharedkey   -> E4_ERROR_INVALID_TAG
              [] OTHER                 -> E4_RESULT_OK
      [] OTHER ->
            CASE m.from \in Names(devices) /\ m.sig # DeviceKey(m.from)
                                       -> E4_ERROR_PK_SIGVERIF_FAILED
              [] m.from \notin Names(devices) /\ "IGNORE_MISSING_PUBKEY" \notin opts
                                       -> E4_ERROR_DEVICEPK_MISSING
              [] ~HasTopic(m.topic)    -> E4_ERROR_TOPICKEY_MISSING
              [] m.key # TopicKey(m.topic) -> E4_ERROR_INVALID_TAG
              [] OTHER                 -> E4_RESULT_OK

(* The window, which a clock that does not know the date leaves out.       *)
Window(m, opts) ==
    CASE ~Calibrated \/ "IGNORE_TIMESTAMP" \in opts -> E4_RESULT_OK
      [] m.ts > secs1970 + E4C_TIME_FUTURE   -> E4_ERROR_TIMESTAMP_IN_FUTURE
      [] m.ts + E4C_TIME_TOO_OLD < secs1970  -> E4_ERROR_TIMESTAMP_TOO_OLD
      [] OTHER -> E4_RESULT_OK

(* The switch on the command code.  RemovePubKey calls remove_device when  *)
(* the length is wrong; when it is right r is still 0.                     *)
Execute(b) ==
    \/ /\ b.cmd = "Malformed"
       /\ res' = E4_ERROR_INVALID_COMMAND
       /\ UNCHANGED store
    \/ /\ b.cmd = "RemovePubKey"
       /\ res' = E4_RESULT_OK_CONTROL
       /\ UNCHANGED store
    \/ /\ \/ /\ b.cmd = "RemoveTopic"
             /\ \E h \in Hashes :
                  /\ b.name # Zero => h = b.name  \* else bytes left in the buffer
                  /\ RemoveTopic(h)
          \/ b.cmd = "ResetTopics" /\ ResetTopics
          \/ b.cmd = "SetIdKey" /\ SetIdSecKey(b.key)
          \/ b.cmd = "SetTopicKey" /\ SetTopicKey(b.name, b.key)
          \/ b.cmd = "RemovePubKeyLong" /\ RemoveDevice(b.name)
          \/ b.cmd = "RemovePubKeyShort" /\ \E d \in Ids : RemoveDevice(d)
          \/ b.cmd = "RemovePubKeys" /\ ResetDevices
          \/ b.cmd = "SetPubKey" /\ SetDeviceKey(b.name, b.key)
       /\ res' = IF ret' = E4_RESULT_OK THEN E4_RESULT_OK_CONTROL ELSE ret'

(* Bookkeeping for the properties, for calls that return success.          *)
Record(m) ==
    IF res' \notin {E4_RESULT_OK, E4_RESULT_OK_CONTROL}
    THEN UNCHANGED history
    ELSE /\ accepted' = accepted \cup {m}
         /\ unsigned' = IF m.topic # ctrl /\ m.from \notin Names(devices)
                        THEN unsigned \cup {m} ELSE unsigned
         /\ revoked' = CASE m.body.cmd = "RemovePubKey" -> revoked \cup {m.body.name}
                         [] m.body.cmd = "SetPubKey"    -> revoked \ {m.body.name}
                         [] OTHER -> revoked

(* e4c_pubkey_unprotect_message                                            *)
Unprotect(m, opts) ==
    LET o == Open(m, opts)
        w == Window(m, opts)
    IN  /\ UNCHANGED <<now, net, c2view>>
        /\ \/ /\ o # E4_RESULT_OK \/ w # E4_RESULT_OK
              /\ res' = IF o # E4_RESULT_OK THEN o ELSE w
              /\ UNCHANGED <<store, secs1970, history>>
           \/ /\ o = E4_RESULT_OK /\ w = E4_RESULT_OK
              /\ ~IsDeviceCtrlTopic(m.topic)
              /\ res' = E4_RESULT_OK
              /\ Record(m)
              /\ UNCHANGED <<store, secs1970>>
           \/ /\ o = E4_RESULT_OK /\ w = E4_RESULT_OK
              /\ IsDeviceCtrlTopic(m.topic)
              /\ secs1970' = IF HasRTC \/ Calibrated THEN secs1970 ELSE m.ts
              /\ Execute(m.body)
              /\ Record(m)

ClientStep ==
    \/ Tick \/ ClockTick
    \/ \E t \in RTCDates : SetClock(t)
    \/ \E b \in Commands : C2Command(b)
    \/ \E k \in SecKeys : C2Rotate(k)
    \/ \E t \in Topics, d \in Peers, p \in PubKeys, k \in TopicKeys : PeerSend(t, d, p, k)
    \/ \E t \in Topics, n \in 0 .. 1 : Protect(t, n)
    \/ RefuseCall
    \/ \E m \in net, opts \in Options : Unprotect(m, opts)

ClientNext == ClientStep /\ UNCHANGED HasRTC

ClientSpec == ClientInit /\ [][ClientNext]_all

-----------------------------------------------------------------------------
(* Properties.                                                             *)

(* A message of another device that is accepted, and not because the       *)
(* application does without keys, carries a signature under a key that the *)
(* C2 has certified for the id in the message, whatever keys were set,     *)
(* replaced and removed before and in whatever order.                      *)
OriginAuthentic ==
    \A m \in accepted \ unsigned :
       m.topic # ctrl =>
          \E c \in net : c.topic = ctrl /\ c.body = Body("SetPubKey", m.from, m.sig)

(* The chain of rotations does not break: for a client that is behind the  *)
(* C2 there is a rotation under the very secret it has, not carried out    *)
(* yet, that no check of unprotect_message except the one of the timestamp *)
(* refuses.  It is no promise that the rotation arrives: the network may   *)
(* lose it, and one that is older than the window is refused for good      *)
(* unless the application ignores timestamps.                              *)
RotationChain ==
    c2sharedkey # Secret(c2view, C2Key) =>
       \E m \in net \ accepted : /\ m.key = c2sharedkey
                                 /\ m.body.cmd = "SetIdKey"
                                 /\ Open(m, {}) = E4_RESULT_OK
                                 /\ IsDeviceCtrlTopic(m.topic)

-----------------------------------------------------------------------------
(* Statements the code does not live up to.                                *)

(* After RemovePubKey(id) has been handled the device has no key.          *)
RevokedGone == revoked \cap Names(devices) = {}

=============================================================================
